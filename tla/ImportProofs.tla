----------------------------- MODULE ImportProofs -----------------------------
(***************************************************************************)
(* What holds of Imports for any files, address books, handlers, edits and *)
(* faults.                                                                 *)
(***************************************************************************)
EXTENDS Imports, FiniteSetTheorems, SequenceTheorems, TLAPS

\* A batch is of a file; who works on a batch has rows of its file in hand.
BatchesOK == \A b \in DOMAIN batches : batches[b].session \in DOMAIN uploads

HandOK(h) ==
  /\ handler[h].pc \in {"idle", "write"} => handler[h].batch = 0
  /\ handler[h].pc \in {"load", "rows", "forget"} => handler[h].batch \in DOMAIN batches
  /\ handler[h].pc = "forget" => handler[h].batch \in Completed
  /\ handler[h].pc \in {"load", "rows"} =>
       /\ handler[h].todo \subseteq Drafts(FileOf(handler[h].batch))
       /\ handler[h].keep \subseteq Drafts(FileOf(handler[h].batch))

HandsOK == \A h \in Handler : HandOK(h)

\* The ids not used yet are nobody's.
IdsOK == \A i \in Known : i <= created

TypeInv == TypeOK /\ BatchesOK /\ HandsOK /\ IdsOK

-----------------------------------------------------------------------------
\* At first no handler has anything in hand.
LEMMA IdleHand == Idle \in Hand
BY ImportAssumption DEF Idle, Hand, Counts, Contact, Gone

LEMMA InitTypeInv == Init => TypeInv
<1> SUFFICES ASSUME Init PROVE TypeInv
  OBVIOUS
<1> PICK book \in AddressBook :
       /\ contact = [i \in Id |-> IF i \in DOMAIN book THEN book[i] ELSE Gone]
       /\ created = Len(book)
  BY DEF Init
<1>1. /\ book \in Seq(Contact) /\ Len(book) <= MaxContacts
      /\ \A i, j \in DOMAIN book : i # j => Channels(book[i]) \cap Channels(book[j]) = {}
  BY ImportAssumption
<1>2. DOMAIN book = 1 .. Len(book) /\ Len(book) \in Nat /\ \A i \in DOMAIN book : book[i] \in Contact
  BY <1>1
<1>3. Gone \in Contact
  BY DEF Gone, Contact
<1>4. contact \in [Id -> Contact] /\ created \in 0 .. MaxContacts
  BY <1>1, <1>2, <1>3, ImportAssumption
<1>5. \A i \in Known : i \in DOMAIN book /\ contact[i] = book[i]
  BY DEF Known
<1>6. IdsOK
  BY <1>2, <1>5 DEF IdsOK
<1>6a. ASSUME NEW i \in Known, NEW j \in Known, i # j
       PROVE  Channels(contact[i]) \cap Channels(contact[j]) = {}
  <2>1. i \in DOMAIN book /\ j \in DOMAIN book /\ contact[i] = book[i] /\ contact[j] = book[j]
    BY <1>5
  <2>2. Channels(book[i]) \cap Channels(book[j]) = {}
    BY <1>1, <1>6a, <2>1
  <2> QED
    BY <2>1, <2>2
<1>7. uploads \in Seq(File) /\ batches \in Seq(Batch) /\ DOMAIN batches = {}
  BY DEF Init
<1>8. sessions \subseteq DOMAIN uploads /\ Cardinality(sessions) <= Quota
  BY FS_EmptySet, ImportAssumption DEF Init
<1>9. handler \in [Handler -> Hand] /\ HandsOK
  BY IdleHand DEF Init, Idle, HandsOK, HandOK
<1>10. edits \in 0 .. MaxEdits /\ cut \subseteq DOMAIN batches /\ crowded \subseteq DOMAIN batches
  BY ImportAssumption DEF Init
<1>11. TypeOK
  BY <1>4, <1>6a, <1>7, <1>8, <1>9, <1>10 DEF TypeOK
<1>12. BatchesOK
  BY <1>7 DEF BatchesOK
<1> QED
  BY <1>6, <1>9, <1>11, <1>12 DEF TypeInv

\* A handler takes another hand, which is right for the batches there are.
LEMMA HandStep ==
  ASSUME TypeInv, NEW h \in Handler, NEW hand \in Hand,
         handler' = [handler EXCEPT ![h] = hand],
         UNCHANGED <<uploads, batches>>,
         hand.pc \in {"idle", "write"} => hand.batch = 0,
         hand.pc \in {"load", "rows", "forget"} => hand.batch \in DOMAIN batches,
         hand.pc = "forget" => hand.batch \in Completed,
         hand.pc \in {"load", "rows"} => /\ hand.todo \subseteq Drafts(FileOf(hand.batch))
                                         /\ hand.keep \subseteq Drafts(FileOf(hand.batch))
  PROVE  handler' \in [Handler -> Hand] /\ HandsOK' /\ BatchesOK'
BY DEF TypeInv, TypeOK, HandsOK, HandOK, BatchesOK, Completed, FileOf

\* The file a handler works on, and its rows.
LEMMA RowType ==
  ASSUME TypeInv, NEW h \in Handler, handler[h].pc \in {"load", "rows"}
  PROVE  /\ handler[h].batch \in DOMAIN batches
         /\ FileOf(handler[h].batch) \in File
         /\ StrategyOf(h) \in Strategy
         /\ \A k \in DOMAIN FileOf(handler[h].batch) : FileOf(handler[h].batch)[k] \in Row
         /\ handler[h].todo \subseteq Nat /\ handler[h].keep \subseteq Nat
         /\ \A k \in handler[h].todo \cup handler[h].keep :
              /\ RowOf(h, k) \in Row /\ RowOf(h, k).kind \in {"good", "long"}
              /\ ChannelsOf(RowOf(h, k)) \in Contact \ {Gone}
              /\ Channels(ChannelsOf(RowOf(h, k))) = Channels(RowOf(h, k))
<1>1. handler[h].batch \in DOMAIN batches
  BY DEF TypeInv, HandsOK, HandOK
<1>2. batches[handler[h].batch] \in Batch /\ batches[handler[h].batch].session \in DOMAIN uploads
  BY <1>1 DEF TypeInv, TypeOK, BatchesOK
<1>3. FileOf(handler[h].batch) \in File
  BY <1>2 DEF TypeInv, TypeOK, FileOf
<1>4. FileOf(handler[h].batch) \in Seq(Row)
  BY <1>3, ImportAssumption
<1>5. \A k \in DOMAIN FileOf(handler[h].batch) : FileOf(handler[h].batch)[k] \in Row
  BY <1>4
<1>6. handler[h].todo \subseteq Nat /\ handler[h].keep \subseteq Nat
  BY DEF TypeInv, TypeOK, Hand
<1>7. \A k \in handler[h].todo \cup handler[h].keep :
         k \in DOMAIN FileOf(handler[h].batch) /\ RowOf(h, k).kind \in {"good", "long"}
  BY DEF TypeInv, HandsOK, HandOK, Drafts, RowOf
<1>8. ASSUME NEW k \in handler[h].todo \cup handler[h].keep
      PROVE  /\ RowOf(h, k) \in Row
             /\ ChannelsOf(RowOf(h, k)) \in Contact \ {Gone}
             /\ Channels(ChannelsOf(RowOf(h, k))) = Channels(RowOf(h, k))
  <2>1. RowOf(h, k) \in Row
    BY <1>5, <1>7 DEF RowOf
  <2>2. Channels(RowOf(h, k)) # {}
    BY <1>3, <1>7, ImportAssumption DEF RowOf
  <2> QED
    BY <2>1, <2>2 DEF Row, ChannelsOf, Channels, Contact, Gone
<1> QED
  BY <1>1, <1>2, <1>3, <1>5, <1>6, <1>7, <1>8 DEF StrategyOf, Batch

\* One contact is written: created, overwritten or deleted.
LEMMA WriteType ==
  ASSUME TypeInv, NEW i \in Id, NEW c \in Contact, c = Gone \/ ~Taken(c, i),
         contact' = [contact EXCEPT ![i] = c]
  PROVE  /\ contact' \in [Id -> Contact]
         /\ Known' \subseteq Known \cup {i}
         /\ \A j \in Id \ {i} : contact'[j] = contact[j]
         /\ \A j, k \in Known' : j # k => Channels(contact'[j]) \cap Channels(contact'[k]) = {}
<1>1. /\ contact' \in [Id -> Contact] /\ contact'[i] = c
      /\ \A j \in Id \ {i} : contact'[j] = contact[j]
  BY DEF TypeInv, TypeOK
<1>2. Known' \subseteq Known \cup {i} /\ (c = Gone => i \notin Known')
  BY <1>1 DEF Known
<1>3. \A j \in Known' \ {i} : j \in Known /\ contact'[j] = contact[j]
  BY <1>1, <1>2 DEF Known
<1>4. ASSUME NEW j \in Known' \ {i}, i \in Known'
      PROVE  Channels(contact'[j]) \cap Channels(contact'[i]) = {}
  BY <1>1, <1>2, <1>3, <1>4 DEF Taken, Channels
<1>5. ASSUME NEW j \in Known', NEW k \in Known', j # k
      PROVE  Channels(contact'[j]) \cap Channels(contact'[k]) = {}
  <2>1. CASE j # i /\ k # i
    BY <1>3, <1>5, <2>1 DEF TypeInv, TypeOK
  <2>2. CASE j = i
    BY <1>4, <1>5, <2>2
  <2>3. CASE k = i
    BY <1>4, <1>5, <2>3
  <2> QED
    BY <2>1, <2>2, <2>3
<1> QED
  BY <1>1, <1>2, <1>5

LEMMA OwnerType == ASSUME TypeInv, NEW c PROVE Owner(c) \in Id \cup {0}
BY DEF Owner, Known


-----------------------------------------------------------------------------
\* The parts of TypeInv, each of which few actions disturb.
ContactsOK ==
  /\ contact \in [Id -> Contact] /\ created \in 0 .. MaxContacts
  /\ \A i, j \in Known : i # j => Channels(contact[i]) \cap Channels(contact[j]) = {}
  /\ IdsOK

StoreOK ==
  /\ uploads \in Seq(File)
  /\ sessions \subseteq DOMAIN uploads /\ Cardinality(sessions) <= Quota

CommitsOK ==
  /\ batches \in Seq(Batch) /\ BatchesOK
  /\ handler \in [Handler -> Hand] /\ HandsOK
  /\ cut \subseteq DOMAIN batches /\ crowded \subseteq DOMAIN batches

LEMMA TypeInvParts ==
  TypeInv <=> ContactsOK /\ StoreOK /\ CommitsOK /\ edits \in 0 .. MaxEdits
BY DEF TypeInv, TypeOK, ContactsOK, StoreOK, CommitsOK

LEMMA TypeInvNext ==
  ContactsOK' /\ StoreOK' /\ CommitsOK' /\ edits' \in 0 .. MaxEdits => TypeInv'
BY DEF TypeInv, TypeOK, ContactsOK, StoreOK, CommitsOK

LEMMA ContactsKept == ASSUME TypeInv, UNCHANGED records PROVE ContactsOK'
BY TypeInvParts DEF ContactsOK, records, Known, IdsOK

LEMMA StoreKept == ASSUME TypeInv, UNCHANGED store PROVE StoreOK'
BY TypeInvParts DEF StoreOK, store

LEMMA FewerSessions ==
  ASSUME TypeInv, UNCHANGED uploads, sessions' \subseteq sessions PROVE StoreOK'
<1>1. IsFiniteSet(1 .. Len(uploads)) /\ DOMAIN uploads = 1 .. Len(uploads)
  BY FS_Interval DEF TypeInv, TypeOK
<1>2. IsFiniteSet(sessions)
  BY <1>1, FS_Subset DEF TypeInv, TypeOK
<1>3. /\ Cardinality(sessions') <= Cardinality(sessions)
      /\ Cardinality(sessions) \in Nat /\ Cardinality(sessions') \in Nat
  BY <1>2, FS_Subset, FS_CardinalityType
<1> QED
  BY <1>3, ImportAssumption DEF TypeInv, TypeOK, StoreOK

\* One contact is written, or one more is.
LEMMA ContactWritten ==
  ASSUME TypeInv, NEW i \in Known, NEW c \in Contact, c = Gone \/ ~Taken(c, i),
         contact' = [contact EXCEPT ![i] = c], UNCHANGED created
  PROVE  ContactsOK'
<1>1. i \in Id
  BY DEF Known
<1> QED
  BY <1>1, WriteType, TypeInvParts DEF ContactsOK, IdsOK

LEMMA ContactCreated ==
  ASSUME TypeInv, NEW c \in Contact, ~Taken(c, 0), created < MaxContacts,
         created' = created + 1, contact' = [contact EXCEPT ![created + 1] = c]
  PROVE  ContactsOK'
<1>1. created + 1 \in Id /\ created' \in 0 .. MaxContacts /\ created \in Nat
  BY ImportAssumption DEF TypeInv, TypeOK, Id
<1>2. created + 1 \notin Known
  BY <1>1 DEF TypeInv, IdsOK
<1>3. ~Taken(c, created + 1)
  <2>1. Known \ {created + 1} = Known \ {0}
    BY <1>2 DEF Known, Id
  <2> QED
    BY <2>1 DEF Taken
<1>4. /\ contact' \in [Id -> Contact] /\ Known' \subseteq Known \cup {created + 1}
      /\ \A j, k \in Known' : j # k => Channels(contact'[j]) \cap Channels(contact'[k]) = {}
  BY <1>1, <1>3, WriteType
<1>5. IdsOK'
  BY <1>1, <1>4 DEF TypeInv, IdsOK, Known, Id
<1> QED
  BY <1>1, <1>4, <1>5 DEF ContactsOK

\* A handler takes another hand, its batch and the others being as they were.
LEMMA HandTaken ==
  ASSUME TypeInv, NEW h \in Handler, NEW hand \in Hand,
         handler' = [handler EXCEPT ![h] = hand],
         UNCHANGED <<uploads, batches>>, cut' \subseteq DOMAIN batches,
         crowded' \subseteq DOMAIN batches,
         \/ hand.pc \in {"idle", "write"} /\ hand.batch = 0
         \/ /\ hand.pc = "rows" /\ handler[h].pc \in {"load", "rows"}
            /\ hand.batch = handler[h].batch /\ hand.todo \subseteq handler[h].todo
            /\ hand.keep \subseteq handler[h].keep \cup handler[h].todo
  PROVE  CommitsOK'
<1>1. /\ hand.pc \in {"idle", "write"} => hand.batch = 0
      /\ hand.pc \in {"load", "rows", "forget"} => hand.batch \in DOMAIN batches
      /\ hand.pc = "forget" => hand.batch \in Completed
      /\ hand.pc \in {"load", "rows"} => /\ hand.todo \subseteq Drafts(FileOf(hand.batch))
                                         /\ hand.keep \subseteq Drafts(FileOf(hand.batch))
  BY DEF TypeInv, HandsOK, HandOK
<1>2. handler' \in [Handler -> Hand] /\ HandsOK' /\ BatchesOK'
  BY <1>1, HandStep
<1> QED
  BY <1>2 DEF TypeInv, TypeOK, CommitsOK

\* The rows of a file are finitely many.
LEMMA FileType ==
  ASSUME NEW f \in File
  PROVE  /\ f \in Seq(Row) /\ DOMAIN f \subseteq Nat /\ IsFiniteSet(DOMAIN f)
         /\ \A rows \in SUBSET DOMAIN f : IsFiniteSet(rows) /\ Cardinality(rows) \in Nat
<1>1. f \in Seq(Row)
  BY ImportAssumption
<1>2. DOMAIN f = 1 .. Len(f) /\ Len(f) \in Nat
  BY <1>1
<1>3. IsFiniteSet(DOMAIN f)
  BY <1>2, FS_Interval
<1> QED
  BY <1>1, <1>2, <1>3, FS_Subset, FS_CardinalityType

LEMMA AnalyzeType == ASSUME TypeInv, Analyze PROVE TypeInv'
<1> PICK f \in File : uploads' = Append(uploads, f)
  BY DEF Analyze
<1> PICK kept \in SUBSET sessions : Stay(kept) /\ sessions' = kept \cup {Len(uploads) + 1}
  BY DEF Analyze
<1>1. /\ uploads' \in Seq(File) /\ DOMAIN uploads' = DOMAIN uploads \cup {Len(uploads) + 1}
      /\ \A s \in DOMAIN uploads : uploads'[s] = uploads[s]
      /\ DOMAIN uploads = 1 .. Len(uploads) /\ Len(uploads) \in Nat
  BY DEF TypeInv, TypeOK
<1>2. IsFiniteSet(sessions) /\ IsFiniteSet(kept)
  <2>1. IsFiniteSet(DOMAIN uploads) /\ sessions \subseteq DOMAIN uploads
    BY <1>1, FS_Interval DEF TypeInv, TypeOK
  <2>2. IsFiniteSet(sessions)
    BY <2>1, FS_Subset
  <2> QED
    BY <2>2, FS_Subset
<1>3. Len(uploads) + 1 \notin kept
  BY <1>1 DEF TypeInv, TypeOK
<1>4. Cardinality(sessions') = Cardinality(kept) + 1 /\ Cardinality(kept) \in Nat
  BY <1>2, <1>3, FS_AddElement, FS_CardinalityType
<1>5. Cardinality(sessions') <= Quota
  BY <1>4, ImportAssumption DEF Stay
<1>6. StoreOK'
  BY <1>1, <1>5 DEF StoreOK, TypeInv, TypeOK
<1>7. \A b \in DOMAIN batches : FileOf(b)' = FileOf(b)
  BY <1>1 DEF FileOf, TypeInv, BatchesOK, Analyze
<1>8. HandsOK' /\ BatchesOK'
  BY <1>1, <1>7 DEF HandsOK, HandOK, BatchesOK, TypeInv, Analyze, Completed
<1>9. CommitsOK'
  BY <1>8 DEF CommitsOK, TypeInv, TypeOK, Analyze
<1> QED
  BY <1>6, <1>9, ContactsKept, TypeInvParts, TypeInvNext DEF Analyze, TypeInv, TypeOK

LEMMA CommitType == ASSUME TypeInv, NEW h \in Handler, Commit(h) PROVE TypeInv'
<1> PICK s \in sessions, strategy \in Strategy :
      LET b == Len(batches) + 1
          counts == [Idle.counts EXCEPT !.failed = Cardinality(Refused(uploads[s]))]
      IN  /\ batches' = Append(batches, [session |-> s, strategy |-> strategy,
                                         status |-> "processing", counts |-> Idle.counts])
          /\ handler' = [handler EXCEPT ![h] =
                           [Idle EXCEPT !.pc = "load", !.batch = b,
                                        !.todo = Drafts(uploads[s]), !.counts = counts]]
          /\ crowded' = crowded \cup ({handler[g].batch : g \in Busy} \ {0})
                                \cup (IF Busy # {} THEN {b} ELSE {})
  BY DEF Commit
<1> DEFINE b == Len(batches) + 1
           batch == [session |-> s, strategy |-> strategy,
                     status |-> "processing", counts |-> Idle.counts]
           counts == [Idle.counts EXCEPT !.failed = Cardinality(Refused(uploads[s]))]
           hand == [Idle EXCEPT !.pc = "load", !.batch = b,
                                !.todo = Drafts(uploads[s]), !.counts = counts]
<1>1. s \in DOMAIN uploads /\ uploads[s] \in File /\ s \in Nat
  BY DEF TypeInv, TypeOK
<1>2. /\ Drafts(uploads[s]) \subseteq DOMAIN uploads[s]
      /\ Drafts(uploads[s]) \in SUBSET Nat /\ Cardinality(Refused(uploads[s])) \in Nat
  BY <1>1, FileType DEF Drafts, Refused
<1>3. batch \in Batch /\ batch.session = s /\ batch.status = "processing"
  BY <1>1 DEF Batch, Counts, Idle
<1>4. /\ batches' = Append(batches, batch) /\ batches' \in Seq(Batch)
      /\ DOMAIN batches' = DOMAIN batches \cup {b} /\ batches'[b] = batch
      /\ \A c \in DOMAIN batches : batches'[c] = batches[c]
      /\ b \in Nat
  BY <1>3 DEF TypeInv, TypeOK
<1>5. counts \in Counts
  BY <1>2 DEF Idle, Counts
<1>6. hand \in Hand /\ hand.pc = "load" /\ hand.batch = b /\ hand.keep = {}
      /\ hand.todo = Drafts(uploads[s])
  BY <1>2, <1>4, <1>5, IdleHand DEF Idle, Hand
<1>7. /\ handler' = [handler EXCEPT ![h] = hand]
      /\ handler' \in [Handler -> Hand] /\ handler'[h] = hand
      /\ \A g \in Handler \ {h} : handler'[g] = handler[g]
  BY <1>6 DEF TypeInv, TypeOK
<1>8. BatchesOK'
  BY <1>1, <1>3, <1>4 DEF BatchesOK, TypeInv, Commit, store
<1>9. /\ uploads'[batches'[b].session] = uploads[s]
      /\ \A c \in DOMAIN batches : uploads'[batches'[c].session] = FileOf(c)
  BY <1>3, <1>4 DEF FileOf, Commit, store
<1>10. Completed \subseteq Completed'
  BY <1>4 DEF Completed
<1>11. HandsOK'
  <2> SUFFICES ASSUME NEW g \in Handler PROVE HandOK(g)'
    BY DEF HandsOK
  <2>1. CASE g = h
    <3>1. handler'[g] = hand
      BY <1>7, <2>1
    <3>2. FileOf(handler[g].batch)' = uploads[s]
      BY <1>6, <1>9, <3>1 DEF FileOf
    <3> QED
      BY <1>4, <1>6, <3>1, <3>2 DEF HandOK
  <2>2. CASE g # h
    <3>1. handler'[g] = handler[g]
      BY <1>7, <2>2
    <3>2. handler[g].batch \in DOMAIN batches
             => FileOf(handler[g].batch)' = FileOf(handler[g].batch)
      <4>1. FileOf(handler[g].batch)' = uploads'[batches'[handler[g].batch].session]
        BY <3>1 DEF FileOf
      <4> QED
        BY <1>9, <4>1
    <3> QED
      BY <1>4, <1>10, <3>1, <3>2 DEF TypeInv, HandsOK, HandOK
  <2> QED
    BY <2>1, <2>2
<1>12. cut' \subseteq DOMAIN batches' /\ crowded' \subseteq DOMAIN batches'
  <2>1. \A g \in Busy : handler[g].batch = 0 \/ handler[g].batch \in DOMAIN batches
    BY DEF Busy, TypeInv, TypeOK, HandsOK, HandOK, Hand
  <2> QED
    BY <2>1, <1>4 DEF TypeInv, TypeOK, Commit
<1>13. CommitsOK'
  BY <1>4, <1>7, <1>8, <1>11, <1>12 DEF CommitsOK
<1> QED
  BY <1>13, ContactsKept, StoreKept, TypeInvParts, TypeInvNext DEF Commit, TypeInv, TypeOK

\* What a handler can be left with.
LEMMA HandType ==
  ASSUME TypeInv, NEW h \in Handler
  PROVE  /\ handler[h] \in Hand
         /\ \A k \in Nat, n \in Counts :
              /\ [handler[h] EXCEPT !.todo = @ \ {k}, !.counts = n] \in Hand
              /\ [handler[h] EXCEPT !.keep = @ \ {k}, !.counts = n] \in Hand
              /\ \A row \in Row :
                   [handler[h] EXCEPT !.todo = @ \ {k}, !.keep = @ \cup {k},
                                      !.seen = @ \cup Channels(row)] \in Hand
         /\ \A part \in {"created", "updated", "duplicate", "failed"} :
              [handler[h].counts EXCEPT ![part] = @ + 1] \in Counts
<1>1. handler[h] \in Hand
  BY DEF TypeInv, TypeOK
<1>2. \A row \in Row : Channels(row) \subseteq Channel
  BY DEF Row, Channels, Channel
<1>3. ASSUME NEW k \in Nat, NEW n \in Counts
      PROVE  /\ [handler[h] EXCEPT !.todo = @ \ {k}, !.counts = n] \in Hand
             /\ [handler[h] EXCEPT !.keep = @ \ {k}, !.counts = n] \in Hand
  BY <1>1 DEF Hand
<1>4. ASSUME NEW k \in Nat, NEW row \in Row
      PROVE  [handler[h] EXCEPT !.todo = @ \ {k}, !.keep = @ \cup {k},
                                !.seen = @ \cup Channels(row)] \in Hand
  BY <1>1, <1>2 DEF Hand
<1>5. ASSUME NEW part \in {"created", "updated", "duplicate", "failed"}
      PROVE  [handler[h].counts EXCEPT ![part] = @ + 1] \in Counts
  <2>1. handler[h].counts \in Counts
    BY <1>1 DEF Hand
  <2> QED
    BY <2>1 DEF Counts
<1> QED
  BY <1>1, <1>3, <1>4, <1>5

LEMMA LoadType == ASSUME TypeInv, NEW h \in Handler, Load(h) PROVE TypeInv'
<1> DEFINE wanted == UNION {Channels(FileOf(handler[h].batch)[k]) :
                             k \in Drafts(FileOf(handler[h].batch))}
           index == [c \in Channel |-> IF c \in wanted THEN Owner(c) ELSE 0]
           hand == [handler[h] EXCEPT !.pc = "rows", !.index = index]
<1>1. index \in [Channel -> Id \cup {0}]
  BY OwnerType
<1>2. /\ hand \in Hand /\ hand.pc = "rows" /\ hand.batch = handler[h].batch
      /\ hand.todo = handler[h].todo /\ hand.keep = handler[h].keep
  <2>1. handler[h] \in Hand
    BY DEF TypeInv, TypeOK
  <2> QED
    BY <1>1, <2>1 DEF Hand
<1>3. handler' = [handler EXCEPT ![h] = hand] /\ UNCHANGED <<edits, crowded>>
  BY DEF Load, GoOn
<1>4. CommitsOK'
  BY <1>2, <1>3, HandTaken DEF Load, At, store, TypeInv, TypeOK
<1> QED
  BY <1>3, <1>4, ContactsKept, StoreKept, TypeInvParts, TypeInvNext DEF Load

LEMMA KeepType ==
  ASSUME TypeInv, NEW h \in Handler, NEW k \in handler[h].todo, Keep(h, k) PROVE TypeInv'
<1> DEFINE hand == [handler[h] EXCEPT !.todo = @ \ {k}, !.keep = @ \cup {k},
                                      !.seen = @ \cup Channels(RowOf(h, k))]
<1>1. k \in Nat /\ RowOf(h, k) \in Row
  BY RowType DEF Keep, AtRow, At
<1>2. /\ hand \in Hand /\ hand.pc = "rows" /\ hand.batch = handler[h].batch
      /\ hand.todo \subseteq handler[h].todo
      /\ hand.keep \subseteq handler[h].keep \cup handler[h].todo
  <2>1. handler[h] \in Hand /\ hand \in Hand /\ handler[h].pc = "rows"
    BY <1>1, HandType DEF Keep, AtRow, At
  <2> QED
    BY <2>1 DEF Hand
<1>3. handler' = [handler EXCEPT ![h] = hand] /\ UNCHANGED <<edits, crowded>>
  BY DEF Keep, GoOn
<1>4. CommitsOK'
  BY <1>2, <1>3, HandTaken DEF Keep, AtRow, At, store, TypeInv, TypeOK
<1> QED
  BY <1>3, <1>4, ContactsKept, StoreKept, TypeInvParts, TypeInvNext DEF Keep

\* A row is counted, whether or not a contact is written.
LEMMA RowCounted ==
  ASSUME TypeInv, NEW h \in Handler, At(h, "rows"), NEW n \in Counts,
         NEW k \in handler[h].todo \cup handler[h].keep,
         \/ GoOn(h, [handler[h] EXCEPT !.todo = @ \ {k}, !.counts = n])
         \/ GoOn(h, [handler[h] EXCEPT !.keep = @ \ {k}, !.counts = n]),
         UNCHANGED <<store, batches, cut>>, ContactsOK'
  PROVE  TypeInv'
<1> PICK hand \in {[handler[h] EXCEPT !.todo = @ \ {k}, !.counts = n],
                   [handler[h] EXCEPT !.keep = @ \ {k}, !.counts = n]} : GoOn(h, hand)
  OBVIOUS
<1>1. k \in Nat
  BY DEF TypeInv, TypeOK, Hand
<1>2. /\ hand \in Hand /\ hand.pc = "rows" /\ hand.batch = handler[h].batch
      /\ hand.todo \subseteq handler[h].todo /\ hand.keep \subseteq handler[h].keep
  <2>1. handler[h] \in Hand /\ handler[h].pc = "rows"
    BY HandType DEF At
  <2>2. CASE hand = [handler[h] EXCEPT !.todo = @ \ {k}, !.counts = n]
    BY <1>1, <2>1, <2>2 DEF Hand
  <2>3. CASE hand = [handler[h] EXCEPT !.keep = @ \ {k}, !.counts = n]
    BY <1>1, <2>1, <2>3 DEF Hand
  <2> QED
    BY <2>1, <2>2, <2>3
<1>3. CommitsOK'
  BY <1>2, HandTaken DEF GoOn, At, store, TypeInv, TypeOK
<1> QED
  BY <1>3, StoreKept, TypeInvParts, TypeInvNext DEF GoOn

LEMMA DuplicateType ==
  ASSUME TypeInv, NEW h \in Handler, NEW k \in handler[h].todo, Duplicate(h, k) PROVE TypeInv'
<1> DEFINE n == [handler[h].counts EXCEPT !.duplicate = @ + 1]
<1>1. n \in Counts
  BY HandType
<1>2. GoOn(h, [handler[h] EXCEPT !.todo = @ \ {k}, !.counts = n])
  BY DEF Duplicate
<1> QED
  BY <1>1, <1>2, RowCounted, ContactsKept DEF Duplicate, AtRow

LEMMA UpdateType ==
  ASSUME TypeInv, NEW h \in Handler, NEW k \in handler[h].todo, Update(h, k) PROVE TypeInv'
<1> DEFINE n == [handler[h].counts EXCEPT !.updated = @ + 1]
           i == Existing(h, k)
           c == ChannelsOf(RowOf(h, k))
<1>1. n \in Counts
  BY HandType
<1>2. GoOn(h, [handler[h] EXCEPT !.todo = @ \ {k}, !.counts = n])
  BY DEF Update
<1>3. At(h, "rows") /\ c \in Contact /\ Channels(c) = Channels(RowOf(h, k))
  BY RowType DEF Update, Updates, AtRow, At
<1>4. ContactsOK'
  <2>1. CASE i \in Known
    <3>1. ~Taken(c, i)
      BY <1>3, <2>1 DEF Update, Collides, Taken
    <3> QED
      BY <1>3, <2>1, <3>1, ContactWritten DEF Update
  <2>2. CASE i \notin Known
    BY <2>2, ContactsKept DEF Update, records
  <2> QED
    BY <2>1, <2>2
<1> QED
  BY <1>1, <1>2, <1>3, <1>4, RowCounted DEF Update

LEMMA InsertType == ASSUME TypeInv, NEW h \in Handler, Insert(h) PROVE TypeInv'
<1> PICK k \in handler[h].keep :
      \E n \in Counts :
        /\ GoOn(h, [handler[h] EXCEPT !.keep = @ \ {k}, !.counts = n])
        /\ \/ UNCHANGED records
           \/ /\ ~Taken(RowOf(h, k), 0) /\ created < MaxContacts /\ created' = created + 1
              /\ contact' = [contact EXCEPT ![created + 1] = ChannelsOf(RowOf(h, k))]
  <2>1. /\ [handler[h].counts EXCEPT !.created = @ + 1] \in Counts
        /\ [handler[h].counts EXCEPT !.failed = @ + 1] \in Counts
    BY HandType
  <2> QED
    BY <2>1 DEF Insert
<1>1. /\ ChannelsOf(RowOf(h, k)) \in Contact
      /\ Channels(ChannelsOf(RowOf(h, k))) = Channels(RowOf(h, k))
  BY RowType DEF Insert, At
<1>2. ContactsOK'
  <2>1. CASE UNCHANGED records
    BY <2>1, ContactsKept
  <2>2. CASE /\ ~Taken(RowOf(h, k), 0) /\ created < MaxContacts /\ created' = created + 1
             /\ contact' = [contact EXCEPT ![created + 1] = ChannelsOf(RowOf(h, k))]
    <3>1. ~Taken(ChannelsOf(RowOf(h, k)), 0)
      BY <1>1, <2>2 DEF Taken
    <3> QED
      BY <1>1, <2>2, <3>1, ContactCreated
  <2> QED
    BY <2>1, <2>2
<1> QED
  BY <1>2, RowCounted DEF Insert

\* completeBatch() marks the batch of handler h and no other.
LEMMA CompleteBatch ==
  ASSUME TypeInv, NEW h \in Handler, Complete(h)
  PROVE  LET b == handler[h].batch
             hand == [Idle EXCEPT !.pc = "forget", !.batch = b]
         IN  /\ b \in DOMAIN batches /\ batches' \in Seq(Batch)
             /\ DOMAIN batches' = DOMAIN batches
             /\ batches'[b] = [batches[b] EXCEPT !.status = "completed",
                                                 !.counts = handler[h].counts]
             /\ \A c \in DOMAIN batches \ {b} : batches'[c] = batches[c]
             /\ \A c \in DOMAIN batches : /\ batches'[c].session = batches[c].session
                                          /\ batches'[c].strategy = batches[c].strategy
                                          /\ uploads'[batches'[c].session] = FileOf(c)
             /\ Completed' = Completed \cup {b}
             /\ hand \in Hand /\ handler' \in [Handler -> Hand] /\ handler'[h] = hand
             /\ \A g \in Handler \ {h} : handler'[g] = handler[g]
<1> DEFINE b == handler[h].batch
           done == [batches[b] EXCEPT !.status = "completed", !.counts = handler[h].counts]
           hand == [Idle EXCEPT !.pc = "forget", !.batch = b]
<1>1. b \in DOMAIN batches /\ handler[h].counts \in Counts /\ b \in Nat
  BY DEF Complete, At, TypeInv, TypeOK, HandsOK, HandOK, Hand
<1>2. batches[b] \in Batch
  BY <1>1 DEF TypeInv, TypeOK
<1>3. /\ done \in Batch /\ done.status = "completed"
      /\ done.session = batches[b].session /\ done.strategy = batches[b].strategy
  BY <1>1, <1>2 DEF Batch
<1>4. batches' = [batches EXCEPT ![b] = done]
  BY DEF Complete
<1>5. /\ batches' \in Seq(Batch) /\ DOMAIN batches' = DOMAIN batches /\ batches'[b] = done
      /\ \A c \in DOMAIN batches \ {b} : batches'[c] = batches[c]
  BY <1>1, <1>3, <1>4 DEF TypeInv, TypeOK
<1>6. \A c \in DOMAIN batches : /\ batches'[c].session = batches[c].session
                                /\ batches'[c].strategy = batches[c].strategy
  BY <1>3, <1>5
<1>7. \A c \in DOMAIN batches : uploads'[batches'[c].session] = FileOf(c)
  BY <1>6 DEF FileOf, Complete, store
<1>8. Completed' = Completed \cup {b}
  BY <1>1, <1>3, <1>5 DEF Completed
<1>9. hand \in Hand
  BY <1>1, IdleHand DEF Idle, Hand
<1>10. handler' = [handler EXCEPT ![h] = hand]
  BY DEF Complete, GoOn
<1> QED
  BY <1>1, <1>5, <1>6, <1>7, <1>8, <1>9, <1>10 DEF TypeInv, TypeOK

LEMMA CompleteType == ASSUME TypeInv, NEW h \in Handler, Complete(h) PROVE TypeInv'
<1> DEFINE b == handler[h].batch
<1>1. HandsOK'
  <2>1. handler'[h].pc = "forget" /\ handler'[h].batch = b
    BY CompleteBatch DEF Idle
  <2> SUFFICES ASSUME NEW g \in Handler PROVE HandOK(g)'
    BY DEF HandsOK
  <2>2. CASE g = h
    BY <2>1, <2>2, CompleteBatch DEF HandOK
  <2>3. CASE g # h
    <3>1. handler'[g] = handler[g]
      BY <2>3, CompleteBatch
    <3>2. handler[g].batch \in DOMAIN batches
             => FileOf(handler[g].batch)' = FileOf(handler[g].batch)
      <4>1. FileOf(handler[g].batch)' = uploads'[batches'[handler[g].batch].session]
        BY <3>1 DEF FileOf
      <4> QED
        BY <4>1, CompleteBatch
    <3> QED
      BY <3>1, <3>2, CompleteBatch DEF TypeInv, HandsOK, HandOK
  <2> QED
    BY <2>2, <2>3
<1>2. BatchesOK'
  BY CompleteBatch DEF BatchesOK, TypeInv, Complete, store
<1>3. CommitsOK'
  BY <1>1, <1>2, CompleteBatch DEF CommitsOK, TypeInv, TypeOK, Complete, GoOn
<1> QED
  BY <1>3, ContactsKept, StoreKept, TypeInvParts, TypeInvNext DEF Complete, GoOn

\* A request ends.
LEMMA DoneType ==
  ASSUME TypeInv, NEW h \in Handler, GoOn(h, Idle), UNCHANGED <<uploads, batches>>,
         cut' \subseteq DOMAIN batches, ContactsOK', sessions' \subseteq sessions
  PROVE  TypeInv'
<1>1. Idle \in Hand /\ Idle.pc = "idle" /\ Idle.batch = 0
  BY IdleHand DEF Idle
<1>2. CommitsOK'
  BY <1>1, HandTaken DEF GoOn, TypeInv, TypeOK
<1> QED
  BY <1>2, FewerSessions, TypeInvParts, TypeInvNext DEF GoOn

LEMMA FailType ==
  ASSUME TypeInv, NEW h \in Handler, Fail(h), UNCHANGED <<records, store, batches>>
  PROVE  TypeInv'
<1>1. handler[h].batch = 0 \/ handler[h].batch \in DOMAIN batches
  BY DEF TypeInv, TypeOK, HandsOK, HandOK, Hand
<1>2. cut' \subseteq DOMAIN batches
  BY <1>1 DEF Fail, TypeInv, TypeOK
<1> QED
  BY <1>2, DoneType, ContactsKept DEF Fail, store

LEMMA WriteTypeInv == ASSUME TypeInv, NEW h \in Handler, Write(h) PROVE TypeInv'
<1>1. handler[h].contact \in Contact
  BY DEF TypeInv, TypeOK, Hand
<1>2. ContactsOK'
  BY <1>1, ContactWritten, ContactCreated, ContactsKept DEF Write
<1> QED
  BY <1>2, DoneType DEF Write, store, TypeInv, TypeOK

\* The batches a request meets.
LEMMA MeetType ==
  ASSUME TypeInv, UNCHANGED batches, Meet(Busy) PROVE crowded' \subseteq DOMAIN batches
<1>1. \A g \in Busy : handler[g].batch = 0 \/ handler[g].batch \in DOMAIN batches
  BY DEF Busy, TypeInv, TypeOK, HandsOK, HandOK, Hand
<1> QED
  BY <1>1 DEF Meet, TypeInv, TypeOK

LEMMA EditType == ASSUME TypeInv, NEW h \in Handler, Edit(h) PROVE TypeInv'
<1> PICK c \in Contact, i \in Known \cup {0} :
      handler' = [handler EXCEPT ![h] = [Idle EXCEPT !.pc = "write", !.contact = c, !.id = i]]
  BY DEF Edit
<1> DEFINE hand == [Idle EXCEPT !.pc = "write", !.contact = c, !.id = i]
<1>1. hand \in Hand /\ hand.pc = "write" /\ hand.batch = 0
  BY IdleHand DEF Idle, Hand, Known
<1>2. crowded' \subseteq DOMAIN batches
  BY MeetType DEF Edit
<1>3. CommitsOK'
  BY <1>1, <1>2, HandTaken DEF Edit, store, TypeInv, TypeOK
<1>4. edits' \in 0 .. MaxEdits
  BY ImportAssumption DEF Edit, TypeInv, TypeOK
<1> QED
  BY <1>3, <1>4, ContactsKept, StoreKept, TypeInvParts, TypeInvNext DEF Edit

LEMMA DeleteType == ASSUME TypeInv, Delete PROVE TypeInv'
<1>1. ContactsOK'
  BY ContactWritten DEF Delete, Gone, Contact
<1>2. crowded' \subseteq DOMAIN batches
  BY MeetType DEF Delete
<1>3. CommitsOK'
  BY <1>2 DEF Delete, store, CommitsOK, TypeInv, TypeOK, BatchesOK, HandsOK, HandOK, FileOf, Completed
<1>4. edits' \in 0 .. MaxEdits
  BY ImportAssumption DEF Delete, TypeInv, TypeOK
<1> QED
  BY <1>1, <1>3, <1>4, StoreKept, TypeInvParts, TypeInvNext DEF Delete

LEMMA CrashType == ASSUME TypeInv, Crash PROVE TypeInv'
<1>1. StoreOK'
  BY FewerSessions DEF Crash
<1>2. \A h \in Handler : handler'[h].pc = "idle" /\ handler'[h].batch = 0
  BY DEF Crash, Idle
<1>3. handler' \in [Handler -> Hand] /\ HandsOK'
  BY <1>2, IdleHand DEF Crash, HandsOK, HandOK
<1>4. \A h \in Handler : handler[h].batch = 0 \/ handler[h].batch \in DOMAIN batches
  BY DEF TypeInv, TypeOK, HandsOK, HandOK, Hand
<1>5. CommitsOK'
  BY <1>3, <1>4 DEF Crash, CommitsOK, TypeInv, TypeOK, BatchesOK
<1> QED
  BY <1>1, <1>5, ContactsKept, TypeInvParts, TypeInvNext DEF Crash

LEMMA ExpireType == ASSUME TypeInv, Expire PROVE TypeInv'
<1>1. StoreOK'
  BY FewerSessions DEF Expire
<1>2. CommitsOK'
  BY DEF Expire, CommitsOK, TypeInv, TypeOK, BatchesOK, HandsOK, HandOK, FileOf, Completed
<1> QED
  BY <1>1, <1>2, ContactsKept, TypeInvParts, TypeInvNext DEF Expire

LEMMA TypeInvStep == TypeInv /\ [Next]_vars => TypeInv'
<1> SUFFICES ASSUME TypeInv, [Next]_vars PROVE TypeInv'
  OBVIOUS
<1>1. CASE Analyze \/ Expire \/ Delete \/ Crash
  BY <1>1, AnalyzeType, ExpireType, DeleteType, CrashType
<1>2. ASSUME NEW h \in Handler,
             Commit(h) \/ Load(h) \/ Insert(h) \/ Complete(h) \/ Edit(h) \/ Write(h)
      PROVE  TypeInv'
  BY <1>2, CommitType, LoadType, InsertType, CompleteType, EditType, WriteTypeInv
<1>3. ASSUME NEW h \in Handler, Forget(h) PROVE TypeInv'
  BY <1>3, DoneType, ContactsKept DEF Forget, TypeInv, TypeOK
<1>4. ASSUME NEW h \in Handler, Reject(h) PROVE TypeInv'
  BY <1>4, FailType DEF Reject
<1>5. ASSUME NEW h \in Handler, NEW k \in handler[h].todo,
             Keep(h, k) \/ Duplicate(h, k) \/ Update(h, k) \/ UpdateRefused(h, k)
      PROVE  TypeInv'
  BY <1>5, KeepType, DuplicateType, UpdateType, FailType DEF UpdateRefused
<1>6. CASE UNCHANGED vars
  <2>1. CommitsOK'
    BY <1>6 DEF vars, CommitsOK, TypeInv, TypeOK, BatchesOK, HandsOK, HandOK, FileOf, Completed
  <2> QED
    BY <1>6, <2>1, ContactsKept, StoreKept, TypeInvParts, TypeInvNext DEF vars, records, store
<1> QED
  BY <1>1, <1>2, <1>3, <1>4, <1>5, <1>6 DEF Next

(***************************************************************************)
(* The contacts, the sessions, the batches and the requests at work on     *)
(* them stay well formed; no two contacts of a workspace share a channel   *)
(* (contact.model.ts:56), and there are at most Quota sessions             *)
(* (import-session.store.ts:107).                                          *)
(***************************************************************************)
THEOREM TypeCorrect == Spec => []TypeOK
<1>1. TypeInv => TypeOK
  BY DEF TypeInv
<1> QED
  BY InitTypeInv, TypeInvStep, <1>1, PTL DEF Spec

-----------------------------------------------------------------------------
(***************************************************************************)
(* A batch is worked on by one handler until it is completed or the commit *)
(* fails.                                                                  *)
(***************************************************************************)
WorkInv ==
  /\ \A g, h \in Handler :
       g # h /\ handler[g].batch = handler[h].batch => handler[g].batch = 0
  /\ \A h \in Handler :
       handler[h].pc \in {"load", "rows"} => handler[h].batch \notin Completed
  /\ ProcessingIsOwned
  /\ \A b \in Completed \ Worked : batches[b].session \notin sessions

LEMMA InitWorkInv == Init => WorkInv
BY DEF Init, Idle, WorkInv, ProcessingIsOwned, Completed, Worked

\* A handler that keeps its place keeps its batch.
LEMMA WorkKept ==
  ASSUME TypeInv, WorkInv, UNCHANGED batches, sessions' \subseteq sessions,
         cut \subseteq cut',
         \A g \in Handler : handler'[g].batch = handler[g].batch,
         \A g \in Handler : handler'[g].pc \in {"load", "rows"}
                              => handler[g].pc \in {"load", "rows"}
  PROVE  WorkInv'
<1>1. Completed' = Completed /\ Worked' = Worked
  BY DEF Completed, Worked
<1>2. ProcessingIsOwned'
  BY <1>1 DEF WorkInv, ProcessingIsOwned
<1> QED
  BY <1>1, <1>2 DEF WorkInv

\* A handler that fails leaves its batch cut.
LEMMA FailWork ==
  ASSUME TypeInv, WorkInv, NEW h \in Handler, handler[h].pc # "forget", Fail(h),
         UNCHANGED <<store, batches>>
  PROVE  WorkInv'
<1> DEFINE b == handler[h].batch
<1>1. /\ handler'[h] = Idle /\ Idle.batch = 0 /\ Idle.pc = "idle"
      /\ \A g \in Handler \ {h} : handler'[g] = handler[g]
  BY DEF Fail, GoOn, TypeInv, TypeOK, Idle
<1>2. Completed' = Completed
  BY DEF Completed
<1>3. Worked \ {b} \subseteq Worked' /\ Worked' \subseteq Worked
  BY <1>1 DEF Worked
<1>4. b = 0 \/ (b \notin Completed /\ b \in cut')
  BY DEF TypeInv, TypeOK, HandsOK, HandOK, Hand, WorkInv, Fail
<1>5. ProcessingIsOwned'
  BY <1>2, <1>3, <1>4 DEF WorkInv, ProcessingIsOwned, Worked, Fail
<1>6. Completed \ Worked' \subseteq Completed \ Worked
  <2>1. 0 \notin Worked
    BY DEF Worked
  <2> QED
    BY <1>3, <1>4, <2>1
<1>7. \A c \in Completed' \ Worked' : batches'[c].session \notin sessions'
  BY <1>2, <1>6 DEF WorkInv, store
<1> QED
  BY <1>1, <1>2, <1>5, <1>7 DEF WorkInv

LEMMA CommitWork == ASSUME TypeInv, WorkInv, NEW h \in Handler, Commit(h) PROVE WorkInv'
<1> DEFINE b == Len(batches) + 1
<1>1. /\ DOMAIN batches' = DOMAIN batches \cup {b} /\ b \notin DOMAIN batches /\ b # 0
      /\ \A c \in DOMAIN batches : batches'[c] = batches[c]
      /\ batches'[b].status = "processing" /\ 0 \notin DOMAIN batches
  BY DEF Commit, TypeInv, TypeOK
<1>2. /\ handler'[h].batch = b /\ handler'[h].pc = "load"
      /\ \A g \in Handler \ {h} : handler'[g] = handler[g]
  BY DEF Commit, TypeInv, TypeOK, Idle
<1>3. handler[h].batch = 0
  BY DEF Commit, At, TypeInv, HandsOK, HandOK
<1>4. \A g \in Handler : handler[g].batch = 0 \/ handler[g].batch \in DOMAIN batches
  BY DEF TypeInv, TypeOK, HandsOK, HandOK, Hand
<1>5. Completed' = Completed /\ Completed \subseteq DOMAIN batches
  BY <1>1 DEF Completed
<1>6. Worked' = Worked \cup {b}
  BY <1>1, <1>2, <1>3 DEF Worked
<1>7. ProcessingIsOwned'
  BY <1>1, <1>5, <1>6 DEF WorkInv, ProcessingIsOwned, Commit
<1>8. \A c \in Completed' \ Worked' : batches'[c].session \notin sessions'
  BY <1>1, <1>5, <1>6 DEF WorkInv, Commit, store
<1> QED
  BY <1>1, <1>2, <1>4, <1>5, <1>7, <1>8 DEF WorkInv

LEMMA CompleteWork == ASSUME TypeInv, WorkInv, NEW h \in Handler, Complete(h) PROVE WorkInv'
<1> DEFINE b == handler[h].batch
<1>1. /\ handler'[h].batch = b /\ handler'[h].pc = "forget"
      /\ \A g \in Handler \ {h} : handler'[g] = handler[g]
  BY CompleteBatch DEF Idle
<1>2. Worked' = Worked
  BY <1>1 DEF Worked
<1>3. Completed' = Completed \cup {b} /\ b \in DOMAIN batches /\ DOMAIN batches' = DOMAIN batches
  BY CompleteBatch
<1>4. b # 0 /\ b \in Worked
  BY <1>3 DEF TypeInv, TypeOK, Worked
<1>5. ProcessingIsOwned'
  BY <1>2, <1>3 DEF WorkInv, ProcessingIsOwned, Complete
<1>6. \A c \in Completed' \ Worked' : batches'[c].session \notin sessions'
  <2> SUFFICES ASSUME NEW c \in Completed' \ Worked' PROVE batches'[c].session \notin sessions'
    OBVIOUS
  <2>1. c \in Completed \ Worked /\ c \in DOMAIN batches
    BY <1>2, <1>3, <1>4 DEF Completed
  <2>2. batches'[c].session = batches[c].session
    BY <2>1, CompleteBatch
  <2> QED
    BY <2>1, <2>2 DEF WorkInv, Complete, store
<1>7. \A g \in Handler \ {h} : handler[g].batch # b
  BY <1>4 DEF WorkInv
<1> QED
  BY <1>1, <1>3, <1>5, <1>6, <1>7 DEF WorkInv

LEMMA ForgetWork == ASSUME TypeInv, WorkInv, NEW h \in Handler, Forget(h) PROVE WorkInv'
<1> DEFINE b == handler[h].batch
<1>1. /\ handler'[h].batch = 0 /\ handler'[h].pc = "idle"
      /\ \A g \in Handler \ {h} : handler'[g] = handler[g]
  BY DEF Forget, GoOn, TypeInv, TypeOK, Idle
<1>2. b \in Completed
  BY DEF Forget, At, TypeInv, HandsOK, HandOK
<1>3. Completed' = Completed
  BY DEF Forget, Completed
<1>4. Worked \ {b} \subseteq Worked' /\ Worked' \subseteq Worked
  BY <1>1 DEF Worked
<1>5. ProcessingIsOwned'
  BY <1>2, <1>3, <1>4 DEF WorkInv, ProcessingIsOwned, Forget
<1>6. \A c \in Completed' \ Worked' : batches'[c].session \notin sessions'
  BY <1>3, <1>4 DEF WorkInv, Forget
<1> QED
  BY <1>1, <1>3, <1>5, <1>6 DEF WorkInv

LEMMA AnalyzeWork == ASSUME TypeInv, WorkInv, Analyze PROVE WorkInv'
<1>1. sessions' \subseteq sessions \cup {Len(uploads) + 1}
  BY DEF Analyze
<1>2. Completed' = Completed /\ Worked' = Worked /\ Completed \subseteq DOMAIN batches
  BY DEF Analyze, Completed, Worked
<1>3. \A b \in DOMAIN batches : batches[b].session # Len(uploads) + 1
  BY DEF TypeInv, TypeOK, BatchesOK
<1>4. \A b \in Completed' \ Worked' : batches'[b].session \notin sessions'
  BY <1>1, <1>2, <1>3 DEF WorkInv, Analyze
<1> QED
  BY <1>2, <1>4 DEF WorkInv, ProcessingIsOwned, Analyze

LEMMA CrashWork == ASSUME TypeInv, WorkInv, Crash PROVE WorkInv'
<1>1. \A h \in Handler : handler'[h].batch = 0 /\ handler'[h].pc = "idle"
  BY DEF Crash, Idle
<1>2. Completed' = Completed
  BY DEF Crash, Completed
<1>3. Worked \subseteq cut' /\ cut \subseteq cut'
  BY DEF Worked, Crash
<1>4. ProcessingIsOwned'
  BY <1>2, <1>3 DEF WorkInv, ProcessingIsOwned, Crash
<1> QED
  BY <1>1, <1>4 DEF WorkInv, Crash

\* A user's own request begins or ends.
LEMMA EditWork ==
  ASSUME TypeInv, WorkInv, NEW h \in Handler, Edit(h) \/ Write(h) PROVE WorkInv'
<1>1. handler[h].batch = 0
  BY DEF Edit, Write, At, TypeInv, HandsOK, HandOK
<1>2. handler'[h].batch = 0 /\ handler'[h].pc \notin {"load", "rows"}
  <2>1. CASE Edit(h)
    BY <2>1 DEF Edit, TypeInv, TypeOK, Idle
  <2>2. CASE Write(h)
    BY <2>2 DEF Write, GoOn, TypeInv, TypeOK, Idle
  <2> QED
    BY <2>1, <2>2
<1>3. \A g \in Handler \ {h} : handler'[g] = handler[g]
  BY DEF Edit, Write, GoOn, TypeInv, TypeOK
<1> QED
  BY <1>1, <1>2, <1>3, WorkKept DEF Edit, Write, store

LEMMA RowsWork ==
  ASSUME TypeInv, WorkInv, NEW h \in Handler, handler[h].pc \in {"load", "rows"},
         NEW hand, hand.batch = handler[h].batch, GoOn(h, hand), UNCHANGED <<store, batches, cut>>
  PROVE  WorkInv'
<1>1. handler'[h] = hand /\ \A g \in Handler \ {h} : handler'[g] = handler[g]
  BY DEF GoOn, TypeInv, TypeOK
<1> QED
  BY <1>1, WorkKept DEF store

LEMMA WorkInvStep == TypeInv /\ WorkInv /\ [Next]_vars => WorkInv'
<1> SUFFICES ASSUME TypeInv, WorkInv, [Next]_vars PROVE WorkInv'
  OBVIOUS
<1>1. CASE Analyze \/ Crash
  BY <1>1, AnalyzeWork, CrashWork
<1>2. CASE Expire \/ Delete \/ UNCHANGED vars
  BY <1>2, WorkKept DEF Expire, Delete, vars, store
<1>3. ASSUME NEW h \in Handler, Commit(h) \/ Complete(h) \/ Forget(h) \/ Edit(h) \/ Write(h)
      PROVE  WorkInv'
  BY <1>3, CommitWork, CompleteWork, ForgetWork, EditWork
<1>4. ASSUME NEW h \in Handler, Reject(h) PROVE WorkInv'
  BY <1>4, FailWork DEF Reject
<1>5. ASSUME NEW h \in Handler, Load(h) PROVE WorkInv'
  <2> PICK index : GoOn(h, [handler[h] EXCEPT !.pc = "rows", !.index = index])
    BY <1>5 DEF Load
  <2>1. [handler[h] EXCEPT !.pc = "rows", !.index = index].batch = handler[h].batch
    BY DEF TypeInv, TypeOK, Hand
  <2> QED
    BY <1>5, <2>1, RowsWork DEF Load, At
<1>6. ASSUME NEW h \in Handler, Insert(h) PROVE WorkInv'
  <2> PICK k, n : GoOn(h, [handler[h] EXCEPT !.keep = @ \ {k}, !.counts = n])
    BY <1>6 DEF Insert
  <2>1. [handler[h] EXCEPT !.keep = @ \ {k}, !.counts = n].batch = handler[h].batch
    BY DEF TypeInv, TypeOK, Hand
  <2> QED
    BY <1>6, <2>1, RowsWork DEF Insert, At
<1>7. ASSUME NEW h \in Handler, NEW k \in handler[h].todo, Keep(h, k) PROVE WorkInv'
  <2>1. [handler[h] EXCEPT !.todo = @ \ {k}, !.keep = @ \cup {k},
                           !.seen = @ \cup Channels(RowOf(h, k))].batch = handler[h].batch
    BY DEF TypeInv, TypeOK, Hand
  <2> QED
    BY <1>7, <2>1, RowsWork DEF Keep, AtRow, At
<1>8. ASSUME NEW h \in Handler, NEW k \in handler[h].todo, Duplicate(h, k) \/ Update(h, k)
      PROVE  WorkInv'
  <2>1. /\ [handler[h] EXCEPT !.todo = @ \ {k}, !.counts.duplicate = @ + 1].batch = handler[h].batch
        /\ [handler[h] EXCEPT !.todo = @ \ {k}, !.counts.updated = @ + 1].batch = handler[h].batch
    BY DEF TypeInv, TypeOK, Hand
  <2> QED
    BY <1>8, <2>1, RowsWork DEF Duplicate, Update, Updates, AtRow, At
<1>9. ASSUME NEW h \in Handler, NEW k \in handler[h].todo, UpdateRefused(h, k) PROVE WorkInv'
  BY <1>9, FailWork DEF UpdateRefused, Updates, AtRow, At
<1> QED
  BY <1>1, <1>2, <1>3, <1>4, <1>5, <1>6, <1>7, <1>8, <1>9 DEF Next

(***************************************************************************)
(* A batch that is still processing has a request at work on it, unless    *)
(* the commit failed (import.service.ts:141).                              *)
(***************************************************************************)
THEOREM ProcessingOwned == Spec => []ProcessingIsOwned
<1>1. WorkInv => ProcessingIsOwned
  BY DEF WorkInv
<1> QED
  BY InitTypeInv, TypeInvStep, InitWorkInv, WorkInvStep, <1>1, PTL DEF Spec

(***************************************************************************)
(* A commit that has been answered cannot be replayed: no batch is begun   *)
(* of the session of one that is done (import.service.spec.ts:224).        *)
(***************************************************************************)
THEOREM AnsweredOnce == Spec => CommitNotReplayed
<1> DEFINE Replay == \A b \in DOMAIN batches' \ DOMAIN batches, done \in Completed \ Worked :
                        batches'[b].session # batches[done].session
<1>1. ASSUME TypeInv, WorkInv, [Next]_vars PROVE Replay
  <2> SUFFICES ASSUME NEW b \in DOMAIN batches' \ DOMAIN batches,
                      NEW done \in Completed \ Worked
               PROVE  batches'[b].session # batches[done].session
    OBVIOUS
  <2>1. CASE \E h \in Handler : Commit(h)
    <3>1. batches'[b].session \in sessions
      BY <1>1, <2>1 DEF Commit, TypeInv, TypeOK
    <3> QED
      BY <1>1, <3>1 DEF WorkInv
  <2>2. CASE \E h \in Handler : Complete(h)
    BY <1>1, <2>2, CompleteBatch
  <2>3. CASE UNCHANGED batches
    BY <2>3
  <2> QED
    BY <1>1, <2>1, <2>2, <2>3 DEF Next, vars, Analyze, Expire, Delete, Crash, Load, Insert,
       Forget, Keep, Duplicate, Update, UpdateRefused, Edit, Write, Reject
<1> QED
  BY InitTypeInv, TypeInvStep, InitWorkInv, WorkInvStep, <1>1, PTL DEF Spec, CommitNotReplayed

(***************************************************************************)
(* An import that is not told to update leaves the contacts there are as   *)
(* they are (import.service.ts:228).                                       *)
(***************************************************************************)
THEOREM NothingOverwritten == Spec => OnlyUpdatesOverwrite
<1> DEFINE Kept == \A h \in Handler :
                     /\ At(h, "rows") /\ StrategyOf(h) # "update"
                     /\ handler'[h] # handler[h]
                     => \A i \in Known : contact'[i] = contact[i]
<1>1. ASSUME TypeInv, [Next]_vars PROVE Kept
  <2> SUFFICES ASSUME NEW h \in Handler, At(h, "rows"), StrategyOf(h) # "update",
                      handler'[h] # handler[h], NEW i \in Known
               PROVE  contact'[i] = contact[i]
    OBVIOUS
  <2>1. CASE UNCHANGED contact
    BY <2>1
  <2>2. ASSUME NEW g \in Handler, Insert(g) PROVE contact'[i] = contact[i]
    <3>1. i \in Id /\ i # created + 1
      BY <1>1 DEF TypeInv, TypeOK, IdsOK, Known
    <3>2. contact' = contact \/ \E c : contact' = [contact EXCEPT ![created + 1] = c]
      BY <2>2 DEF Insert, records
    <3> QED
      BY <1>1, <3>1, <3>2 DEF TypeInv, TypeOK
  <2>3. ASSUME NEW g \in Handler, NEW k \in handler[g].todo, Update(g, k) PROVE FALSE
    <3>1. g = h
      BY <1>1, <2>3 DEF Update, GoOn, TypeInv, TypeOK
    <3> QED
      BY <2>3, <3>1 DEF Update, Updates
  <2>4. ASSUME NEW g \in Handler, Write(g) PROVE FALSE
    <3>1. g = h
      BY <1>1, <2>4 DEF Write, GoOn, TypeInv, TypeOK
    <3> QED
      BY <2>4, <3>1 DEF Write, At
  <2>5. ~Delete
    BY DEF Delete
  <2> QED
    BY <1>1, <2>1, <2>2, <2>3, <2>4, <2>5 DEF Next, vars, Analyze, Expire, Crash, Commit, Load,
       Complete, Forget, Keep, Duplicate, UpdateRefused, Edit, Reject, records
<1> QED
  BY InitTypeInv, TypeInvStep, <1>1, PTL DEF Spec, OnlyUpdatesOverwrite

-----------------------------------------------------------------------------
\* What a batch is of does not change.
LEMMA BatchStays ==
  ASSUME TypeInv, [Next]_vars, NEW b \in DOMAIN batches
  PROVE  /\ b \in DOMAIN batches'
         /\ batches'[b].session = batches[b].session
         /\ batches'[b].strategy = batches[b].strategy
         /\ FileOf(b)' = FileOf(b)
<1>1. batches[b].session \in DOMAIN uploads
  BY DEF TypeInv, BatchesOK
<1>2. CASE Analyze
  BY <1>1, <1>2 DEF Analyze, FileOf, TypeInv, TypeOK
<1>3. CASE \E h \in Handler : Commit(h)
  BY <1>3 DEF Commit, store, FileOf, TypeInv, TypeOK
<1>4. CASE \E h \in Handler : Complete(h)
  BY <1>4, CompleteBatch DEF FileOf
<1>5. CASE UNCHANGED <<uploads, batches>>
  BY <1>5 DEF FileOf
<1> QED
  BY <1>2, <1>3, <1>4, <1>5 DEF Next, vars, store, Expire, Delete, Crash, Load, Insert,
     Forget, Keep, Duplicate, Update, UpdateRefused, Edit, Write, Reject

(***************************************************************************)
(* The rows of a commit under way are counted, kept for the insert or      *)
(* still to be looked at, each once.                                       *)
(***************************************************************************)
Total(n) == n.created + n.updated + n.duplicate + n.failed

CountOK(h) ==
  handler[h].pc \in {"load", "rows"} =>
    /\ handler[h].todo \cap handler[h].keep = {}
    /\ Total(handler[h].counts) + Cardinality(handler[h].todo) + Cardinality(handler[h].keep)
         = Cardinality(Rows(FileOf(handler[h].batch)))

BatchCounted(b) == Total(batches[b].counts) = Cardinality(Rows(FileOf(b)))

CountInv ==
  /\ \A h \in Handler : CountOK(h)
  /\ \A b \in Completed : BatchCounted(b)

LEMMA InitCountInv == Init => CountInv
BY DEF Init, Idle, CountInv, CountOK, Completed

\* Handlers that stay, or end, stay right; so do the batches.
LEMMA CountKept ==
  ASSUME TypeInv, CountInv, [Next]_vars, NEW h \in Handler, handler'[h] = handler[h]
  PROVE  CountOK(h)'
<1>1. CASE handler[h].pc \in {"load", "rows"}
  <2>1. handler[h].batch \in DOMAIN batches
    BY <1>1 DEF TypeInv, HandsOK, HandOK
  <2>2. FileOf(handler[h].batch)' = FileOf(handler[h].batch)
    <3>1. \A b \in DOMAIN batches : FileOf(b)' = FileOf(b)
      BY BatchStays
    <3>2. FileOf(handler[h].batch)' = uploads'[batches'[handler[h].batch].session]
      BY DEF FileOf
    <3> QED
      BY <2>1, <3>1, <3>2 DEF FileOf
  <2> QED
    BY <1>1, <2>2 DEF CountInv, CountOK, Rows
<1> QED
  BY <1>1 DEF CountOK

LEMMA BatchKept ==
  ASSUME TypeInv, CountInv, [Next]_vars, NEW b \in Completed, batches'[b] = batches[b]
  PROVE  BatchCounted(b)'
<1>1. b \in DOMAIN batches /\ FileOf(b)' = FileOf(b)
  BY BatchStays DEF Completed
<1> QED
  BY <1>1 DEF CountInv, BatchCounted, Rows

LEMMA BatchesKept ==
  ASSUME TypeInv, CountInv, [Next]_vars, UNCHANGED batches
  PROVE  \A b \in Completed' : BatchCounted(b)'
<1>1. Completed' = Completed
  BY DEF Completed
<1> QED
  BY <1>1, BatchKept

\* One row is counted, or kept.
LEMMA RowDone ==
  ASSUME TypeInv, CountInv, [Next]_vars, UNCHANGED batches, NEW h \in Handler,
         handler[h].pc \in {"load", "rows"}, NEW hand \in Hand, GoOn(h, hand),
         hand.batch = handler[h].batch,
         NEW k \in handler[h].todo \cup handler[h].keep,
         \/ /\ Total(hand.counts) = Total(handler[h].counts) + 1
            /\ \/ /\ k \in handler[h].todo /\ hand.todo = handler[h].todo \ {k}
                  /\ hand.keep = handler[h].keep
               \/ /\ k \in handler[h].keep /\ hand.keep = handler[h].keep \ {k}
                  /\ hand.todo = handler[h].todo
         \/ /\ hand.counts = handler[h].counts
            /\ k \in handler[h].todo /\ hand.todo = handler[h].todo \ {k}
            /\ hand.keep = handler[h].keep \cup {k}
  PROVE  CountInv'
<1> DEFINE b == handler[h].batch
           todo == handler[h].todo
           keep == handler[h].keep
<1>1. b \in DOMAIN batches /\ FileOf(b) \in File
  BY RowType
<1>2. todo \subseteq DOMAIN FileOf(b) /\ keep \subseteq DOMAIN FileOf(b)
  BY DEF TypeInv, HandsOK, HandOK, Drafts
<1>3. /\ IsFiniteSet(todo) /\ Cardinality(todo) \in Nat
      /\ IsFiniteSet(keep) /\ Cardinality(keep) \in Nat
  BY <1>1, <1>2, FileType
<1>4. Total(handler[h].counts) \in Nat /\ Total(hand.counts) \in Nat
  <2>1. handler[h] \in Hand
    BY DEF TypeInv, TypeOK
  <2>2. handler[h].counts \in Counts /\ hand.counts \in Counts
    BY <2>1 DEF Hand
  <2> QED
    BY <2>2 DEF Counts, Total
<1>5. /\ todo \cap keep = {}
      /\ Total(handler[h].counts) + Cardinality(todo) + Cardinality(keep)
           = Cardinality(Rows(FileOf(b)))
  BY DEF CountInv, CountOK
<1>6. /\ k \in todo => Cardinality(todo \ {k}) = Cardinality(todo) - 1
      /\ k \in keep => Cardinality(keep \ {k}) = Cardinality(keep) - 1
      /\ k \notin keep => Cardinality(keep \cup {k}) = Cardinality(keep) + 1
  BY <1>3, FS_RemoveElement, FS_AddElement
<1>7. /\ hand.todo \cap hand.keep = {}
      /\ Total(hand.counts) + Cardinality(hand.todo) + Cardinality(hand.keep)
           = Cardinality(Rows(FileOf(b)))
  <2>1. CASE /\ Total(hand.counts) = Total(handler[h].counts) + 1
             /\ k \in todo /\ hand.todo = todo \ {k} /\ hand.keep = keep
    BY <1>3, <1>4, <1>5, <1>6, <2>1
  <2>2. CASE /\ Total(hand.counts) = Total(handler[h].counts) + 1
             /\ k \in keep /\ hand.keep = keep \ {k} /\ hand.todo = todo
    BY <1>3, <1>4, <1>5, <1>6, <2>2
  <2>3. CASE /\ hand.counts = handler[h].counts
             /\ k \in todo /\ hand.todo = todo \ {k} /\ hand.keep = keep \cup {k}
    <3>1. k \notin keep
      BY <1>5, <2>3
    <3>2. hand.todo \cap hand.keep = {}
      BY <1>5, <2>3
    <3> QED
      BY <1>3, <1>4, <1>5, <1>6, <2>3, <3>1, <3>2
  <2> QED
    BY <2>1, <2>2, <2>3
<1>8. handler'[h] = hand /\ \A g \in Handler \ {h} : handler'[g] = handler[g]
  BY DEF GoOn, TypeInv, TypeOK
<1>9. uploads'[batches'[b].session] = FileOf(b)
  <2>1. \A c \in DOMAIN batches : FileOf(c)' = FileOf(c)
    BY BatchStays
  <2> QED
    BY <1>1, <2>1 DEF FileOf
<1>10. CountOK(h)'
  <2>1. FileOf(handler[h].batch)' = FileOf(b)
    BY <1>8, <1>9 DEF FileOf
  <2>2. Rows(FileOf(handler[h].batch))' = Rows(FileOf(b))
    BY <2>1 DEF Rows
  <2> QED
    BY <1>7, <1>8, <2>2 DEF CountOK
<1> QED
  BY <1>8, <1>10, CountKept, BatchesKept DEF CountInv

LEMMA CommitCount ==
  ASSUME TypeInv, CountInv, [Next]_vars, NEW h \in Handler, Commit(h) PROVE CountInv'
<1> PICK s \in sessions, strategy \in Strategy :
      LET b == Len(batches) + 1
          counts == [Idle.counts EXCEPT !.failed = Cardinality(Refused(uploads[s]))]
      IN  /\ batches' = Append(batches, [session |-> s, strategy |-> strategy,
                                         status |-> "processing", counts |-> Idle.counts])
          /\ handler' = [handler EXCEPT ![h] =
                           [Idle EXCEPT !.pc = "load", !.batch = b,
                                        !.todo = Drafts(uploads[s]), !.counts = counts]]
  BY DEF Commit
<1> DEFINE f == uploads[s]
<1>1. f \in File /\ uploads' = uploads
  BY DEF Commit, store, TypeInv, TypeOK
<1>2. /\ IsFiniteSet(Drafts(f)) /\ Cardinality(Drafts(f)) \in Nat
      /\ IsFiniteSet(Refused(f)) /\ Cardinality(Refused(f)) \in Nat
  BY <1>1, FileType DEF Drafts, Refused
<1>3. Rows(f) = Drafts(f) \cup Refused(f) /\ Drafts(f) \cap Refused(f) = {}
  <2>1. \A k \in DOMAIN f : f[k].kind \in {"blank", "bad", "good", "long"}
    <3>1. f \in Seq(Row)
      BY <1>1, FileType
    <3>2. \A k \in DOMAIN f : f[k] \in Row
      BY <3>1
    <3> QED
      BY <3>2 DEF Row
  <2> QED
    BY <2>1 DEF Rows, Drafts, Refused
<1>4. Cardinality(Rows(f)) = Cardinality(Drafts(f)) + Cardinality(Refused(f))
  <2>1. Cardinality(Drafts(f) \cup Refused(f))
          = Cardinality(Drafts(f)) + Cardinality(Refused(f)) - Cardinality(Drafts(f) \cap Refused(f))
    BY <1>2, FS_Union
  <2>2. Cardinality(Drafts(f) \cap Refused(f)) = 0
    BY <1>3, FS_EmptySet
  <2>3. Cardinality(Rows(f)) = Cardinality(Drafts(f) \cup Refused(f))
    BY <1>3
  <2> QED
    BY <1>2, <2>1, <2>2, <2>3
<1>5. /\ handler'[h].batch = Len(batches) + 1 /\ handler'[h].todo = Drafts(f)
      /\ handler'[h].keep = {} /\ Total(handler'[h].counts) = Cardinality(Refused(f))
      /\ \A g \in Handler \ {h} : handler'[g] = handler[g]
  BY <1>2 DEF TypeInv, TypeOK, Idle, Total
<1>6. /\ batches'[Len(batches) + 1].session = s
      /\ batches'[Len(batches) + 1].status = "processing"
      /\ DOMAIN batches' = DOMAIN batches \cup {Len(batches) + 1}
      /\ \A b \in DOMAIN batches : batches'[b] = batches[b]
  BY DEF TypeInv, TypeOK
<1>7. CountOK(h)'
  <2>1. FileOf(handler[h].batch)' = f
    BY <1>1, <1>5, <1>6 DEF FileOf
  <2>2. Rows(FileOf(handler[h].batch))' = Rows(f)
    BY <2>1 DEF Rows
  <2>3. Cardinality(handler'[h].keep) = 0
    BY <1>5, FS_EmptySet
  <2> QED
    BY <1>2, <1>4, <1>5, <2>2, <2>3 DEF CountOK
<1>8. \A b \in Completed' : b \in Completed /\ batches'[b] = batches[b]
  BY <1>6 DEF Completed
<1> QED
  BY <1>5, <1>7, <1>8, CountKept, BatchKept DEF CountInv

LEMMA CompleteCount ==
  ASSUME TypeInv, CountInv, [Next]_vars, NEW h \in Handler, Complete(h) PROVE CountInv'
<1> DEFINE b == handler[h].batch
<1>1. /\ b \in DOMAIN batches /\ batches'[b].counts = handler[h].counts
      /\ \A c \in DOMAIN batches \ {b} : batches'[c] = batches[c]
      /\ Completed' = Completed \cup {b}
  <2>0. b \in DOMAIN batches
    BY CompleteBatch
  <2>1. b \in DOMAIN batches /\ batches[b] \in Batch
    BY <2>0 DEF TypeInv, TypeOK
  <2>2. [batches[b] EXCEPT !.status = "completed", !.counts = handler[h].counts].counts
          = handler[h].counts
    BY <2>1 DEF Batch
  <2> QED
    BY <2>1, <2>2, CompleteBatch
<1>2. Total(handler[h].counts) = Cardinality(Rows(FileOf(b)))
  <2>1. Cardinality(handler[h].todo) = 0 /\ Cardinality(handler[h].keep) = 0
    BY FS_EmptySet DEF Complete
  <2>2. Total(handler[h].counts) \in Nat
    <3>1. handler[h].counts \in Counts
      BY DEF TypeInv, TypeOK, Hand
    <3> QED
      BY <3>1 DEF Counts, Total
  <2>3. Total(handler[h].counts) + Cardinality(handler[h].todo) + Cardinality(handler[h].keep)
          = Cardinality(Rows(FileOf(b)))
    BY DEF CountInv, CountOK, Complete, At
  <2> QED
    BY <2>1, <2>2, <2>3
<1>3. uploads'[batches'[b].session] = FileOf(b)
  BY CompleteBatch
<1>4. ASSUME NEW c \in Completed' PROVE BatchCounted(c)'
  <2>1. CASE c = b
    BY <1>1, <1>2, <1>3, <2>1 DEF BatchCounted, Rows, FileOf
  <2>2. CASE c # b
    BY <1>1, <2>2, BatchKept DEF Completed
  <2> QED
    BY <2>1, <2>2
<1>5. handler'[h].pc = "forget" /\ \A g \in Handler \ {h} : handler'[g] = handler[g]
  BY CompleteBatch DEF Idle
<1>6. CountOK(h)'
  BY <1>5 DEF CountOK
<1> QED
  BY <1>4, <1>5, <1>6, CountKept DEF CountInv

\* A handler that ends has nothing left to count.
LEMMA DoneCount ==
  ASSUME TypeInv, CountInv, [Next]_vars, UNCHANGED batches, NEW h \in Handler,
         handler'[h].pc \in {"idle", "write"},
         \A g \in Handler \ {h} : handler'[g] = handler[g]
  PROVE  CountInv'
<1>1. CountOK(h)'
  BY DEF CountOK
<1> QED
  BY <1>1, CountKept, BatchesKept DEF CountInv

\* A count grows by one.
LEMMA OneMore ==
  ASSUME TypeInv, NEW h \in Handler, NEW part \in {"created", "updated", "duplicate", "failed"}
  PROVE  Total([handler[h].counts EXCEPT ![part] = @ + 1]) = Total(handler[h].counts) + 1
<1>1. handler[h].counts \in Counts
  BY DEF TypeInv, TypeOK, Hand
<1> QED
  BY <1>1 DEF Counts, Total

LEMMA RowsCount ==
  ASSUME TypeInv, CountInv, [Next]_vars, NEW h \in Handler,
         \/ Insert(h)
         \/ \E k \in handler[h].todo : Keep(h, k) \/ Duplicate(h, k) \/ Update(h, k)
  PROVE  CountInv'
<1>1. handler[h] \in Hand
  BY DEF TypeInv, TypeOK
<1>2. CASE Insert(h)
  <2> PICK k \in handler[h].keep, part \in {"created", "failed"} :
        GoOn(h, [handler[h] EXCEPT !.keep = @ \ {k},
                                   !.counts = [handler[h].counts EXCEPT ![part] = @ + 1]])
    BY <1>2 DEF Insert
  <2> DEFINE n == [handler[h].counts EXCEPT ![part] = @ + 1]
             hand == [handler[h] EXCEPT !.keep = @ \ {k}, !.counts = n]
  <2>1. n \in Counts /\ Total(n) = Total(handler[h].counts) + 1 /\ k \in Nat
    BY <1>1, HandType, OneMore DEF Hand
  <2>2. hand \in Hand
    BY <2>1, HandType
  <2>3. /\ hand.batch = handler[h].batch /\ hand.counts = n
        /\ hand.keep = handler[h].keep \ {k} /\ hand.todo = handler[h].todo
    BY <1>1 DEF Hand
  <2>4. GoOn(h, hand) /\ UNCHANGED batches /\ handler[h].pc = "rows"
    BY <1>2 DEF Insert, At
  <2> HIDE DEF hand, n
  <2> QED
    BY <2>1, <2>2, <2>3, <2>4, RowDone
<1>3. ASSUME NEW k \in handler[h].todo, Keep(h, k) PROVE CountInv'
  <2> DEFINE hand == [handler[h] EXCEPT !.todo = @ \ {k}, !.keep = @ \cup {k},
                                        !.seen = @ \cup Channels(RowOf(h, k))]
  <2>1. k \in Nat /\ RowOf(h, k) \in Row
    BY <1>3, RowType DEF Keep, AtRow, At
  <2>2. hand \in Hand
    BY <2>1, HandType
  <2>3. /\ hand.batch = handler[h].batch /\ hand.counts = handler[h].counts
        /\ hand.keep = handler[h].keep \cup {k} /\ hand.todo = handler[h].todo \ {k}
    BY <1>1 DEF Hand
  <2>4. GoOn(h, hand) /\ UNCHANGED batches /\ handler[h].pc = "rows"
    BY <1>3 DEF Keep, AtRow, At
  <2> HIDE DEF hand
  <2> QED
    BY <2>2, <2>3, <2>4, RowDone
<1>4. ASSUME NEW k \in handler[h].todo, Duplicate(h, k) \/ Update(h, k) PROVE CountInv'
  <2> PICK part \in {"duplicate", "updated"} :
        GoOn(h, [handler[h] EXCEPT !.todo = @ \ {k},
                                   !.counts = [handler[h].counts EXCEPT ![part] = @ + 1]])
    BY <1>4 DEF Duplicate, Update
  <2> DEFINE n == [handler[h].counts EXCEPT ![part] = @ + 1]
             hand == [handler[h] EXCEPT !.todo = @ \ {k}, !.counts = n]
  <2>1. n \in Counts /\ Total(n) = Total(handler[h].counts) + 1 /\ k \in Nat
    BY <1>1, HandType, OneMore DEF Hand
  <2>2. hand \in Hand
    BY <2>1, HandType
  <2>3. /\ hand.batch = handler[h].batch /\ hand.counts = n
        /\ hand.todo = handler[h].todo \ {k} /\ hand.keep = handler[h].keep
    BY <1>1 DEF Hand
  <2>4. GoOn(h, hand) /\ UNCHANGED batches /\ handler[h].pc = "rows"
    BY <1>4 DEF Duplicate, Update, Updates, AtRow, At
  <2> HIDE DEF hand, n
  <2> QED
    BY <2>1, <2>2, <2>3, <2>4, RowDone
<1> QED
  BY <1>2, <1>3, <1>4

LEMMA LoadCount ==
  ASSUME TypeInv, CountInv, [Next]_vars, NEW h \in Handler, Load(h) PROVE CountInv'
<1> PICK index : GoOn(h, [handler[h] EXCEPT !.pc = "rows", !.index = index])
  BY DEF Load
<1>1. /\ handler[h].pc = "load" /\ handler'[h].batch = handler[h].batch
      /\ handler'[h].todo = handler[h].todo /\ handler'[h].keep = handler[h].keep
      /\ handler'[h].counts = handler[h].counts
      /\ \A g \in Handler \ {h} : handler'[g] = handler[g]
  BY DEF Load, At, GoOn, TypeInv, TypeOK, Hand
<1>2. FileOf(handler[h].batch)' = FileOf(handler[h].batch)
  BY <1>1 DEF FileOf, Load, store
<1>3. CountOK(h)'
  BY <1>1, <1>2 DEF CountInv, CountOK, Rows
<1> QED
  BY <1>1, <1>3, CountKept, BatchesKept DEF CountInv, Load

LEMMA CountInvStep == TypeInv /\ CountInv /\ [Next]_vars => CountInv'
<1> SUFFICES ASSUME TypeInv, CountInv, [Next]_vars PROVE CountInv'
  OBVIOUS
<1>1. CASE Analyze \/ Expire \/ Delete \/ UNCHANGED vars
  BY <1>1, CountKept, BatchesKept DEF CountInv, Analyze, Expire, Delete, vars
<1>2. CASE Crash
  <2>1. \A h \in Handler : CountOK(h)'
    BY <1>2 DEF Crash, CountOK, Idle
  <2> QED
    BY <1>2, <2>1, BatchesKept DEF CountInv, Crash
<1>3. ASSUME NEW h \in Handler, Commit(h) \/ Load(h) \/ Insert(h) \/ Complete(h)
      PROVE  CountInv'
  BY <1>3, CommitCount, LoadCount, RowsCount, CompleteCount
<1>4. ASSUME NEW h \in Handler, Forget(h) \/ Write(h) \/ Reject(h) PROVE CountInv'
  <2>1. GoOn(h, Idle) /\ UNCHANGED batches
    BY <1>4 DEF Forget, Write, Reject, Fail
  <2>2. handler'[h].pc = "idle" /\ \A g \in Handler \ {h} : handler'[g] = handler[g]
    BY <2>1 DEF GoOn, TypeInv, TypeOK, Idle
  <2> QED
    BY <2>1, <2>2, DoneCount
<1>5. ASSUME NEW h \in Handler, Edit(h) PROVE CountInv'
  <2>1. handler'[h].pc = "write" /\ \A g \in Handler \ {h} : handler'[g] = handler[g]
    BY <1>5 DEF Edit, TypeInv, TypeOK, Idle
  <2> QED
    BY <1>5, <2>1, DoneCount DEF Edit
<1>6. ASSUME NEW h \in Handler, NEW k \in handler[h].todo,
             Keep(h, k) \/ Duplicate(h, k) \/ Update(h, k)
      PROVE  CountInv'
  BY <1>6, RowsCount
<1>7. ASSUME NEW h \in Handler, NEW k \in handler[h].todo, UpdateRefused(h, k) PROVE CountInv'
  BY <1>7, DoneCount DEF UpdateRefused, Fail, GoOn, TypeInv, TypeOK, Idle
<1> QED
  BY <1>1, <1>2, <1>3, <1>4, <1>5, <1>6, <1>7 DEF Next

(***************************************************************************)
(* The audit record of an import accounts for each row of its file once    *)
(* (import.service.ts:268).                                                *)
(***************************************************************************)
THEOREM RowsAccounted == Spec => []RowsAddUp
<1>1. CountInv => RowsAddUp
  BY DEF CountInv, BatchCounted, Total, RowsAddUp
<1> QED
  BY InitTypeInv, TypeInvStep, InitCountInv, CountInvStep, <1>1, PTL DEF Spec

-----------------------------------------------------------------------------
(***************************************************************************)
(* A commit that has met no other request is alone, so what it found of    *)
(* the contacts when it began stays true until it inserts.                 *)
(***************************************************************************)
AloneInv ==
  \A h \in Handler :
    handler[h].pc \in {"load", "rows"} /\ handler[h].batch \notin crowded
    => \A g \in Handler \ {h} : handler[g].pc = "idle"

LEMMA InitAloneInv == Init => AloneInv
BY DEF Init, Idle, AloneInv

\* Each step that is not a request's first.
LEMMA NotBegun ==
  ASSUME TypeInv, AloneInv, crowded \subseteq crowded',
         \A g \in Handler : handler[g].pc = "idle" => handler'[g].pc = "idle",
         \A g \in Handler : handler'[g].pc \in {"load", "rows"}
                            => /\ handler[g].pc \in {"load", "rows"}
                               /\ handler'[g].batch = handler[g].batch
  PROVE  AloneInv'
BY DEF AloneInv

\* A request that begins crowds the commits under way.
LEMMA Crowds ==
  ASSUME TypeInv, NEW g \in Handler, handler[g].pc \in {"load", "rows"},
         \/ Delete
         \/ \E h \in Handler : Commit(h) \/ Edit(h)
  PROVE  handler[g].batch \in crowded'
<1>1. g \in Busy
  BY DEF Busy
<1>2. handler[g].batch # 0
  BY DEF TypeInv, TypeOK, HandsOK, HandOK
<1>3. {handler[x].batch : x \in Busy} \ {0} \subseteq crowded'
  BY DEF Delete, Commit, Edit, Meet
<1> QED
  BY <1>1, <1>2, <1>3

LEMMA BeginAlone ==
  ASSUME TypeInv, AloneInv, NEW h \in Handler, Commit(h) \/ Edit(h) PROVE AloneInv'
<1>1. \A g \in Handler \ {h} : handler'[g] = handler[g]
  BY DEF Commit, Edit, TypeInv, TypeOK
<1>2. \A g \in Handler \ {h} : handler'[g].pc \in {"load", "rows"} => handler'[g].batch \in crowded'
  BY <1>1, Crowds
<1>3. ASSUME handler'[h].pc \in {"load", "rows"}, handler'[h].batch \notin crowded'
      PROVE  \A g \in Handler \ {h} : handler'[g].pc = "idle"
  <2>1. Commit(h)
    <3>1. ASSUME Edit(h) PROVE handler'[h].pc = "write"
      BY <3>1 DEF Edit, TypeInv, TypeOK, Idle
    <3> QED
      BY <1>3, <3>1
  <2>2. handler'[h].batch = Len(batches) + 1
    BY <2>1 DEF Commit, TypeInv, TypeOK, Idle
  <2>3. Busy = {}
    BY <1>3, <2>1, <2>2 DEF Commit
  <2> QED
    BY <1>1, <2>3 DEF Busy
<1> QED
  BY <1>2, <1>3 DEF AloneInv

\* Where a handler goes next.
LEMMA GoesOn ==
  ASSUME TypeInv, NEW h \in Handler,
         \/ Load(h) \/ Insert(h) \/ Complete(h) \/ Forget(h) \/ Write(h) \/ Reject(h)
         \/ \E k \in handler[h].todo :
              Keep(h, k) \/ Duplicate(h, k) \/ Update(h, k) \/ UpdateRefused(h, k)
  PROVE  /\ handler[h].pc # "idle"
         /\ \A g \in Handler \ {h} : handler'[g] = handler[g]
         /\ handler'[h].pc \in {"load", "rows"}
              => /\ handler[h].pc \in {"load", "rows"}
                 /\ handler'[h].batch = handler[h].batch
         /\ UNCHANGED crowded
<1>1. handler[h] \in Hand /\ handler \in [Handler -> Hand]
  BY DEF TypeInv, TypeOK
<1>2. CASE Load(h) \/ Insert(h) \/ \E k \in handler[h].todo :
                                     Keep(h, k) \/ Duplicate(h, k) \/ Update(h, k)
  <2>1. handler[h].pc \in {"load", "rows"}
    BY <1>2 DEF Load, Insert, Keep, Duplicate, Update, Updates, AtRow, At
  <2>3. \/ \E index : GoOn(h, [handler[h] EXCEPT !.pc = "rows", !.index = index])
        \/ \E k, n : GoOn(h, [handler[h] EXCEPT !.keep = @ \ {k}, !.counts = n])
        \/ \E k, n : GoOn(h, [handler[h] EXCEPT !.todo = @ \ {k}, !.counts = n])
        \/ \E k, c : GoOn(h, [handler[h] EXCEPT !.todo = @ \ {k}, !.keep = @ \cup {k},
                                               !.seen = @ \cup c])
    BY <1>2 DEF Load, Insert, Keep, Duplicate, Update
  <2>4. PICK hand : GoOn(h, hand) /\ hand.batch = handler[h].batch
    <3>1. ASSUME NEW index, GoOn(h, [handler[h] EXCEPT !.pc = "rows", !.index = index])
          PROVE  \E hand : GoOn(h, hand) /\ hand.batch = handler[h].batch
      <4> DEFINE hand == [handler[h] EXCEPT !.pc = "rows", !.index = index]
      <4>1. hand.batch = handler[h].batch
        BY <1>1 DEF Hand
      <4> HIDE DEF hand
      <4> QED
        BY <3>1, <4>1 DEF hand
    <3>2. ASSUME NEW k, NEW n,
                 GoOn(h, [handler[h] EXCEPT !.keep = @ \ {k}, !.counts = n])
          PROVE  \E hand : GoOn(h, hand) /\ hand.batch = handler[h].batch
      <4> DEFINE hand == [handler[h] EXCEPT !.keep = @ \ {k}, !.counts = n]
      <4>1. hand.batch = handler[h].batch
        BY <1>1 DEF Hand
      <4> HIDE DEF hand
      <4> QED
        BY <3>2, <4>1 DEF hand
    <3>3. ASSUME NEW k, NEW n,
                 GoOn(h, [handler[h] EXCEPT !.todo = @ \ {k}, !.counts = n])
          PROVE  \E hand : GoOn(h, hand) /\ hand.batch = handler[h].batch
      <4> DEFINE hand == [handler[h] EXCEPT !.todo = @ \ {k}, !.counts = n]
      <4>1. hand.batch = handler[h].batch
        BY <1>1 DEF Hand
      <4> HIDE DEF hand
      <4> QED
        BY <3>3, <4>1 DEF hand
    <3>4. ASSUME NEW k, NEW c,
                 GoOn(h, [handler[h] EXCEPT !.todo = @ \ {k}, !.keep = @ \cup {k}, !.seen = @ \cup c])
          PROVE  \E hand : GoOn(h, hand) /\ hand.batch = handler[h].batch
      <4> DEFINE hand == [handler[h] EXCEPT !.todo = @ \ {k}, !.keep = @ \cup {k}, !.seen = @ \cup c]
      <4>1. hand.batch = handler[h].batch
        BY <1>1 DEF Hand
      <4> HIDE DEF hand
      <4> QED
        BY <3>4, <4>1 DEF hand
    <3> QED
      BY <2>3, <3>1, <3>2, <3>3, <3>4
  <2> QED
    BY <1>1, <2>1, <2>4 DEF GoOn
<1>3. CASE Complete(h)
  BY <1>1, <1>3 DEF Complete, GoOn, At, Idle
<1>4. CASE Forget(h) \/ Write(h) \/ Reject(h) \/ \E k \in handler[h].todo : UpdateRefused(h, k)
  <2>1. handler[h].pc # "idle"
    BY <1>4 DEF Forget, Write, Reject, UpdateRefused, Updates, AtRow, At
  <2>2. GoOn(h, Idle)
    BY <1>4 DEF Forget, Write, Reject, UpdateRefused, Fail
  <2> QED
    BY <1>1, <2>1, <2>2 DEF GoOn, Idle
<1> QED
  BY <1>2, <1>3, <1>4

LEMMA AloneInvStep == TypeInv /\ AloneInv /\ [Next]_vars => AloneInv'
<1> SUFFICES ASSUME TypeInv, AloneInv, [Next]_vars PROVE AloneInv'
  OBVIOUS
<1>1. CASE Analyze \/ Expire \/ Delete \/ UNCHANGED vars
  BY <1>1, NotBegun DEF Analyze, Expire, Delete, Meet, vars
<1>2. CASE Crash
  BY <1>2 DEF Crash, AloneInv, Idle
<1>3. ASSUME NEW h \in Handler, Commit(h) \/ Edit(h) PROVE AloneInv'
  BY <1>3, BeginAlone
<1>4. ASSUME NEW h \in Handler,
         \/ Load(h) \/ Insert(h) \/ Complete(h) \/ Forget(h) \/ Write(h) \/ Reject(h)
         \/ \E k \in handler[h].todo :
              Keep(h, k) \/ Duplicate(h, k) \/ Update(h, k) \/ UpdateRefused(h, k)
      PROVE  AloneInv'
  BY <1>4, GoesOn, NotBegun
<1> QED
  BY <1>1, <1>2, <1>3, <1>4 DEF Next

(***************************************************************************)
(* What a commit knows that skips duplicates, is alone and whose file has  *)
(* no row the schema refuses.                                              *)
(***************************************************************************)
There(c) == \E i \in Known : c \in Channels(contact[i])

Clean(h) ==
  /\ handler[h].pc = "rows" /\ StrategyOf(h) = "skip" /\ handler[h].batch \notin crowded
  /\ LET f == FileOf(handler[h].batch) IN \A k \in DOMAIN f : f[k].kind # "long"

\* The rows kept are of people not there yet, no two of them sharing a channel.
KeptOK(h) ==
  /\ \A k \in handler[h].keep : \A c \in Channels(RowOf(h, k)) : ~There(c) /\ c \in handler[h].seen
  /\ \A j, k \in handler[h].keep : j # k => Channels(RowOf(h, j)) \cap Channels(RowOf(h, k)) = {}

\* Somebody with channel c is there, or will be when the rows kept are inserted.
Coming(h, c) == There(c) \/ \E k \in handler[h].keep : c \in Channels(RowOf(h, k))

SeenOK(h) == \A c \in handler[h].seen : Coming(h, c)

IndexOK(h) ==
  handler[h].todo # {} =>
    \A k \in Drafts(FileOf(handler[h].batch)) :
      \A c \in Channels(RowOf(h, k)) : handler[h].index[c] # 0 <=> There(c)

ReachedOK(h) ==
  \A k \in Drafts(FileOf(handler[h].batch)) \ (handler[h].todo \cup handler[h].keep) :
    \E c \in Channels(RowOf(h, k)) : Coming(h, c)

SkipOK(h) ==
  /\ handler[h].pc = "load" =>
       /\ handler[h].todo = Drafts(FileOf(handler[h].batch))
       /\ handler[h].keep = {} /\ handler[h].seen = {}
  /\ Clean(h) => KeptOK(h) /\ SeenOK(h) /\ IndexOK(h) /\ ReachedOK(h)

SkipInv == \A h \in Handler : SkipOK(h)

LEMMA InitSkipInv == Init => SkipInv
BY DEF Init, Idle, SkipInv, SkipOK, Clean

\* The file and the strategy a handler works with stay.
LEMMA FileStays ==
  ASSUME TypeInv, [Next]_vars, NEW h \in Handler, handler[h].pc \in {"load", "rows"},
         handler'[h].batch = handler[h].batch
  PROVE  /\ FileOf(handler[h].batch)' = FileOf(handler[h].batch)
         /\ StrategyOf(h)' = StrategyOf(h)
         /\ \A k : RowOf(h, k)' = RowOf(h, k)
<1>1. handler[h].batch \in DOMAIN batches
  BY DEF TypeInv, HandsOK, HandOK
<1>2. \A b \in DOMAIN batches :
         FileOf(b)' = FileOf(b) /\ batches'[b].strategy = batches[b].strategy
  BY BatchStays
<1>3. FileOf(handler[h].batch)' = uploads'[batches'[handler[h].batch].session]
  BY DEF FileOf
<1>4. FileOf(handler[h].batch)' = FileOf(handler[h].batch)
  BY <1>1, <1>2, <1>3 DEF FileOf
<1>5. StrategyOf(h)' = StrategyOf(h)
  BY <1>1, <1>2 DEF StrategyOf
<1> QED
  BY <1>4, <1>5 DEF RowOf

\* While a commit is alone and stays where it is, so do the contacts.
LEMMA ContactsStay ==
  ASSUME TypeInv, AloneInv, [Next]_vars, NEW h \in Handler, handler'[h] = handler[h],
         handler[h].pc \in {"load", "rows"}, handler[h].batch \notin crowded'
  PROVE  UNCHANGED contact /\ handler[h].batch \notin crowded
<1>1. handler[h].batch \notin crowded
  <2>1. crowded \subseteq crowded'
    <3>1. CASE Analyze \/ Expire \/ Delete \/ Crash \/ UNCHANGED vars
      BY <3>1 DEF Analyze, Expire, Delete, Crash, Meet, vars
    <3>2. CASE \E g \in Handler : Commit(g) \/ Edit(g)
      BY <3>2 DEF Commit, Edit, Meet
    <3> QED
      BY <3>1, <3>2, GoesOn DEF Next
  <2> QED
    BY <2>1
<1>2. \A g \in Handler \ {h} : handler[g].pc = "idle"
  BY <1>1 DEF AloneInv
<1>3. ~Delete
  BY Crowds
<1>4. ASSUME NEW g \in Handler, Insert(g) PROVE FALSE
  <2>1. g = h
    BY <1>2, <1>4 DEF Insert, At
  <2>2. PICK k \in handler[h].keep :
           \E n : GoOn(h, [handler[h] EXCEPT !.keep = @ \ {k}, !.counts = n])
    BY <1>4, <2>1 DEF Insert
  <2>3. handler'[h].keep = handler[h].keep \ {k}
    BY <2>2 DEF GoOn, TypeInv, TypeOK, Hand
  <2> QED
    BY <2>3
<1>5. ASSUME NEW g \in Handler, NEW k \in handler[g].todo, Update(g, k) PROVE FALSE
  <2>1. g = h
    BY <1>2, <1>5 DEF Update, Updates, AtRow, At
  <2>2. PICK n : GoOn(h, [handler[h] EXCEPT !.todo = @ \ {k}, !.counts = n])
    BY <1>5, <2>1 DEF Update
  <2>3. handler'[h].todo = handler[h].todo \ {k}
    BY <2>2 DEF GoOn, TypeInv, TypeOK, Hand
  <2> QED
    BY <1>5, <2>1, <2>3
<1>6. ASSUME NEW g \in Handler, Write(g) PROVE FALSE
  BY <1>2, <1>6 DEF Write, At
<1> QED
  BY <1>1, <1>3, <1>4, <1>5, <1>6 DEF Next, vars, Analyze, Expire, Crash, Commit, Load,
     Complete, Forget, Keep, Duplicate, UpdateRefused, Edit, Reject, records

LEMMA SkipStays ==
  ASSUME TypeInv, AloneInv, SkipInv, [Next]_vars, NEW h \in Handler, handler'[h] = handler[h]
  PROVE  SkipOK(h)'
<1>1. CASE handler[h].pc = "load"
  BY <1>1, FileStays DEF SkipInv, SkipOK, Clean
<1>2. CASE handler[h].pc = "rows"
  <2>1. /\ FileOf(handler[h].batch)' = FileOf(handler[h].batch)
        /\ StrategyOf(h)' = StrategyOf(h)
        /\ \A k : RowOf(h, k)' = RowOf(h, k)
    BY <1>2, FileStays
  <2> SUFFICES ASSUME Clean(h)'
               PROVE  KeptOK(h)' /\ SeenOK(h)' /\ IndexOK(h)' /\ ReachedOK(h)'
    BY <1>2 DEF SkipOK
  <2>2. UNCHANGED contact /\ handler[h].batch \notin crowded
    BY <1>2, ContactsStay DEF Clean
  <2>3. Clean(h)
    BY <1>2, <2>1, <2>2 DEF Clean
  <2>4. \A c : There(c)' <=> There(c)
    BY <2>2 DEF There, Known
  <2>5. \A c : Coming(h, c)' <=> Coming(h, c)
    BY <2>1, <2>4 DEF Coming
  <2>6. Drafts(FileOf(handler[h].batch))' = Drafts(FileOf(handler[h].batch))
    BY <2>1 DEF Drafts
  <2>7. KeptOK(h) /\ SeenOK(h) /\ IndexOK(h) /\ ReachedOK(h)
    BY <2>3 DEF SkipInv, SkipOK
  <2> QED
    BY <2>1, <2>4, <2>5, <2>6, <2>7 DEF KeptOK, SeenOK, IndexOK, ReachedOK
<1> QED
  BY <1>1, <1>2 DEF SkipOK, Clean

LEMMA LoadSkip ==
  ASSUME TypeInv, SkipInv, [Next]_vars, NEW h \in Handler, Load(h) PROVE SkipOK(h)'
<1> DEFINE f == FileOf(handler[h].batch)
           wanted == UNION {Channels(f[k]) : k \in Drafts(f)}
           index == [c \in Channel |-> IF c \in wanted THEN Owner(c) ELSE 0]
<1>1. GoOn(h, [handler[h] EXCEPT !.pc = "rows", !.index = index])
  BY DEF Load
<1>2. /\ handler[h].pc = "load" /\ handler'[h].pc = "rows" /\ handler'[h].index = index
      /\ handler'[h].batch = handler[h].batch
      /\ handler'[h].todo = handler[h].todo /\ handler'[h].keep = handler[h].keep
      /\ handler'[h].seen = handler[h].seen
  <2>1. handler[h] \in Hand /\ handler \in [Handler -> Hand]
    BY DEF TypeInv, TypeOK
  <2>2. handler[h].pc = "load"
    BY DEF Load, At
  <2> HIDE DEF index
  <2>3. handler'[h] = [handler[h] EXCEPT !.pc = "rows", !.index = index]
    BY <1>1, <2>1 DEF GoOn
  <2> QED
    BY <2>1, <2>2, <2>3 DEF Hand
<1>3. handler[h].todo = Drafts(f) /\ handler[h].keep = {} /\ handler[h].seen = {}
  BY <1>2 DEF SkipInv, SkipOK
<1>4. f = FileOf(handler[h].batch)' /\ \A k : RowOf(h, k)' = RowOf(h, k)
  BY <1>2, FileStays
<1>5. \A c : There(c)' <=> There(c)
  BY DEF There, Known, Load, records
<1>6. \A c : Owner(c) # 0 <=> There(c)
  <2>1. ASSUME NEW c, There(c) PROVE Owner(c) \in Known
    BY <2>1 DEF Owner, There
  <2>2. 0 \notin Known
    BY DEF Known, Id
  <2> QED
    BY <2>1, <2>2 DEF Owner, There
<1>7. ASSUME NEW k \in Drafts(f), NEW c \in Channels(f[k])
      PROVE  index[c] # 0 <=> There(c)
  <2>1. f \in File
    BY <1>2, RowType
  <2>2. f[k] \in Row
    BY <2>1, FileType DEF Drafts
  <2>3. c \in Channel /\ c \in wanted
    BY <2>2 DEF Row, Channels, Channel
  <2> QED
    BY <1>6, <2>3
<1>8. IndexOK(h)'
  <2>1. Drafts(FileOf(handler[h].batch))' = Drafts(f)
    BY <1>4 DEF Drafts
  <2> HIDE DEF index
  <2> QED
    BY <1>2, <1>4, <1>5, <1>7, <2>1 DEF IndexOK, RowOf
<1>9. ReachedOK(h)'
  <2>1. Drafts(FileOf(handler[h].batch))' = Drafts(f)
    BY <1>4 DEF Drafts
  <2> QED
    BY <1>2, <1>3, <2>1 DEF ReachedOK
<1> QED
  BY <1>2, <1>3, <1>8, <1>9 DEF SkipOK, KeptOK, SeenOK

\* What holds of a clean commit before and after one of its rows is done.
LEMMA RowSkip ==
  ASSUME TypeInv, SkipInv, [Next]_vars, NEW h \in Handler, handler[h].pc = "rows",
         handler'[h].pc = "rows", handler'[h].batch = handler[h].batch, UNCHANGED crowded,
         Clean(h)'
  PROVE  /\ Clean(h) /\ KeptOK(h) /\ SeenOK(h) /\ IndexOK(h) /\ ReachedOK(h)
         /\ \A k : RowOf(h, k)' = RowOf(h, k)
         /\ Drafts(FileOf(handler[h].batch))' = Drafts(FileOf(handler[h].batch))
<1>1. /\ FileOf(handler[h].batch)' = FileOf(handler[h].batch)
      /\ StrategyOf(h)' = StrategyOf(h)
      /\ \A k : RowOf(h, k)' = RowOf(h, k)
  BY FileStays
<1>2. Clean(h)
  BY <1>1 DEF Clean
<1> QED
  BY <1>1, <1>2 DEF SkipInv, SkipOK, Drafts

LEMMA KeepSkip ==
  ASSUME TypeInv, SkipInv, [Next]_vars, NEW h \in Handler, NEW k \in handler[h].todo, Keep(h, k)
  PROVE  SkipOK(h)'
<1>1. /\ handler[h].pc = "rows" /\ handler'[h].pc = "rows"
      /\ handler'[h].batch = handler[h].batch /\ handler'[h].index = handler[h].index
      /\ handler'[h].todo = handler[h].todo \ {k} /\ handler'[h].keep = handler[h].keep \cup {k}
      /\ handler'[h].seen = handler[h].seen \cup Channels(RowOf(h, k))
      /\ UNCHANGED crowded
  BY DEF Keep, AtRow, At, GoOn, TypeInv, TypeOK, Hand
<1> SUFFICES ASSUME Clean(h)'
             PROVE  KeptOK(h)' /\ SeenOK(h)' /\ IndexOK(h)' /\ ReachedOK(h)'
  BY <1>1 DEF SkipOK
<1>2. /\ Clean(h) /\ KeptOK(h) /\ SeenOK(h) /\ IndexOK(h) /\ ReachedOK(h)
      /\ \A j : RowOf(h, j)' = RowOf(h, j)
      /\ Drafts(FileOf(handler[h].batch))' = Drafts(FileOf(handler[h].batch))
  BY <1>1, RowSkip
<1>3. \A c : There(c)' <=> There(c)
  BY DEF There, Known, Keep, records
<1>4. \A c : Coming(h, c) => Coming(h, c)'
  BY <1>1, <1>2, <1>3 DEF Coming
<1>5. \A c \in Channels(RowOf(h, k)) : Coming(h, c)'
  BY <1>1, <1>2 DEF Coming
<1>6. k \in Drafts(FileOf(handler[h].batch))
  BY <1>1 DEF TypeInv, HandsOK, HandOK
<1>7. \A c \in Channels(RowOf(h, k)) : ~There(c) /\ c \notin handler[h].seen
  <2>1. Existing(h, k) = 0 /\ ~WithinFile(h, k)
    BY <1>2 DEF Keep, Clean
  <2>2. \A c \in Channels(RowOf(h, k)) : handler[h].index[c] = 0
    BY <2>1 DEF Existing, Channels
  <2> QED
    BY <1>2, <1>6, <2>1, <2>2 DEF IndexOK, WithinFile
<1>8. KeptOK(h)'
  <2>1. \A j \in handler[h].keep : \A c \in Channels(RowOf(h, j)) : ~There(c) /\ c \in handler[h].seen
    BY <1>2 DEF KeptOK
  <2>2. \A i, j \in handler[h].keep : i # j => Channels(RowOf(h, i)) \cap Channels(RowOf(h, j)) = {}
    BY <1>2 DEF KeptOK
  <2>3. \A j \in handler[h].keep : Channels(RowOf(h, k)) \cap Channels(RowOf(h, j)) = {}
    BY <1>7, <2>1
  <2> QED
    BY <1>1, <1>2, <1>3, <1>7, <2>1, <2>2, <2>3 DEF KeptOK
<1>9. SeenOK(h)'
  BY <1>1, <1>2, <1>4, <1>5 DEF SeenOK
<1>10. IndexOK(h)'
  BY <1>1, <1>2, <1>3 DEF IndexOK
<1>11. ReachedOK(h)'
  BY <1>1, <1>2, <1>4 DEF ReachedOK
<1> QED
  BY <1>8, <1>9, <1>10, <1>11

LEMMA DuplicateSkip ==
  ASSUME TypeInv, SkipInv, [Next]_vars, NEW h \in Handler, NEW k \in handler[h].todo,
         Duplicate(h, k)
  PROVE  SkipOK(h)'
<1>1. /\ handler[h].pc = "rows" /\ handler'[h].pc = "rows"
      /\ handler'[h].batch = handler[h].batch /\ handler'[h].index = handler[h].index
      /\ handler'[h].todo = handler[h].todo \ {k} /\ handler'[h].keep = handler[h].keep
      /\ handler'[h].seen = handler[h].seen
      /\ UNCHANGED crowded
  BY DEF Duplicate, AtRow, At, GoOn, TypeInv, TypeOK, Hand
<1> SUFFICES ASSUME Clean(h)'
             PROVE  KeptOK(h)' /\ SeenOK(h)' /\ IndexOK(h)' /\ ReachedOK(h)'
  BY <1>1 DEF SkipOK
<1>2. /\ Clean(h) /\ KeptOK(h) /\ SeenOK(h) /\ IndexOK(h) /\ ReachedOK(h)
      /\ \A j : RowOf(h, j)' = RowOf(h, j)
      /\ Drafts(FileOf(handler[h].batch))' = Drafts(FileOf(handler[h].batch))
  BY <1>1, RowSkip
<1>3. \A c : There(c)' <=> There(c)
  BY DEF There, Known, Duplicate, records
<1>4. \A c : Coming(h, c)' <=> Coming(h, c)
  BY <1>1, <1>2, <1>3 DEF Coming
<1>5. k \in Drafts(FileOf(handler[h].batch))
  BY <1>1 DEF TypeInv, HandsOK, HandOK
<1>6. \E c \in Channels(RowOf(h, k)) : Coming(h, c)
  <2>1. CASE WithinFile(h, k)
    BY <1>2, <2>1 DEF WithinFile, SeenOK
  <2>2. CASE Existing(h, k) # 0
    <3>1. \E c \in Channels(RowOf(h, k)) : handler[h].index[c] # 0
      BY <2>2 DEF Existing, Channels
    <3> QED
      BY <1>2, <1>5, <3>1 DEF IndexOK, Coming
  <2> QED
    BY <2>1, <2>2 DEF Duplicate
<1>7. KeptOK(h)' /\ SeenOK(h)' /\ IndexOK(h)'
  BY <1>1, <1>2, <1>3, <1>4 DEF KeptOK, SeenOK, IndexOK
<1>8. ReachedOK(h)'
  BY <1>1, <1>2, <1>4, <1>6 DEF ReachedOK
<1> QED
  BY <1>7, <1>8

LEMMA InsertSkip ==
  ASSUME TypeInv, SkipInv, [Next]_vars, NEW h \in Handler, Insert(h) PROVE SkipOK(h)'
<1> PICK k \in handler[h].keep :
      /\ \E n : GoOn(h, [handler[h] EXCEPT !.keep = @ \ {k}, !.counts = n])
      /\ \/ RowOf(h, k).kind = "long"
         \/ Taken(RowOf(h, k), 0)
         \/ contact' = [contact EXCEPT ![created + 1] = ChannelsOf(RowOf(h, k))]
            /\ created < MaxContacts
  BY DEF Insert
<1> DEFINE row == RowOf(h, k)
<1>1. /\ handler[h].pc = "rows" /\ handler'[h].pc = "rows"
      /\ handler'[h].batch = handler[h].batch /\ handler[h].todo = {}
      /\ handler'[h].todo = handler[h].todo /\ handler'[h].keep = handler[h].keep \ {k}
      /\ handler'[h].seen = handler[h].seen
      /\ UNCHANGED crowded
  BY DEF Insert, At, GoOn, TypeInv, TypeOK, Hand
<1> SUFFICES ASSUME Clean(h)'
             PROVE  KeptOK(h)' /\ SeenOK(h)' /\ IndexOK(h)' /\ ReachedOK(h)'
  BY <1>1 DEF SkipOK
<1>2. /\ Clean(h) /\ KeptOK(h) /\ SeenOK(h) /\ IndexOK(h) /\ ReachedOK(h)
      /\ \A j : RowOf(h, j)' = RowOf(h, j)
      /\ Drafts(FileOf(handler[h].batch))' = Drafts(FileOf(handler[h].batch))
  BY <1>1, RowSkip
<1>3. contact' = [contact EXCEPT ![created + 1] = ChannelsOf(row)] /\ created + 1 \in Id
  <2>1. row.kind # "long"
    BY <1>1, <1>2 DEF Clean, RowOf, TypeInv, HandsOK, HandOK, Drafts
  <2>2. ~Taken(row, 0)
    BY <1>2 DEF KeptOK, Taken, There
  <2> QED
    BY <2>1, <2>2, ImportAssumption DEF Id, TypeInv, TypeOK
<1>4. /\ contact'[created + 1] = ChannelsOf(row) /\ created + 1 \in Known'
      /\ \A i \in Known : i \in Known' /\ contact'[i] = contact[i] /\ i # created + 1
      /\ \A i \in Known' : i \in Known \/ i = created + 1
      /\ Channels(ChannelsOf(row)) = Channels(row)
  <2>1. ChannelsOf(row) # Gone /\ Channels(ChannelsOf(row)) = Channels(row)
    BY <1>1, RowType
  <2> QED
    BY <1>3, <2>1 DEF Known, TypeInv, TypeOK, IdsOK
<1>5. \A c : There(c)' <=> There(c) \/ c \in Channels(row)
  BY <1>4 DEF There
<1>6. \A c : Coming(h, c) => Coming(h, c)'
  BY <1>1, <1>2, <1>5 DEF Coming
<1>7. KeptOK(h)'
  BY <1>1, <1>2, <1>5 DEF KeptOK
<1>8. SeenOK(h)'
  BY <1>1, <1>2, <1>6 DEF SeenOK
<1>9. IndexOK(h)'
  BY <1>1 DEF IndexOK
<1>10. ReachedOK(h)'
  <2>1. ASSUME NEW j \in Drafts(FileOf(handler[h].batch)) \ handler'[h].keep
        PROVE  \E c \in Channels(RowOf(h, j)) : Coming(h, c)'
    <3>1. CASE j = k
      <4>1. Channels(row) # {}
        BY <1>1, RowType DEF Contact, Gone, Channels, ChannelsOf
      <4> QED
        BY <1>5, <3>1, <4>1 DEF Coming
    <3>2. CASE j # k
      BY <1>1, <1>2, <1>6, <2>1, <3>2 DEF ReachedOK
    <3> QED
      BY <3>1, <3>2
  <2> QED
    BY <1>1, <1>2, <2>1 DEF ReachedOK
<1> QED
  BY <1>7, <1>8, <1>9, <1>10

LEMMA CommitSkip ==
  ASSUME TypeInv, [Next]_vars, NEW h \in Handler, Commit(h) PROVE SkipOK(h)'
<1> PICK s \in sessions : \E strategy \in Strategy : \E counts :
      /\ batches' = Append(batches, [session |-> s, strategy |-> strategy,
                                     status |-> "processing", counts |-> Idle.counts])
      /\ handler' = [handler EXCEPT ![h] =
                       [Idle EXCEPT !.pc = "load", !.batch = Len(batches) + 1,
                                    !.todo = Drafts(uploads[s]), !.counts = counts]]
  BY DEF Commit
<1>1. /\ handler'[h].pc = "load" /\ handler'[h].batch = Len(batches) + 1
      /\ handler'[h].todo = Drafts(uploads[s])
      /\ handler'[h].keep = {} /\ handler'[h].seen = {}
  BY DEF TypeInv, TypeOK, Idle
<1>2. batches'[Len(batches) + 1].session = s
  BY DEF TypeInv, TypeOK
<1>3. FileOf(handler[h].batch)' = uploads[s]
  BY <1>1, <1>2 DEF FileOf, Commit, store
<1>4. Drafts(FileOf(handler[h].batch))' = Drafts(uploads[s])
  BY <1>3 DEF Drafts
<1> QED
  BY <1>1, <1>4 DEF SkipOK, Clean

LEMMA UpdateSkip ==
  ASSUME TypeInv, [Next]_vars, NEW h \in Handler, NEW k \in handler[h].todo, Update(h, k)
  PROVE  SkipOK(h)'
<1>1. handler[h].pc = "rows" /\ handler'[h].pc = "rows" /\ handler'[h].batch = handler[h].batch
  BY DEF Update, Updates, AtRow, At, GoOn, TypeInv, TypeOK, Hand
<1>2. StrategyOf(h)' = "update"
  BY <1>1, FileStays DEF Update, Updates
<1> QED
  BY <1>1, <1>2 DEF SkipOK, Clean

LEMMA SkipInvStep == TypeInv /\ AloneInv /\ SkipInv /\ [Next]_vars => SkipInv'
<1> SUFFICES ASSUME TypeInv, AloneInv, SkipInv, [Next]_vars, NEW h \in Handler
             PROVE  SkipOK(h)'
  BY DEF SkipInv
<1>1. CASE handler'[h] = handler[h]
  BY <1>1, SkipStays
<1>2. CASE handler'[h].pc \notin {"load", "rows"}
  BY <1>2 DEF SkipOK, Clean
<1>3. CASE Commit(h) \/ Load(h) \/ Insert(h) \/ \E k \in handler[h].todo :
             Keep(h, k) \/ Duplicate(h, k) \/ Update(h, k)
  BY <1>3, CommitSkip, LoadSkip, InsertSkip, KeepSkip, DuplicateSkip, UpdateSkip
<1>4. CASE Analyze \/ Expire \/ Delete \/ UNCHANGED vars
  BY <1>1, <1>4 DEF Analyze, Expire, Delete, vars
<1>5. CASE Crash
  BY <1>2, <1>5 DEF Crash, Idle
<1>6. ASSUME NEW g \in Handler, g # h, Commit(g) \/ Edit(g) PROVE handler'[h] = handler[h]
  BY <1>6 DEF Commit, Edit, TypeInv, TypeOK
<1>7. CASE Edit(h)
  BY <1>2, <1>7 DEF Edit, TypeInv, TypeOK, Idle
<1>8. ASSUME NEW g \in Handler, g # h,
             \/ Load(g) \/ Insert(g) \/ Complete(g) \/ Forget(g) \/ Write(g) \/ Reject(g)
             \/ \E k \in handler[g].todo :
                  Keep(g, k) \/ Duplicate(g, k) \/ Update(g, k) \/ UpdateRefused(g, k)
      PROVE  handler'[h] = handler[h]
  BY <1>8, GoesOn
<1>9. CASE Forget(h) \/ Write(h) \/ Reject(h) \/ \E k \in handler[h].todo : UpdateRefused(h, k)
  <2>1. handler'[h] = Idle
    BY <1>9 DEF Forget, Write, Reject, UpdateRefused, Fail, GoOn, TypeInv, TypeOK
  <2> QED
    BY <1>2, <2>1 DEF Idle
<1>10. CASE Complete(h)
  BY <1>2, <1>10, CompleteBatch DEF Idle
<1> QED
  BY <1>1, <1>3, <1>4, <1>5, <1>6, <1>7, <1>8, <1>9, <1>10 DEF Next

(***************************************************************************)
(* When a skipping import that met no other request completes, everybody   *)
(* in its file can be reached by a channel of theirs                       *)
(* (import.service.ts:228).                                                *)
(***************************************************************************)
THEOREM EverybodyReached == Spec => NobodyIsLost
<1> DEFINE Reached == \A b \in Completed' \ Completed :
                        LET f == FileOf(b)
                        IN  /\ batches[b].strategy = "skip" /\ b \notin crowded
                            /\ \A k \in DOMAIN f : f[k].kind # "long"
                            => \A k \in Drafts(f) : Taken(f[k], 0)
<1>1. ASSUME TypeInv, SkipInv, [Next]_vars PROVE Reached
  <2> SUFFICES ASSUME NEW b \in Completed' \ Completed,
                      batches[b].strategy = "skip", b \notin crowded,
                      \A k \in DOMAIN FileOf(b) : FileOf(b)[k].kind # "long",
                      NEW k \in Drafts(FileOf(b))
               PROVE  Taken(FileOf(b)[k], 0)
    OBVIOUS
  <2>1. PICK h \in Handler : Complete(h)
    <3>1. ASSUME UNCHANGED batches PROVE FALSE
      BY <3>1 DEF Completed
    <3>2. ASSUME NEW h \in Handler, Commit(h) PROVE FALSE
      <4>1. /\ DOMAIN batches' = DOMAIN batches \cup {Len(batches) + 1}
            /\ batches'[Len(batches) + 1].status = "processing"
            /\ \A c \in DOMAIN batches : batches'[c] = batches[c]
        BY <1>1, <3>2 DEF Commit, TypeInv, TypeOK
      <4> QED
        BY <4>1 DEF Completed
    <3> QED
      BY <1>1, <3>1, <3>2 DEF Next, vars, Analyze, Expire, Delete, Crash, Load, Insert,
         Forget, Keep, Duplicate, Update, UpdateRefused, Edit, Write, Reject
  <2>2. b = handler[h].batch
    <3>1. Completed' = Completed \cup {handler[h].batch}
      BY <1>1, <2>1, CompleteBatch
    <3> QED
      BY <3>1
  <2>3. handler[h].pc = "rows" /\ handler[h].todo = {} /\ handler[h].keep = {}
    BY <2>1 DEF Complete, At
  <2>4. Clean(h)
    BY <2>2, <2>3 DEF Clean, StrategyOf
  <2>5. ReachedOK(h)
    BY <1>1, <2>4 DEF SkipInv, SkipOK
  <2>6. PICK c \in Channels(FileOf(b)[k]) : There(c)
    BY <2>2, <2>3, <2>5 DEF ReachedOK, Coming, RowOf
  <2>7. 0 \notin Known
    BY DEF Known, Id
  <2> QED
    BY <2>6, <2>7 DEF Taken, There
<1> QED
  BY InitTypeInv, TypeInvStep, InitAloneInv, AloneInvStep, InitSkipInv, SkipInvStep, <1>1, PTL
  DEF Spec, NobodyIsLost

=============================================================================
