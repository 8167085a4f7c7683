------------------------------- MODULE Imports -------------------------------
(***************************************************************************)
(* The contacts of one workspace and what writes them: imports             *)
(* (backend/src/modules/imports: the session store, ImportService and its  *)
(* repository) and the user's own edits (backend/src/modules/contacts).    *)
(*                                                                         *)
(* Each database round trip is a step, so requests interleave at every     *)
(* await; of the bulk insert, which is unordered, each document is one.  A *)
(* contact is its two channels, e-mail and normalized phone, which the two *)
(* unique indexes are on and duplicates are found by; a row is its         *)
(* channels and what becomes of it: blank, refused by RowBuilder, good, or *)
(* "long": accepted by RowBuilder and refused by the schema, whose         *)
(* maxlength for company, designation and location RowBuilder ignores.     *)
(* The other fields and tags are left out.                                 *)
(***************************************************************************)
EXTENDS Naturals, Sequences, FiniteSets

CONSTANTS Email, Phone,   \* the values of the two channels
          File,           \* the sheets users upload: sequences of rows
          AddressBook,    \* the contacts there may be at first: sets of contacts
          Handler,        \* requests that may be served at once
          Quota,          \* MAX_SESSIONS_PER_WORKSPACE
          MaxContacts,    \* bound: contacts ever created
          MaxUploads,     \* bound: files ever analyzed
          MaxBatches,     \* bound: commits ever begun
          MaxEdits,       \* bound: contacts ever created, edited or deleted by hand
          Faults,         \* "crash": the process may be restarted; "reject": a
                          \* database call may fail
          None

Channel == Email \cup Phone

Strategy == {"skip", "update", "import"}

Contact == [email : Email \cup {None}, phone : Phone \cup {None}]

Row == [kind : {"blank", "bad", "good", "long"},
        email : Email \cup {None}, phone : Phone \cup {None}]

Channels(c) == {c.email, c.phone} \ {None}

\* Contact ids, 0 being none.
Id == 1 .. MaxContacts

ASSUME ImportAssumption ==
  /\ Email \cap Phone = {} /\ None \notin Channel
  /\ IsFiniteSet(Handler)
  /\ File \subseteq Seq(Row)
  \* RowBuilder accepts no row without a channel.
  /\ \A f \in File : \A k \in DOMAIN f :
       f[k].kind \in {"good", "long"} => Channels(f[k]) # {}
  /\ {MaxContacts, MaxUploads, MaxBatches, MaxEdits} \subseteq Nat /\ Quota \in Nat \ {0}
  /\ \A book \in AddressBook :
       /\ book \in Seq(Contact) /\ Len(book) <= MaxContacts
       /\ \A i, j \in DOMAIN book : i # j => Channels(book[i]) \cap Channels(book[j]) = {}
  /\ Faults \subseteq {"crash", "reject"}

VARIABLES
  contact,   \* the contacts by their ids; Gone if there is none
  created,   \* how many ids have been used
  uploads,   \* the files analyzed so far, each a session
  sessions,  \* the sessions still in the store
  batches,   \* the import batches
  edits,     \* how many edits there have been
  handler,   \* where each handler stands
  cut,       \* history: batches whose commit has failed
  crowded    \* history: batches that met another request

records == <<contact, created>>
store == <<uploads, sessions>>
vars == <<contact, created, uploads, sessions, batches, edits, handler, cut, crowded>>

Gone == [email |-> None, phone |-> None]

Known == {i \in Id : contact[i] # Gone}

\* Mutant of Taken: the phone has no unique index.
TakenByEmail(c, i) ==
  \E j \in Known \ {i} : c.email # None /\ contact[j].email = c.email

\* A contact other than i has a channel of c.
Taken(c, i) == \E j \in Known \ {i} : Channels(contact[j]) \cap Channels(c) # {}

Counts == [created : Nat, updated : Nat, duplicate : Nat, failed : Nat]

Batch == [session : Nat, strategy : Strategy, status : {"processing", "completed"},
          counts : Counts]

\* A handler of a commit has the rows still to be looked at and those kept for
\* the insert, what was found of their channels, and the channels it has kept.
Hand == [pc : {"idle", "load", "rows", "forget", "write"},
         batch : Nat, todo : SUBSET Nat, keep : SUBSET Nat,
         index : [Channel -> Id \cup {0}], seen : SUBSET Channel, counts : Counts,
         contact : Contact, id : Id \cup {0}]

Idle == [pc |-> "idle", batch |-> 0, todo |-> {}, keep |-> {},
         index |-> [c \in Channel |-> 0], seen |-> {},
         counts |-> [created |-> 0, updated |-> 0, duplicate |-> 0, failed |-> 0],
         contact |-> Gone, id |-> 0]

TypeOK ==
  /\ contact \in [Id -> Contact]
  /\ created \in 0 .. MaxContacts
  /\ \A i, j \in Known : i # j => Channels(contact[i]) \cap Channels(contact[j]) = {}
  /\ uploads \in Seq(File)
  /\ sessions \subseteq DOMAIN uploads /\ Cardinality(sessions) <= Quota
  /\ batches \in Seq(Batch)
  /\ edits \in 0 .. MaxEdits
  /\ handler \in [Handler -> Hand]
  /\ cut \subseteq DOMAIN batches /\ crowded \subseteq DOMAIN batches

Init ==
  /\ \E book \in AddressBook :
       /\ contact = [i \in Id |-> IF i \in DOMAIN book THEN book[i] ELSE Gone]
       /\ created = Len(book)
  /\ uploads = << >> /\ sessions = {} /\ batches = << >> /\ edits = 0
  /\ handler = [h \in Handler |-> Idle]
  /\ cut = {} /\ crowded = {}

-----------------------------------------------------------------------------
At(h, pc) == handler[h].pc = pc

Busy == {h \in Handler : handler[h].pc # "idle"}

FileOf(b) == uploads[batches[b].session]

StrategyOf(h) == batches[handler[h].batch].strategy

Drafts(f) == {k \in DOMAIN f : f[k].kind \in {"good", "long"}}

Refused(f) == {k \in DOMAIN f : f[k].kind = "bad"}

\* A request begins: the batches at work meet it.
Meet(others) == crowded' = crowded \cup ({handler[g].batch : g \in others} \ {0})

GoOn(h, hand) ==
  /\ handler' = [handler EXCEPT ![h] = hand]
  /\ UNCHANGED <<edits, crowded>>

-----------------------------------------------------------------------------
(***************************************************************************)
(* The session store.                                                      *)
(***************************************************************************)

\* The sessions that stay when another comes: all, or but the oldest.
Stay(kept) ==
  /\ \A s \in kept, t \in sessions \ kept : t < s
  /\ \/ kept = sessions /\ Cardinality(kept) < Quota
     \/ Cardinality(kept) = Quota - 1

\* analyze(): nothing is awaited once the file is parsed.
Analyze ==
  /\ Len(uploads) < MaxUploads
  /\ \E f \in File : uploads' = Append(uploads, f)
  /\ \E kept \in SUBSET sessions :
       Stay(kept) /\ sessions' = kept \cup {Len(uploads) + 1}
  /\ UNCHANGED <<records, batches, edits, handler, cut, crowded>>

\* The oldest session expires.  It is evicted when the store is next used, and
\* not seen before.
Expire ==
  /\ \E s \in sessions : /\ \A t \in sessions : s <= t
                         /\ sessions' = sessions \ {s}
  /\ UNCHANGED <<records, uploads, batches, edits, handler, cut, crowded>>

-----------------------------------------------------------------------------
(***************************************************************************)
(* commit()                                                                *)
(***************************************************************************)

\* The session is found, its rows are built, a batch is created.
Commit(h) ==
  /\ At(h, "idle")
  /\ Len(batches) < MaxBatches
  /\ \E s \in sessions, strategy \in Strategy :
       LET b == Len(batches) + 1
           counts == [Idle.counts EXCEPT !.failed = Cardinality(Refused(uploads[s]))]
       IN  /\ batches' = Append(batches, [session |-> s, strategy |-> strategy,
                                          status |-> "processing", counts |-> Idle.counts])
           /\ handler' = [handler EXCEPT ![h] =
                            [Idle EXCEPT !.pc = "load", !.batch = b,
                                         !.todo = Drafts(uploads[s]), !.counts = counts]]
           /\ crowded' = crowded \cup ({handler[g].batch : g \in Busy} \ {0})
                                 \cup (IF Busy # {} THEN {b} ELSE {})
  /\ UNCHANGED <<records, store, edits, cut>>

\* The contact a channel belongs to.
Owner(c) ==
  IF \E i \in Known : c \in Channels(contact[i])
  THEN CHOOSE i \in Known : c \in Channels(contact[i])
  ELSE 0

\* loadExistingIndex(), for the channels of the drafts
Load(h) ==
  LET f == FileOf(handler[h].batch)
      wanted == UNION {Channels(f[k]) : k \in Drafts(f)}
  IN  /\ At(h, "load")
      /\ GoOn(h, [handler[h] EXCEPT !.pc = "rows",
                    !.index = [c \in Channel |-> IF c \in wanted THEN Owner(c) ELSE 0]])
      /\ UNCHANGED <<records, store, batches, cut>>

\* Handler h is at row k.
AtRow(h, k) ==
  /\ At(h, "rows")
  /\ k \in handler[h].todo
  /\ \A j \in handler[h].todo : k <= j

RowOf(h, k) == FileOf(handler[h].batch)[k]

WithinFile(h, k) == Channels(RowOf(h, k)) \cap handler[h].seen # {}

\* The contact found for row k: by e-mail, else by phone.
Existing(h, k) ==
  LET Found(c) == IF c = None THEN 0 ELSE handler[h].index[c]
      row == RowOf(h, k)
  IN  IF Found(row.email) # 0 THEN Found(row.email) ELSE Found(row.phone)

Keep(h, k) ==
  /\ AtRow(h, k)
  /\ ~WithinFile(h, k) /\ (Existing(h, k) = 0 \/ StrategyOf(h) = "import")
  /\ GoOn(h, [handler[h] EXCEPT !.todo = @ \ {k}, !.keep = @ \cup {k},
                                !.seen = @ \cup Channels(RowOf(h, k))])
  /\ UNCHANGED <<records, store, batches, cut>>

\* Mutant of Duplicate: the row's channels are noted as seen.
DuplicateSeen(h, k) ==
  /\ AtRow(h, k)
  /\ WithinFile(h, k) \/ (Existing(h, k) # 0 /\ StrategyOf(h) = "skip")
  /\ GoOn(h, [handler[h] EXCEPT !.todo = @ \ {k}, !.counts.duplicate = @ + 1,
                                !.seen = @ \cup Channels(RowOf(h, k))])
  /\ UNCHANGED <<records, store, batches, cut>>

Duplicate(h, k) ==
  /\ AtRow(h, k)
  /\ WithinFile(h, k) \/ (Existing(h, k) # 0 /\ StrategyOf(h) = "skip")
  /\ GoOn(h, [handler[h] EXCEPT !.todo = @ \ {k}, !.counts.duplicate = @ + 1])
  /\ UNCHANGED <<records, store, batches, cut>>

\* Mutant of Updates: rows that are to be imported update as well.
UpdatesUnlessSkipped(h, k) ==
  /\ AtRow(h, k)
  /\ ~WithinFile(h, k) /\ Existing(h, k) # 0 /\ StrategyOf(h) # "skip"

Updates(h, k) ==
  /\ AtRow(h, k)
  /\ ~WithinFile(h, k) /\ Existing(h, k) # 0 /\ StrategyOf(h) = "update"

\* The update of contact i with the channels of c would be refused.
Collides(c, i) == i \in Known /\ Taken(c, i)

ChannelsOf(row) == [email |-> row.email, phone |-> row.phone]

\* Mutant of Update: the row is kept for the insert as well.
UpdateAndKeep(h, k) ==
  LET i == Existing(h, k) IN
  /\ Updates(h, k)
  /\ RowOf(h, k).kind = "good" /\ ~Collides(RowOf(h, k), i)
  /\ contact' = IF i \in Known THEN [contact EXCEPT ![i] = ChannelsOf(RowOf(h, k))]
                ELSE contact
  /\ GoOn(h, [handler[h] EXCEPT !.todo = @ \ {k}, !.counts.updated = @ + 1,
                                !.keep = @ \cup {k}])
  /\ UNCHANGED <<created, store, batches, cut>>

\* The contact is written over; nothing is, and nobody told, if it is gone.
Update(h, k) ==
  LET i == Existing(h, k) IN
  /\ Updates(h, k)
  /\ RowOf(h, k).kind = "good" /\ ~Collides(RowOf(h, k), i)
  /\ contact' = IF i \in Known THEN [contact EXCEPT ![i] = ChannelsOf(RowOf(h, k))]
                ELSE contact
  /\ GoOn(h, [handler[h] EXCEPT !.todo = @ \ {k}, !.counts.updated = @ + 1])
  /\ UNCHANGED <<created, store, batches, cut>>

\* The commit fails, and leaves its batch as it is.
Fail(h) ==
  /\ GoOn(h, Idle)
  /\ cut' = cut \cup ({handler[h].batch} \ {0})

\* A validator or a unique index refuses the update: nothing catches that.
UpdateRefused(h, k) ==
  /\ Updates(h, k)
  /\ RowOf(h, k).kind = "long" \/ Collides(RowOf(h, k), Existing(h, k))
  /\ Fail(h)
  /\ UNCHANGED <<records, store, batches>>

\* One document of insertContacts(), in any order.  Mongoose leaves out what
\* its schema refuses, without an error, so the row counts as created.
Insert(h) ==
  /\ At(h, "rows") /\ handler[h].todo = {}
  /\ \E k \in handler[h].keep :
       LET row == RowOf(h, k)
           Counted(entry) == GoOn(h, [handler[h] EXCEPT !.keep = @ \ {k}, !.counts = entry])
           counts == handler[h].counts
       IN  \/ /\ row.kind = "long"
              /\ Counted([counts EXCEPT !.created = @ + 1])
              /\ UNCHANGED records
           \/ /\ row.kind = "good" /\ Taken(row, 0)
              /\ Counted([counts EXCEPT !.failed = @ + 1])
              /\ UNCHANGED records
           \/ /\ row.kind = "good" /\ ~Taken(row, 0)
              /\ created < MaxContacts
              /\ created' = created + 1
              /\ contact' = [contact EXCEPT ![created + 1] = ChannelsOf(row)]
              /\ Counted([counts EXCEPT !.created = @ + 1])
  /\ UNCHANGED <<store, batches, cut>>

\* Mutant of Complete: a batch with nothing created is left as it is.
CompleteIfCreated(h) ==
  /\ At(h, "rows") /\ handler[h].todo = {} /\ handler[h].keep = {}
  /\ batches' = IF handler[h].counts.created = 0 THEN batches
                ELSE [batches EXCEPT ![handler[h].batch] =
                        [@ EXCEPT !.status = "completed", !.counts = handler[h].counts]]
  /\ GoOn(h, [Idle EXCEPT !.pc = "forget", !.batch = handler[h].batch])
  /\ UNCHANGED <<records, store, cut>>

\* completeBatch()
Complete(h) ==
  /\ At(h, "rows") /\ handler[h].todo = {} /\ handler[h].keep = {}
  /\ batches' = [batches EXCEPT ![handler[h].batch] =
                   [@ EXCEPT !.status = "completed", !.counts = handler[h].counts]]
  /\ GoOn(h, [Idle EXCEPT !.pc = "forget", !.batch = handler[h].batch])
  /\ UNCHANGED <<records, store, cut>>

\* Mutant of Forget: the session stays.
ForgetNot(h) ==
  /\ At(h, "forget")
  /\ GoOn(h, Idle)
  /\ UNCHANGED <<records, store, batches, cut>>

\* The session is dropped from the store.
Forget(h) ==
  /\ At(h, "forget")
  /\ sessions' = sessions \ {batches[handler[h].batch].session}
  /\ GoOn(h, Idle)
  /\ UNCHANGED <<records, uploads, batches, cut>>

-----------------------------------------------------------------------------
(***************************************************************************)
(* ContactService: create(), update() and delete().                        *)
(***************************************************************************)

\* assertNoDuplicate() has found nothing.  Contact 0 is one to be created.
Edit(h) ==
  /\ At(h, "idle")
  /\ edits < MaxEdits /\ edits' = edits + 1
  /\ \E c \in Contact \ {Gone}, i \in Known \cup {0} :
       /\ ~Taken(c, i)
       /\ handler' = [handler EXCEPT ![h] = [Idle EXCEPT !.pc = "write", !.contact = c, !.id = i]]
  /\ Meet(Busy)
  /\ UNCHANGED <<records, store, batches, cut>>

\* The write, unless the contact is gone or an index refuses it.
Write(h) ==
  LET c == handler[h].contact
      i == handler[h].id
  IN  /\ At(h, "write")
      /\ \/ /\ i = 0 /\ ~Taken(c, 0)
            /\ created < MaxContacts
            /\ created' = created + 1
            /\ contact' = [contact EXCEPT ![created + 1] = c]
         \/ /\ i \in Known /\ ~Taken(c, i)
            /\ contact' = [contact EXCEPT ![i] = c]
            /\ UNCHANGED created
         \/ /\ Taken(c, i) \/ i \notin Known \cup {0}
            /\ UNCHANGED records
      /\ GoOn(h, Idle)
      /\ UNCHANGED <<store, batches, cut>>

Delete ==
  /\ edits < MaxEdits /\ edits' = edits + 1
  /\ \E i \in Known : contact' = [contact EXCEPT ![i] = Gone]
  /\ Meet(Busy)
  /\ UNCHANGED <<created, store, batches, handler, cut>>

-----------------------------------------------------------------------------
\* The process is restarted, and the store with it.
Crash ==
  /\ "crash" \in Faults
  /\ sessions' = {}
  /\ handler' = [h \in Handler |-> Idle]
  /\ cut' = cut \cup ({handler[h].batch : h \in Handler} \ {0})
  /\ UNCHANGED <<records, uploads, batches, edits, crowded>>

\* A database call of a handler fails, and with it the request.
Reject(h) ==
  /\ "reject" \in Faults
  /\ handler[h].pc \in {"load", "rows", "write"}
  /\ Fail(h)
  /\ UNCHANGED <<records, store, batches>>

Next ==
  \/ Analyze \/ Expire \/ Delete \/ Crash
  \/ \E h \in Handler :
       \/ Commit(h) \/ Load(h) \/ Insert(h) \/ Complete(h) \/ Forget(h)
       \/ \E k \in handler[h].todo :
            Keep(h, k) \/ Duplicate(h, k) \/ Update(h, k) \/ UpdateRefused(h, k)
       \/ Edit(h) \/ Write(h) \/ Reject(h)

Spec == Init /\ [][Next]_vars

-----------------------------------------------------------------------------
(***************************************************************************)
(* Properties.                                                             *)
(***************************************************************************)

Completed == {b \in DOMAIN batches : batches[b].status = "completed"}

Worked == {handler[h].batch : h \in Handler} \ {0}

Rows(f) == {k \in DOMAIN f : f[k].kind # "blank"}

(***************************************************************************)
(* The audit record of an import accounts for each row of its file once    *)
(* (import.service.ts:268), whatever it met.                               *)
(***************************************************************************)
RowsAddUp ==
  \A b \in Completed :
    LET n == batches[b].counts
    IN  n.created + n.updated + n.duplicate + n.failed = Cardinality(Rows(FileOf(b)))

(***************************************************************************)
(* A batch that is still processing has a request at work on it, unless    *)
(* the commit failed (import.service.ts:141, and :240 where nothing        *)
(* catches a refused update).                                              *)
(***************************************************************************)
ProcessingIsOwned ==
  \A b \in DOMAIN batches : b \in Completed \cup Worked \cup cut

(***************************************************************************)
(* An import that is not told to update leaves the contacts there are as   *)
(* they are (import.service.ts:228).                                       *)
(***************************************************************************)
OnlyUpdatesOverwrite ==
  [][\A h \in Handler :
       /\ At(h, "rows") /\ StrategyOf(h) # "update"
       /\ handler'[h] # handler[h]
       => \A i \in Known : contact'[i] = contact[i]]_vars

(***************************************************************************)
(* When a skipping import that met no other request completes, everybody   *)
(* in its file can be reached by a channel of theirs: a row dropped as a   *)
(* duplicate is one of somebody who is there (import.service.ts:228).      *)
(***************************************************************************)
NobodyIsLost ==
  [][\A b \in Completed' \ Completed :
       LET f == FileOf(b)
       IN  /\ batches[b].strategy = "skip" /\ b \notin crowded
           /\ \A k \in DOMAIN f : f[k].kind # "long"
           => \A k \in Drafts(f) : Taken(f[k], 0)]_vars

(***************************************************************************)
(* A commit that has been answered cannot be replayed                      *)
(* (import.service.spec.ts:224).                                           *)
(***************************************************************************)
CommitNotReplayed ==
  [][\A b \in DOMAIN batches' \ DOMAIN batches, done \in Completed \ Worked :
       batches'[b].session # batches[done].session]_vars

=============================================================================
