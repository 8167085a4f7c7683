---------------------------- MODULE ContactTimeline ----------------------------
(***************************************************************************)
(* The history of a contact: TimelineService of the server, which merges   *)
(* the calls, e-mails, notes and the import of a contact, and the page     *)
(* that loads it (contact-timeline.service.ts), adds and deletes notes     *)
(* and may be taken to another contact without being built anew.           *)
(*                                                                         *)
(* Time is a counter that every event of the server advances, so a record  *)
(* is known by the time it was created.                                    *)
(***************************************************************************)
EXTENDS Naturals, Sequences, FiniteSets, Functions

CONSTANTS Visited,
          Imported, \* those an import created
          Limit,    \* entries of a timeline, and of each source
          Loading,  \* loads that may be under way
          Day,      \* events of a day
          MaxTime   \* bound: the last event of the server

VARIABLES
  record,   \* calls, e-mails, notes and imports
  clock,    \* the last event
  open,     \* the contact of the page
  entries, isLoadingTimeline, error,
  load,     \* the loads under way
  savingNote,   \* the note being added
  deletingNotes, \* the notes being deleted
  mixed         \* history: answers that may have come in another order than their requests; bound: then the page is left

timelineVars == <<record, clock, open, entries, isLoadingTimeline, error, load, savingNote, deletingNotes, mixed>>

Kind == {"call", "email", "note", "import"}

ASSUME TimelineAssumption ==
  Imported \subseteq Visited /\ Limit \in Nat \ {0} /\ MaxTime \in Nat /\ Day \in Nat \ {0}

NoLoad == [pc |-> "none"]
NoNote == [pc |-> "none"]

\* callToTimelineEntry() and the others: what an entry takes from its record,
\* and when it occurred
TimelineEntry(kind, c, at) == [kind |-> kind, contact |-> c, created |-> at, at |-> at]

TimelineInit ==
  /\ record = {TimelineEntry("import", c, 0) : c \in Imported}
  /\ clock = 0 /\ open \in Visited
  /\ entries = << >> /\ isLoadingTimeline = TRUE /\ error = FALSE /\ mixed = FALSE
  /\ \E l \in Loading : load = [m \in Loading |-> IF m = l THEN [pc |-> "sent", contact |-> open] ELSE NoLoad]
  /\ savingNote = NoNote /\ deletingNotes = {}

-----------------------------------------------------------------------------
(***************************************************************************)
(* The server.                                                             *)
(***************************************************************************)

\* The elements of a finite set in an order: ahead[x] are those before x.
InOrder(S, ahead) == [k \in 1 .. Cardinality(S) |-> CHOOSE x \in S : Cardinality(ahead[x]) = k - 1]

\* sortByOccurredAtDesc()
Sorted(es) == InOrder(es, [e \in es |-> {f \in es : f.at > e.at}])

\* findCalls(), findEmails(), findNotes() and findImportBatch(): the last
\* Limit, by the time they were created
Source(kind, c) ==
  LET all == {e \in record : e.kind = kind /\ e.contact = c}
  IN  {e \in all : Cardinality({f \in all : f.created > e.created}) < Limit}

\* Mutant of Timeline: the sources are not sorted together.
TimelineBySource(c) ==
  LET found == Sorted(Source("call", c)) \o Sorted(Source("email", c)) \o
               Sorted(Source("note", c)) \o Sorted(Source("import", c))
  IN  SubSeq(found, 1, IF Len(found) < Limit THEN Len(found) ELSE Limit)

\* getContactTimeline(), for all kinds, as the page asks
Timeline(c) ==
  LET found == Sorted(UNION {Source(kind, c) : kind \in Kind})
  IN  SubSeq(found, 1, IF Len(found) < Limit THEN Len(found) ELSE Limit)

ServeTimeline(l) ==
  /\ load[l].pc = "sent"
  /\ load' = [load EXCEPT ![l] = [pc |-> "served", contact |-> @.contact, entries |-> Timeline(@.contact)]]
  /\ UNCHANGED <<record, clock, open, entries, isLoadingTimeline, error, savingNote, deletingNotes, mixed>>

\* createNote()
ServeNote ==
  LET note == TimelineEntry("note", savingNote.contact, clock + 1)
  IN  /\ savingNote.pc = "sent" /\ clock < MaxTime
      /\ clock' = clock + 1 /\ record' = record \cup {note}
      /\ savingNote' = [pc |-> "served", contact |-> savingNote.contact, note |-> note]
      /\ UNCHANGED <<open, entries, isLoadingTimeline, error, load, deletingNotes, mixed>>

\* deleteNote()
ServeDeleteNote(d) ==
  /\ d.pc = "sent" /\ record' = record \ {d.note}
  /\ deletingNotes' = (deletingNotes \ {d}) \cup {[d EXCEPT !.pc = "served"]}
  /\ UNCHANGED <<clock, open, entries, isLoadingTimeline, error, load, savingNote, mixed>>

\* A call is placed or a message composed elsewhere.
Happen(kind, c) ==
  /\ clock < MaxTime /\ clock' = clock + 1 /\ kind \in {"call", "email"}
  /\ record' = record \cup {TimelineEntry(kind, c, clock + 1)}
  /\ UNCHANGED <<open, entries, isLoadingTimeline, error, load, savingNote, deletingNotes, mixed>>

\* A message occurs when it is sent, once that is known.
SendMail(e) ==
  /\ e.kind = "email" /\ e.at = e.created /\ clock < MaxTime /\ clock' = clock + 1
  /\ record' = (record \ {e}) \cup {[e EXCEPT !.at = clock + 1]}
  /\ UNCHANGED <<open, entries, isLoadingTimeline, error, load, savingNote, deletingNotes, mixed>>

-----------------------------------------------------------------------------
(***************************************************************************)
(* The page.                                                               *)
(***************************************************************************)

Loads == {l \in Loading : load[l] # NoLoad}
UnderWay == Loads # {} \/ savingNote # NoNote \/ deletingNotes # {}

\* load(), for the contact of the route or again after an error.  What is
\* under way by then crosses it.
LoadTimeline(l, c) ==
  /\ ~mixed /\ load[l] = NoLoad /\ (c # open \/ error) /\ open' = c
  /\ load' = [load EXCEPT ![l] = [pc |-> "sent", contact |-> c]]
  /\ isLoadingTimeline' = TRUE /\ error' = FALSE /\ mixed' = (mixed \/ UnderWay)
  /\ UNCHANGED <<record, clock, entries, savingNote, deletingNotes>>

\* The answer is shown, whichever contact it is of.
Loaded(l) ==
  /\ load[l].pc = "served" /\ load' = [load EXCEPT ![l] = NoLoad]
  /\ entries' = load[l].entries /\ isLoadingTimeline' = FALSE
  /\ UNCHANGED <<record, clock, open, error, savingNote, deletingNotes, mixed>>

LoadFails(l) ==
  /\ load[l] # NoLoad /\ load' = [load EXCEPT ![l] = NoLoad]
  /\ error' = TRUE /\ isLoadingTimeline' = FALSE
  /\ UNCHANGED <<record, clock, open, entries, savingNote, deletingNotes, mixed>>

\* addNote(); the form stays while the history is loading.
AddNote ==
  /\ ~mixed /\ savingNote = NoNote /\ savingNote' = [pc |-> "sent", contact |-> open]
  /\ mixed' = (mixed \/ Loads # {})
  /\ UNCHANGED <<record, clock, open, entries, isLoadingTimeline, error, load, deletingNotes>>

\* The note is put first and the entries, which are in order, sorted again: it
\* goes behind those that are newer.
NoteAdded ==
  LET newer == Cardinality({i \in DOMAIN entries : entries[i].at > savingNote.note.at}) IN
  /\ savingNote.pc = "served" /\ savingNote' = NoNote
  /\ entries' = SubSeq(entries, 1, newer) \o <<savingNote.note>> \o SubSeq(entries, newer + 1, Len(entries))
  /\ UNCHANGED <<record, clock, open, isLoadingTimeline, error, load, deletingNotes, mixed>>

\* The note may have been created, its answer lost.
NoteFails ==
  /\ savingNote # NoNote /\ savingNote' = NoNote /\ mixed' = (mixed \/ savingNote.pc = "served")
  /\ UNCHANGED <<record, clock, open, entries, isLoadingTimeline, error, load, deletingNotes>>

DeleteNote(e) ==
  /\ ~mixed /\ e \in Range(entries) /\ e.kind = "note" /\ ~isLoadingTimeline /\ ~error
  /\ deletingNotes' = deletingNotes \cup {[pc |-> "sent", note |-> e]}
  /\ UNCHANGED <<record, clock, open, entries, isLoadingTimeline, error, load, savingNote, mixed>>

\* Mutant of NoteDeleted: only the first entry is looked at.
NoteDeletedFirst(d) ==
  /\ d.pc = "served" /\ deletingNotes' = deletingNotes \ {d}
  /\ entries' = IF entries # << >> /\ Head(entries) = d.note THEN Tail(entries) ELSE entries
  /\ UNCHANGED <<record, clock, open, isLoadingTimeline, error, load, savingNote, mixed>>

NoteDeleted(d) ==
  LET kept == {i \in DOMAIN entries : entries[i] # d.note}
      position == InOrder(kept, [i \in kept |-> {j \in kept : j < i}]) IN
  /\ d.pc = "served" /\ deletingNotes' = deletingNotes \ {d}
  /\ entries' = [k \in DOMAIN position |-> entries[position[k]]]
  /\ UNCHANGED <<record, clock, open, isLoadingTimeline, error, load, savingNote, mixed>>

DeleteNoteFails(d) ==
  /\ d \in deletingNotes /\ deletingNotes' = deletingNotes \ {d} /\ mixed' = (mixed \/ d.pc = "served")
  /\ UNCHANGED <<record, clock, open, entries, isLoadingTimeline, error, load, savingNote>>

\* visibleEntries: the places of those of the chosen kinds, or of all
Visible(kinds) == {i \in DOMAIN entries : kinds = {} \/ entries[i].kind \in kinds}

\* dayLabel()
DayOf(e) == e.at \div Day

\* groups: the day of each visible entry that is not of the day of the one before
Groups(kinds) ==
  LET Starts(i) == \A j \in Visible(kinds) : j < i /\ DayOf(entries[j]) = DayOf(entries[i]) =>
                     \E k \in Visible(kinds) : j < k /\ k < i
  IN  [i \in {k \in Visible(kinds) : Starts(k)} |-> DayOf(entries[i])]

TimelineNext ==
  \/ \E l \in Loading : \/ ServeTimeline(l) \/ Loaded(l) \/ LoadFails(l)
                     \/ \E c \in Visited : LoadTimeline(l, c)
  \/ ServeNote \/ AddNote \/ NoteAdded \/ NoteFails
  \/ \E d \in deletingNotes : ServeDeleteNote(d) \/ NoteDeleted(d) \/ DeleteNoteFails(d)
  \/ \E e \in Range(entries) : DeleteNote(e)
  \/ \E kind \in {"call", "email"}, c \in Visited : Happen(kind, c)
  \/ \E e \in record : SendMail(e)

TimelineSpec == TimelineInit /\ [][TimelineNext]_timelineVars

-----------------------------------------------------------------------------
(***************************************************************************)
(* Properties.                                                             *)
(***************************************************************************)

OfContact(c) == {e \in record : e.contact = c}

(***************************************************************************)
(* With nothing under way the page shows the notes of its contact, each    *)
(* once, without a gap and with all of a day, of any kinds, under one      *)
(* heading: it puts in and takes out the notes the server did.  A load     *)
(* that failed, or that crossed another load or a note (whose answers are  *)
(* applied in the order they come), and a lost answer are excepted.        *)
(***************************************************************************)
NotesAreCurrent ==
  ~UnderWay /\ ~error /\ ~mixed =>
    /\ \A i, j \in DOMAIN entries : i # j => entries[i] # entries[j]
    /\ \A kinds \in SUBSET Kind : IsInjective(Groups(kinds))
    /\ Range(entries) \subseteq {[e EXCEPT !.at = at] : e \in OfContact(open), at \in 0 .. clock}
    /\ \A e \in OfContact(open), i \in DOMAIN entries :
         e.kind = "note" /\ e.at > entries[i].at => e \in Range(entries)

(***************************************************************************)
(* The history is of the contact's last events of every kind, though each  *)
(* source is cut before they are merged; unless a message was sent after   *)
(* a newer one was composed, for messages are cut by their composition and *)
(* merged by their sending.                                                *)
(***************************************************************************)
TimelineIsTheLatest ==
  \A c \in Visited :
    (\A d, e \in OfContact(c) : d.kind = e.kind /\ d.created < e.created => d.at < e.at) =>
      \A e \in OfContact(c) :
        e \in Range(Timeline(c)) <=> Cardinality({f \in OfContact(c) : f.at > e.at}) < Limit

(***************************************************************************)
(* What the history answers for: what the server takes and the page keeps. *)
(***************************************************************************)
HistoryIsTrue == NotesAreCurrent /\ TimelineIsTheLatest

==============================================================================
