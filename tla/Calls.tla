-------------------------------- MODULE Calls --------------------------------
(***************************************************************************)
(* Outbound calls: the requests and webhooks of                            *)
(* backend/src/modules/calls/call.service.ts, the state machine of         *)
(* call-state-machine.ts they consult, and the record they write.          *)
(*                                                                         *)
(* Each database or provider round trip is a step, so the handlers of a    *)
(* call interleave at every await.  The provider is external: its line     *)
(* moves as the state machine expects lines to move, and what it has ever  *)
(* reported may be delivered late, again, in any order or never, so the    *)
(* reports under way are a set that delivery does not empty.  A webhook    *)
(* whose signature does not verify changes nothing and is left out, as are *)
(* durations and failure texts.  A database call that rejects ends its     *)
(* handler as a restart does.                                              *)
(*                                                                         *)
(* The pages that started the calls are external too                       *)
(* (calls-page.service.ts:145-231, CallsPage has one of them in full): a   *)
(* page polls the call it is on until an answer says that it has ended, or *)
(* until the user skips on, leaves or reloads.                             *)
(***************************************************************************)
EXTENDS Naturals, FiniteSets

CONSTANTS Call,     \* calls, named by the id the provider gives them
          Handler,  \* requests and webhooks that may be served at once
          Placed,   \* what the provider may answer to placeCall
          Faults,   \* "provider": its requests may fail; "crash": restarts
          None

VARIABLES
  line,       \* the provider's own status of each call; "none" before it
  reports,    \* what it has reported of each call, in its words
  status,     \* the record's status; "none" while there is no record
  answered,   \* calls whose answeredAt is set
  touched,    \* calls whose contact was marked as contacted
  handler,    \* where each handler stands
  followed,   \* calls some page polls
  left,       \* history: calls whose page went on without their end
  connected,  \* history: calls answered at the other end, or hung up by us
  unreached,  \* history: calls a cancel has not reached at the provider
  contended   \* history: calls two handlers have worked on at once

records == <<status, answered, touched>>
provider == <<line, reports, connected>>
page == <<followed, left>>
vars == <<line, reports, status, answered, touched, handler, followed, left,
          connected, unreached, contended>>

Terminal == {"completed", "no_answer", "busy", "failed", "canceled"}
Statuses == {"queued", "initiated", "ringing", "in_progress"} \cup Terminal

\* "other" stands for every word mapExotelStatus does not know.
Words == Statuses \cup {"other"}

ASSUME CallAssumption ==
  /\ Placed \subseteq Words
  /\ Faults \subseteq {"provider", "crash"}
  /\ None \notin Call

Pcs == {"idle", "create", "apply", "touch", "hangup", "cancel", "ask", "find",
        "reread"}

Idle == [pc |-> "idle", call |-> None, to |-> None, polls |-> FALSE]

TypeOK ==
  /\ line \in [Call -> Statuses \cup {"none"}]
  /\ reports \in [Call -> SUBSET Words]
  /\ status \in [Call -> Statuses \cup {"none"}]
  /\ answered \subseteq Call
  /\ touched \subseteq Call
  /\ handler \in [Handler -> [pc : Pcs, call : Call \cup {None},
                              to : Statuses \cup {None}, polls : BOOLEAN]]
  /\ followed \subseteq Call
  /\ left \subseteq Call
  /\ connected \subseteq Call
  /\ unreached \subseteq Call
  /\ contended \subseteq Call

Init ==
  /\ line = [c \in Call |-> "none"]
  /\ reports = [c \in Call |-> {}]
  /\ status = [c \in Call |-> "none"]
  /\ handler = [h \in Handler |-> Idle]
  /\ answered = {} /\ touched = {}
  /\ followed = {} /\ left = {}
  /\ connected = {} /\ unreached = {} /\ contended = {}

-----------------------------------------------------------------------------
(***************************************************************************)
(* The state machine and the provider's vocabulary.                        *)
(***************************************************************************)

\* Mutant of Allowed: anything new is applied.
AllowedBlindly(from) == Statuses \ {from}

\* Mutant of Allowed: a connected call is not expected to fail.
AllowedNoFailure(from) ==
  CASE from = "queued"      -> Statuses \ {"queued"}
    [] from = "initiated"   -> Statuses \ {"queued", "initiated"}
    [] from = "ringing"     -> Terminal \cup {"in_progress"}
    [] from = "in_progress" -> {"completed"}
    [] OTHER                -> {}

Allowed(from) ==
  CASE from = "queued"      -> Statuses \ {"queued"}
    [] from = "initiated"   -> Statuses \ {"queued", "initiated"}
    [] from = "ringing"     -> Terminal \cup {"in_progress"}
    [] from = "in_progress" -> {"completed", "failed"}
    [] OTHER                -> {}

\* Mutants of IsAnswered and of Mapped.
IsAnsweredWhenRinging(s) == s \in {"ringing", "in_progress", "completed"}
MappedAsCompleted(w) == IF w = "other" THEN "completed" ELSE w

IsAnswered(s) == s \in {"in_progress", "completed"}

Mapped(w) == IF w = "other" THEN "initiated" ELSE w

-----------------------------------------------------------------------------
(***************************************************************************)
(* The provider's side.  A line is completed once it has been connected,   *)
(* or by our hang-up.                                                      *)
(***************************************************************************)

\* How far a call has got.
Stage(s) ==
  CASE s = "queued"      -> 0
    [] s = "initiated"   -> 1
    [] s = "ringing"     -> 2
    [] s = "in_progress" -> 3
    [] OTHER             -> 4

Live(s) == s \in Statuses \ Terminal

OnLine(from) ==
  IF from = "in_progress"
  THEN {"completed", "failed"}
  ELSE {s \in Statuses \ {"completed"} : Stage(from) < Stage(s)}

LineMoves(c) ==
  /\ Live(line[c])
  /\ \E s \in OnLine(line[c]) :
       /\ line' = [line EXCEPT ![c] = s]
       /\ reports' = [reports EXCEPT ![c] = @ \cup {s}]
       /\ connected' = IF s = "in_progress" THEN connected \cup {c} ELSE connected
  /\ UNCHANGED <<records, handler, page, unreached, contended>>

\* It reports something the program has no word for.
LineMutters(c) ==
  /\ Live(line[c])
  /\ reports' = [reports EXCEPT ![c] = @ \cup {"other"}]
  /\ UNCHANGED <<line, records, handler, page, connected, unreached, contended>>

-----------------------------------------------------------------------------
(***************************************************************************)
(* Handlers.                                                               *)
(***************************************************************************)

At(h, pc) == handler[h].pc = pc

On(h) == handler[h].call

WorkingOn(c) == {h \in Handler : On(h) = c}

\* Handler h takes up call c, or goes on with it.  A poll begins with asking.
Begin(h, pc, c, to) ==
  /\ handler' = [handler EXCEPT ![h] =
                   [pc |-> pc, call |-> c, to |-> to,
                    polls |-> pc = "ask" \/ handler[h].polls]]
  /\ contended' = IF WorkingOn(c) \subseteq {h} THEN contended ELSE contended \cup {c}

End(h) ==
  /\ handler' = [handler EXCEPT ![h] = Idle]
  /\ UNCHANGED contended

\* The event is dealt with; a poll still reads the record to answer with it.
Dealt(h) ==
  IF handler[h].polls THEN Begin(h, "reread", On(h), None) ELSE End(h)

(***************************************************************************)
(* The page of call c takes in what it hears of the call, or the answer is *)
(* lost or comes when the user is gone.  An end stops its timer; a live    *)
(* call that it had left may be the one it is on again.                    *)
(***************************************************************************)
Hears(c) ==
  /\ \/ UNCHANGED followed
     \/ ~Live(status[c]) /\ followed' = followed \ {c}
     \/ Live(status[c]) /\ c \in left /\ followed' = followed \cup {c}
  /\ UNCHANGED left

\* startCall(), up to the provider's answer.
PlaceCall(h, c) ==
  /\ At(h, "idle")
  /\ line[c] = "none"
  /\ \E w \in Placed :
       /\ line' = [line EXCEPT ![c] = Mapped(w)]
       /\ connected' = IF Mapped(w) \in {"in_progress", "completed"}
                       THEN connected \cup {c} ELSE connected
       /\ \/ Begin(h, "create", c, Mapped(w))
          \* The call is placed, but the request for it times out.
          \/ "provider" \in Faults /\ UNCHANGED <<handler, contended>>
  /\ UNCHANGED <<reports, records, page, unreached>>

\* Only then the record is created, and the page that hears of it follows it.
CreateRecord(h) ==
  /\ At(h, "create")
  /\ status' = [status EXCEPT ![On(h)] = handler[h].to]
  /\ End(h)
  /\ followed' \in {followed, followed \cup {On(h)}}
  /\ UNCHANGED <<provider, answered, touched, left, unreached>>

(***************************************************************************)
(* applyEvent(), up to its write: the record is read and the event checked *)
(* against the state machine.                                              *)
(***************************************************************************)
ReadForEvent(h, c, s) ==
  IF s \in Allowed(status[c])
  THEN Begin(h, "apply", c, s)
  ELSE Dealt(h)

\* handleWebhook(): a report is delivered; one of an unknown call is dropped.
Webhook(h, c) ==
  /\ At(h, "idle")
  /\ \E w \in reports[c] :
       IF status[c] = "none" THEN End(h) ELSE ReadForEvent(h, c, Mapped(w))
  /\ UNCHANGED <<provider, records, page, unreached>>

\* applyStatus() with what the event carries.
Apply(h) ==
  /\ At(h, "apply")
  /\ status' = [status EXCEPT ![On(h)] = handler[h].to]
  /\ IF IsAnswered(handler[h].to)
     THEN /\ answered' = answered \cup {On(h)}
          /\ Begin(h, "touch", On(h), None)
     ELSE Dealt(h) /\ UNCHANGED answered
  /\ UNCHANGED <<provider, touched, page, unreached>>

Touch(h) ==
  /\ At(h, "touch")
  /\ touched' = touched \cup {On(h)}
  /\ Dealt(h)
  /\ UNCHANGED <<provider, status, answered, page, unreached>>

\* cancelCall(): the record is read; a finished call is refused ...
Cancel(h, c) ==
  /\ At(h, "idle")
  /\ Live(status[c])
  /\ Begin(h, "hangup", c, None)
  /\ UNCHANGED <<provider, records, page, unreached>>

\* ... the provider is asked to hang up, which it reports as completed ...
HangUp(h) ==
  /\ At(h, "hangup")
  /\ Begin(h, "cancel", On(h), None)
  /\ \/ /\ Live(line[On(h)])
        /\ line' = [line EXCEPT ![On(h)] = "completed"]
        /\ reports' = [reports EXCEPT ![On(h)] = @ \cup {"completed"}]
        /\ connected' = connected \cup {On(h)}
        /\ UNCHANGED unreached
     \/ /\ ~Live(line[On(h)])
        /\ UNCHANGED <<provider, unreached>>
     \/ /\ "provider" \in Faults
        /\ unreached' = unreached \cup {On(h)}
        /\ UNCHANGED provider
  /\ UNCHANGED <<records, page>>

\* ... and the record is written whatever it says by now, which ends the
\* polling of the page that asked for it.
RecordCancel(h) ==
  /\ At(h, "cancel")
  /\ status' = [status EXCEPT ![On(h)] = "canceled"]
  /\ End(h)
  /\ followed' \in {followed, followed \ {On(h)}}
  /\ UNCHANGED <<provider, answered, touched, left, unreached>>

\* refreshCall(), which only a page on the call asks for: a finished call is
\* answered as it is; otherwise ...
Refresh(h, c) ==
  /\ At(h, "idle")
  /\ c \in followed
  /\ IF Live(status[c])
     THEN Begin(h, "ask", c, None) /\ UNCHANGED page
     ELSE Hears(c) /\ UNCHANGED <<handler, contended>>
  /\ UNCHANGED <<provider, records, unreached>>

\* ... the provider is asked for the line's status ...
Ask(h) ==
  /\ At(h, "ask")
  /\ Begin(h, "find", On(h), line[On(h)])
  /\ UNCHANGED <<provider, records, page, unreached>>

AskFails(h) ==
  /\ "provider" \in Faults
  /\ At(h, "ask")
  /\ End(h)
  /\ UNCHANGED <<provider, records, page, unreached>>

\* ... and the answer goes the way of a webhook.
Find(h) ==
  /\ At(h, "find")
  /\ ReadForEvent(h, On(h), handler[h].to)
  /\ UNCHANGED <<provider, records, page, unreached>>

\* The record is read again, and the page told what it says by now.
Reread(h) ==
  /\ At(h, "reread")
  /\ Hears(On(h))
  /\ End(h)
  /\ UNCHANGED <<provider, records, unreached>>

\* The user skips on, leaves or reloads, or a late answer puts another call in
\* the place of this one: nothing polls it any more.
Leave(c) ==
  /\ c \in followed
  /\ followed' = followed \ {c}
  /\ left' = left \cup {c}
  /\ UNCHANGED <<provider, records, handler, unreached, contended>>

\* The process is restarted; what the handlers had in hand is gone.
Crash ==
  /\ "crash" \in Faults
  /\ handler' = [h \in Handler |-> Idle]
  /\ UNCHANGED <<provider, records, page, unreached, contended>>

-----------------------------------------------------------------------------
Proceed(h) ==
  \/ CreateRecord(h) \/ Apply(h) \/ Touch(h)
  \/ HangUp(h) \/ RecordCancel(h) \/ Ask(h) \/ Find(h) \/ Reread(h)

Next ==
  \/ \E c \in Call : LineMoves(c) \/ LineMutters(c) \/ Leave(c)
  \/ \E h \in Handler, c \in Call :
       PlaceCall(h, c) \/ Webhook(h, c) \/ Cancel(h, c) \/ Refresh(h, c)
  \/ \E h \in Handler : Proceed(h)
  \/ \E h \in Handler : AskFails(h)
  \/ Crash

Spec == Init /\ [][Next]_vars

(***************************************************************************)
(* A line does not ring or talk for ever (placeCall sets both limits).     *)
(* While a page is on a call its timer asks for a refresh again and again  *)
(* (calls-page.service.ts:203), and of those polls not every one meets a   *)
(* failed request or a restart.  Handlers go on.  Nothing refreshes a call *)
(* no page is on, and no webhook has to arrive.                            *)
(***************************************************************************)
PollsOf(c) == {h \in Handler : On(h) = c /\ handler[h].polls}

Fairness ==
  /\ WF_vars(\E h \in Handler : Proceed(h))
  /\ \A c \in Call :
       /\ WF_vars(LineMoves(c))
       /\ SF_vars(\E h \in Handler : Refresh(h, c))
       /\ SF_vars(\E h \in PollsOf(c) : Ask(h))
       /\ SF_vars(\E h \in PollsOf(c) : Find(h))
       /\ SF_vars(\E h \in PollsOf(c) : Apply(h))

FairSpec == Spec /\ Fairness

-----------------------------------------------------------------------------
(***************************************************************************)
(* Properties.                                                             *)
(***************************************************************************)

Finished(c) == status[c] \in Terminal

(***************************************************************************)
(* The outcome shown is real, however reports and requests overtake each   *)
(* other: a finished record says what the line ended as, or that it was    *)
(* canceled, and then the line is down too, unless the provider did not    *)
(* take the cancel.  A word nobody knows never ends a call                 *)
(* (exotel-provider.ts, mapExotelStatus).                                  *)
(***************************************************************************)
OutcomeIsReal ==
  \A c \in Call :
    Finished(c) => /\ status[c] \in {line[c], "canceled"}
                   /\ line[c] \in Terminal \/ c \in unreached

(***************************************************************************)
(* Only a call that was really answered counts as one (call.service.ts:    *)
(* "A connected call is a real touchpoint; an unanswered one is not"),     *)
(* but for those we hung up, which the provider reports as completed.      *)
(***************************************************************************)
AnsweredWasConnected ==
  answered \cup touched \subseteq connected

(***************************************************************************)
(* On a call that two handlers never worked on at once, the record only    *)
(* moves forward (call-state-machine.ts:11): late, repeated and unordered  *)
(* reports do not take it back, nor from one outcome to another.           *)
(***************************************************************************)
ForwardOnly ==
  [][\A c \in Call \ contended' :
       status[c] \notin {"none", status'[c]} => Stage(status[c]) < Stage(status'[c])]_vars

(***************************************************************************)
(* The record exists before the provider is called, so that a webhook has  *)
(* something to attach to (call.service.ts:95).                            *)
(***************************************************************************)
ReportsFindTheirCall ==
  \A c \in Call : reports[c] # {} => status[c] # "none"

(***************************************************************************)
(* "Webhooks can be lost, so without polling a call could appear to ring   *)
(* forever" (calls-page.service.ts:198): with every webhook lost or late,  *)
(* polling brings each call that a page is on to an end that stays, unless *)
(* the page leaves it first.  Of a call that two handlers worked on at     *)
(* once only that it comes to an end: the polling stops there, and a write *)
(* still under way may set the record back to a live status for good.      *)
(***************************************************************************)
EveryCallEnds ==
  \A c \in Call :
    c \in followed ~> \/ c \in left
                      \/ []Finished(c)
                      \/ c \in contended /\ Finished(c)

=============================================================================
