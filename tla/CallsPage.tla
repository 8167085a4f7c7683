------------------------------ MODULE CallsPage ------------------------------
(***************************************************************************)
(* The calling screen (frontend/src/app/features/calls/calls-page/): the   *)
(* queue the user works through, the call being placed, the one shown, and *)
(* the timer that asks the server how it stands.  The requests under way   *)
(* are served, and answered, in any order.  What a record goes through on  *)
(* the server is in Calls; here it is live until it is over.  Contacts,    *)
(* numbers and the list of past calls are left out.                        *)
(***************************************************************************)
EXTENDS Naturals, FiniteSets

CONSTANTS Ask,       \* requests about a call that may be under way at once
          MaxCalls,  \* bound: calls placed
          MaxQueue   \* bound: contacts with a phone number

VARIABLES
  view,      \* what the screen shows: "loading", "error" or "ready"
  queue,     \* how many contacts are queued
  position,  \* the one whose turn it is; past the last when all are done
  starting,  \* where the request for a call stands: "no", "sent", "placed", "refused"
  active,    \* the call shown, and whether it was live when asked
  polling,   \* the timer is running
  asked,     \* the requests about a call that are under way
  callCount, \* how many calls the server has placed
  over,      \* those that have ended
  givenIds,  \* history: calls the user has turned away from
  misled     \* history: an answer arrived that was no longer asked for

callsVars ==
  <<view, queue, position, starting, active, polling, asked, callCount, over, givenIds, misled>>

ASSUME CallsAssumption == MaxCalls \in Nat /\ MaxQueue \in Nat /\ IsFiniteSet(Ask)

Call == 1 .. MaxCalls
NoCall == [call |-> 0, live |-> FALSE]
Free == [kind |-> "none", call |-> 0, live |-> FALSE, served |-> FALSE, late |-> FALSE]

CallsInit ==
  /\ view = "loading" /\ queue = 0 /\ position = 0
  /\ starting = "no" /\ active = NoCall /\ polling = FALSE
  /\ asked = [a \in Ask |-> Free]
  /\ callCount = 0 /\ over = {} /\ givenIds = {} /\ misled = FALSE

-----------------------------------------------------------------------------
IsCallLive == active.live
CanStartCall == ~IsCallLive /\ starting = "no"

\* The requests under way ask about a call that is no longer what is shown.
Overtaken == [a \in Ask |-> IF asked[a].kind = "none" THEN Free ELSE [asked[a] EXCEPT !.late = TRUE]]

\* load(), when the screen is opened and when the user tries again
LoadCalls(outcome) ==
  /\ \/ view = "loading" /\ view' = outcome
     \/ view = "error" /\ view' = "loading"
  /\ UNCHANGED <<queue, position, starting, active, polling, asked, callCount, over, givenIds, misled>>

\* buildQueue(), queueAllWithPhone() and clearQueue()
BuildQueue(n) ==
  /\ view = "ready"
  /\ queue' = n /\ position' = 0
  /\ UNCHANGED <<view, starting, active, polling, asked, callCount, over, givenIds, misled>>

SkipToNext ==
  /\ view = "ready" /\ position < queue
  /\ position' = position + 1
  /\ active' = NoCall
  /\ givenIds' = IF active.live THEN givenIds \cup {active.call} ELSE givenIds
  /\ asked' = Overtaken
  /\ UNCHANGED <<view, queue, starting, polling, callCount, over, misled>>

\* Mutant of CallContact: the button is not held while a call is being placed.
CallContactAgain ==
  /\ view = "ready" /\ ~IsCallLive /\ starting \in {"no", "placed"}
  /\ starting' = "sent"
  /\ UNCHANGED <<view, queue, position, active, polling, asked, callCount, over, givenIds, misled>>

CallContact ==
  /\ view = "ready" /\ CanStartCall
  /\ starting' = "sent"
  /\ UNCHANGED <<view, queue, position, active, polling, asked, callCount, over, givenIds, misled>>

\* The server places the call, or refuses the number.
PlaceCall ==
  /\ starting = "sent"
  /\ \/ callCount < MaxCalls /\ callCount' = callCount + 1 /\ starting' = "placed"
     \/ starting' = "refused" /\ UNCHANGED callCount
  /\ UNCHANGED <<view, queue, position, active, polling, asked, over, givenIds, misled>>

\* Mutant of Started: the timer is not armed again.
StartedUnpolled ==
  /\ starting = "placed" /\ starting' = "no"
  /\ active' = [call |-> callCount, live |-> TRUE]
  /\ asked' = Overtaken
  /\ UNCHANGED <<view, queue, position, polling, callCount, over, givenIds, misled>>

\* The answer for the call that was placed.
Started ==
  /\ starting = "placed" /\ starting' = "no"
  /\ active' = [call |-> callCount, live |-> TRUE]
  /\ polling' = TRUE
  /\ asked' = Overtaken
  /\ UNCHANGED <<view, queue, position, callCount, over, givenIds, misled>>

\* A call that was refused, or whose answer is lost: the user may try again.
StartFails ==
  /\ starting \in {"placed", "refused"} /\ starting' = "no"
  /\ givenIds' = IF starting = "placed" THEN givenIds \cup {callCount} ELSE givenIds
  /\ UNCHANGED <<view, queue, position, active, polling, asked, callCount, over, misled>>

\* cancelActiveCall(): the button is there as long as the call is live.
CancelActiveCall(a) ==
  /\ view = "ready" /\ IsCallLive /\ asked[a] = Free
  /\ asked' = [asked EXCEPT ![a] = [Free EXCEPT !.kind = "cancel", !.call = active.call]]
  /\ UNCHANGED <<view, queue, position, starting, active, polling, callCount, over, givenIds, misled>>

\* The timer: pollActiveCall() up to its request.
Poll(a) ==
  /\ polling
  /\ IF ~IsCallLive
     THEN polling' = FALSE /\ UNCHANGED asked
     ELSE /\ asked[a] = Free
          /\ asked' = [asked EXCEPT ![a] = [Free EXCEPT !.kind = "refresh", !.call = active.call]]
          /\ UNCHANGED polling
  /\ UNCHANGED <<view, queue, position, starting, active, callCount, over, givenIds, misled>>

\* The server looks at the call, or hangs up.
Serve(a) ==
  /\ asked[a].kind # "none" /\ ~asked[a].served
  /\ over' = IF asked[a].kind = "cancel" THEN over \cup {asked[a].call} ELSE over
  /\ asked' = [asked EXCEPT ![a].served = TRUE, ![a].live = asked[a].call \notin over']
  /\ UNCHANGED <<view, queue, position, starting, active, polling, callCount, givenIds, misled>>

\* Its answer replaces the call shown, whichever that is now.
Answered(a) ==
  LET r == asked[a] IN
  /\ r.served
  /\ active' = [call |-> r.call, live |-> r.live]
  /\ polling' = (polling /\ r.kind = "refresh" /\ r.live)
  /\ misled' = (misled \/ (r.late /\ active' # active))
  /\ asked' = [(IF active' # active THEN Overtaken ELSE asked) EXCEPT ![a] = Free]
  /\ UNCHANGED <<view, queue, position, starting, callCount, over, givenIds>>

\* The request fails, before or after it was served; a refusal to cancel a
\* call that is over is one of these.
AskFails(a) ==
  /\ asked[a].kind # "none"
  /\ asked' = [asked EXCEPT ![a] = Free]
  /\ UNCHANGED <<view, queue, position, starting, active, polling, callCount, over, givenIds, misled>>

\* A party hangs up, or never answers.
CallEnds(c) ==
  /\ c <= callCount /\ c \notin over
  /\ over' = over \cup {c}
  /\ UNCHANGED <<view, queue, position, starting, active, polling, asked, callCount, givenIds, misled>>

\* Bound: what comes of a late answer is not followed.
CallsNext ==
  /\ ~misled
  /\ \/ \E v \in {"ready", "error"} : LoadCalls(v)
     \/ \E n \in 0 .. MaxQueue : BuildQueue(n)
     \/ SkipToNext \/ CallContact \/ PlaceCall \/ Started \/ StartFails
     \/ \E a \in Ask : CancelActiveCall(a) \/ Poll(a) \/ Serve(a) \/ Answered(a) \/ AskFails(a)
     \/ \E c \in Call : CallEnds(c)

CallsSpec == CallsInit /\ [][CallsNext]_callsVars

-----------------------------------------------------------------------------
(***************************************************************************)
(* Properties.                                                             *)
(***************************************************************************)

(***************************************************************************)
(* A call shown as live is asked about until it ends ("without polling a   *)
(* call could appear to ring forever", calls-page.service.ts:200).         *)
(***************************************************************************)
LiveIsPolled == IsCallLive => polling

(***************************************************************************)
(* It is, as long as every answer was to the last question: requests that  *)
(* overtake each other, or a skip or a new call while one is under way,    *)
(* are what breaks it.                                                     *)
(***************************************************************************)
LiveIsPolledInOrder == ~misled => LiveIsPolled

(***************************************************************************)
(* The user is on one call at a time, of those not turned away from (by a  *)
(* skip, or by a start that was reported as failed) and as long as no      *)
(* answer came late: the screen lets nobody dial while a call it placed    *)
(* goes on.                                                                *)
(***************************************************************************)
OneCallAtATime == ~misled => Cardinality((1 .. callCount) \ (over \cup givenIds)) <= 1

(***************************************************************************)
(* What the calls screen answers for: it follows the one call that is on.  *)
(***************************************************************************)
CallIsFollowed == LiveIsPolledInOrder /\ OneCallAtATime

==============================================================================
