------------------------------ MODULE JobQueue ------------------------------
(***************************************************************************)
(* What the QueueDriver interface of                                       *)
(* backend/src/infrastructure/queue/job-queue.ts promises its callers,     *)
(* whichever driver stands behind it: jobs run one at a time, two starts   *)
(* are at least Interval apart, a job is attempted again only after a      *)
(* RetryableJobError and never beyond its budget, and only closing the     *)
(* queue lets a job go that still had something to do.                     *)
(***************************************************************************)
EXTENDS Naturals

CONSTANTS Job,       \* the jobs that may be added; an id is used once
          Interval,  \* the least time between two starts (the throttle)
          Budgets    \* how many attempts a job may be given

VARIABLES state,     \* where each job stands
          left,      \* attempts each job may still start
          rest,      \* time left until the next start is allowed
          open       \* close() has not been called

vars == <<state, left, rest, open>>

Init ==
  /\ state = [j \in Job |-> "new"]
  /\ left = [j \in Job |-> 0]
  /\ rest = 0
  /\ open = TRUE

Add(j) ==
  /\ open
  /\ state[j] = "new"
  /\ state' = [state EXCEPT ![j] = "waiting"]
  /\ \E n \in Budgets : left' = [left EXCEPT ![j] = n]
  /\ UNCHANGED <<rest, open>>

(***************************************************************************)
(* A job leaves its handler: finished (or failed for good), to wait for    *)
(* another attempt, or, the queue being closed, dropped.                   *)
(***************************************************************************)
Fates(j) ==
  {"done"} \cup (IF left[j] > 0 THEN {IF open THEN "waiting" ELSE "lost"} ELSE {})

Leave(j, s) ==
  /\ state[j] = "active"
  /\ s \in Fates(j)
  /\ state' = [state EXCEPT ![j] = s]
  /\ left' = IF s = "waiting" THEN left ELSE [left EXCEPT ![j] = 0]
  /\ UNCHANGED <<rest, open>>

MayStart == open /\ rest = 0

Start(k) ==
  /\ MayStart
  /\ \A j \in Job : state[j] # "active"
  /\ state[k] = "waiting"
  /\ left[k] > 0
  /\ state' = [state EXCEPT ![k] = "active"]
  /\ left' = [left EXCEPT ![k] = @ - 1]
  /\ rest' = Interval
  /\ UNCHANGED open

\* A driver may start the next job as it releases the last one, or the same
\* job again.
Handover(j, s, k) ==
  /\ MayStart
  /\ state[j] = "active"
  /\ \A i \in Job \ {j} : state[i] # "active"
  /\ s \in Fates(j)
  /\ LET freed == [state EXCEPT ![j] = s]
         spent == IF s = "waiting" THEN left ELSE [left EXCEPT ![j] = 0]
     IN  /\ freed[k] = "waiting"
         /\ spent[k] > 0
         /\ state' = [freed EXCEPT ![k] = "active"]
         /\ left' = [spent EXCEPT ![k] = @ - 1]
  /\ rest' = Interval
  /\ UNCHANGED open

Close ==
  /\ open
  /\ open' = FALSE
  /\ state' = [j \in Job |-> IF state[j] = "waiting" THEN "lost" ELSE state[j]]
  /\ left' = [j \in Job |-> IF state[j] = "waiting" THEN 0 ELSE left[j]]
  /\ UNCHANGED rest

Wait ==
  /\ rest > 0
  /\ rest' = rest - 1
  /\ UNCHANGED <<state, left, open>>

Next ==
  \/ \E j \in Job : Add(j) \/ Start(j)
  \/ \E j \in Job, s \in {"done", "waiting", "lost"} : Leave(j, s)
  \/ \E j, k \in Job, s \in {"done", "waiting", "lost"} : Handover(j, s, k)
  \/ Close
  \/ Wait

Spec == Init /\ [][Next]_vars

=============================================================================
