--------------------------- MODULE InProcessQueue ---------------------------
(***************************************************************************)
(* The single-process queue driver,                                        *)
(* backend/src/infrastructure/queue/in-process-queue.ts.                   *)
(*                                                                         *)
(* Time is kept relative: instead of Date.now() and absolute deadlines the *)
(* state holds what is left of each delay, and Tick lets a unit of time    *)
(* pass.  jobs[i].wait is runAfter - now, gap is lastStartedAt +           *)
(* intervalMs - now, and timer is what is left of the pending setTimeout,  *)
(* all cut off at 0, so `runAfter <= now' is wait = 0 and `now -           *)
(* lastStartedAt < intervalMs' is gap > 0.                                 *)
(*                                                                         *)
(* Everything between two awaits of the driver is one step: the code runs  *)
(* on one thread, so a timer callback runs drain() up to the await on the  *)
(* handler, and a handler's return runs on to the next await or to the end *)
(* of the drain.                                                           *)
(***************************************************************************)
EXTENDS Integers, Sequences, SequencesExt, FiniteSets

CONSTANTS Job,         \* job ids (randomUUID: each is used once)
          Interval,    \* intervalMs
          BackoffBase, \* backoffBaseMs
          RetryAfter,  \* the pause a RetryableJobError may ask for itself
          Delays,      \* values of JobOptions.delayMs
          Budgets,     \* values of JobOptions.attempts (or the default)
          Slack        \* how early, at most, a timer may fire

\* The pause before the attempt after `attempt'.
Backoff(attempt) == BackoffBase * 2^(attempt - 1)

ASSUME QueueAssumption ==
  /\ Interval \in Nat
  /\ RetryAfter \in Nat
  /\ Delays \subseteq Nat
  /\ Budgets \subseteq Nat \ {0}
  /\ Slack \in Nat
  /\ \A b \in Budgets : \A a \in 1 .. b : Backoff(a) \in Nat

VARIABLES
  jobs,         \* the array of waiting jobs
  hasHandler,   \* process() has been called
  isDraining,
  isClosed,
  gap,          \* time left until lastStartedAt + intervalMs
  timer,        \* time left until the pending drain, or NoTimer
  running,      \* the handler invocations in flight (activeCount of them)
  fate          \* history: what became of each job

vars == <<jobs, hasHandler, isDraining, isClosed, gap, timer, running, fate>>

NoTimer == -1

QueuedJob == [job : Job, attempt : Nat, budget : Budgets, wait : Nat]
Running   == [job : Job, attempt : Nat \ {0}, budget : Budgets]
Fates     == {"new", "live", "done", "lost"}

TypeOK ==
  /\ jobs \in Seq(QueuedJob)
  /\ hasHandler \in BOOLEAN
  /\ isDraining \in BOOLEAN
  /\ isClosed \in BOOLEAN
  /\ gap \in Nat
  /\ timer \in Nat \cup {NoTimer}
  /\ running \subseteq Running
  /\ fate \in [Job -> Fates]

-----------------------------------------------------------------------------
(***************************************************************************)
(* Helpers on the array of jobs.                                           *)
(***************************************************************************)

Later(a, b) == IF a < b THEN b ELSE a

\* The indices of the jobs whose runAfter has passed.
Ready(q) == {i \in DOMAIN q : q[i].wait = 0}

IsFirst(i, q) == i \in Ready(q) /\ \A k \in Ready(q) : i <= k

\* How long until drain() could start something.
NextRunDelay(q, g) ==
  IF q = <<>>
  THEN g
  ELSE Later(g, CHOOSE w \in {q[i].wait : i \in DOMAIN q} :
                  \A i \in DOMAIN q : w <= q[i].wait)

\* Mutant of CanDrain: drain() without its isDraining guard.
CanDrainAgain(draining, closed, handler) == ~closed /\ handler

\* A drain, or the scheduling of one, goes ahead only in this case.
CanDrain(draining, closed, handler) == ~draining /\ ~closed /\ handler

\* The timer after scheduleDrain(): a pending one is kept as it is.
Scheduled(q, draining, handler) ==
  IF CanDrain(draining, isClosed, handler) /\ timer = NoTimer
  THEN NextRunDelay(q, gap)
  ELSE timer

-----------------------------------------------------------------------------
Init ==
  /\ jobs = <<>>
  /\ hasHandler = FALSE
  /\ isDraining = FALSE
  /\ isClosed = FALSE
  /\ gap = 0
  /\ timer = NoTimer
  /\ running = {}
  /\ fate = [j \in Job |-> "new"]

\* add(): refused once closed; otherwise the job joins the end of the array.
Add(j) ==
  /\ ~isClosed
  /\ fate[j] = "new"
  /\ \E d \in Delays, b \in Budgets :
       jobs' = Append(jobs, [job |-> j, attempt |-> 0, budget |-> b, wait |-> d])
  /\ timer' = Scheduled(jobs', isDraining, hasHandler)
  /\ fate' = [fate EXCEPT ![j] = "live"]
  /\ UNCHANGED <<hasHandler, isDraining, isClosed, gap, running>>

\* process(): the handler is registered.
Process ==
  /\ ~hasHandler
  /\ hasHandler' = TRUE
  /\ timer' = Scheduled(jobs, isDraining, TRUE)
  /\ UNCHANGED <<jobs, isDraining, isClosed, gap, running, fate>>

(***************************************************************************)
(* One turn of drain()'s loop over the array q, with the invocations       *)
(* `others' in flight: the first runnable job starts, unless the queue is  *)
(* closed, nothing is runnable or the throttle holds, in which case the    *)
(* drain ends and its finally block schedules the next one.                *)
(***************************************************************************)
MayStart(q) == ~isClosed /\ Ready(q) # {} /\ gap = 0

StartNext(q, others) ==
  /\ MayStart(q)
  /\ \E i \in Ready(q) :
       /\ IsFirst(i, q)
       /\ jobs' = RemoveAt(q, i)
       /\ running' = others \cup
            {[job |-> q[i].job, attempt |-> q[i].attempt + 1, budget |-> q[i].budget]}
  /\ isDraining' = TRUE
  /\ gap' = Interval

\* Mutant of EndDrain: the finally block schedules nothing.
EndDrainUnscheduled(q, others, pending) ==
  /\ ~MayStart(q)
  /\ jobs' = q
  /\ running' = others
  /\ isDraining' = FALSE
  /\ gap' = gap
  /\ timer' = pending

EndDrain(q, others, pending) ==
  /\ ~MayStart(q)
  /\ jobs' = q
  /\ running' = others
  /\ isDraining' = FALSE
  /\ gap' = gap
  /\ timer' = IF q # <<>> /\ pending = NoTimer /\ CanDrain(FALSE, isClosed, hasHandler)
              THEN NextRunDelay(q, gap)
              ELSE pending

\* The timer goes off: it is cleared and drain() runs.
TimerFires ==
  /\ timer # NoTimer
  /\ timer <= Slack
  /\ IF CanDrain(isDraining, isClosed, hasHandler)
     THEN \/ StartNext(jobs, running) /\ timer' = NoTimer
          \/ EndDrain(jobs, running, NoTimer)
     ELSE /\ timer' = NoTimer
          /\ UNCHANGED <<jobs, isDraining, gap, running>>
  /\ UNCHANGED <<hasHandler, isClosed, fate>>

(***************************************************************************)
(* The handler of r returns or throws: runJob's catch and finally, then    *)
(* the drain that awaited it goes on.                                      *)
(***************************************************************************)
GoOn(r, q) ==
  \/ StartNext(q, running \ {r}) /\ timer' = timer
  \/ EndDrain(q, running \ {r}, timer)

\* It returned, threw a permanent error, or used up its last attempt.
JobEnds(r) ==
  /\ GoOn(r, jobs)
  /\ fate' = [fate EXCEPT ![r.job] = "done"]
  /\ UNCHANGED <<hasHandler, isClosed>>

\* Mutant of JobRetries: `<=' for `<', one attempt too many.
JobRetriesOnceMore(r) ==
  /\ r.attempt <= r.budget
  /\ \E d \in {RetryAfter, Backoff(r.attempt)} :
       GoOn(r, Append(jobs, [job |-> r.job, attempt |-> r.attempt,
                             budget |-> r.budget, wait |-> d]))
  /\ fate' = [fate EXCEPT ![r.job] = IF isClosed THEN "lost" ELSE "live"]
  /\ UNCHANGED <<hasHandler, isClosed>>

\* Mutant of JobRetries: the job is not put back.
JobRetriesForgotten(r) ==
  /\ r.attempt < r.budget
  /\ GoOn(r, jobs)
  /\ UNCHANGED <<hasHandler, isClosed, fate>>

\* It threw a RetryableJobError with attempts left.
JobRetries(r) ==
  /\ r.attempt < r.budget
  /\ \E d \in {RetryAfter, Backoff(r.attempt)} :
       GoOn(r, Append(jobs, [job |-> r.job, attempt |-> r.attempt,
                             budget |-> r.budget, wait |-> d]))
  /\ fate' = [fate EXCEPT ![r.job] = IF isClosed THEN "lost" ELSE "live"]
  /\ UNCHANGED <<hasHandler, isClosed>>

\* close(): the array is emptied and the timer cleared; a handler in flight
\* is not waited for.
Close ==
  /\ ~isClosed
  /\ isClosed' = TRUE
  /\ timer' = NoTimer
  /\ jobs' = <<>>
  /\ fate' = [j \in Job |-> IF \E i \in DOMAIN jobs : jobs[i].job = j
                            THEN "lost" ELSE fate[j]]
  /\ UNCHANGED <<hasHandler, isDraining, gap, running>>

Less(n) == IF n > 0 THEN n - 1 ELSE n

\* Time passes.
Tick ==
  /\ gap > 0 \/ timer > 0 \/ \E i \in DOMAIN jobs : jobs[i].wait > 0
  /\ gap' = Less(gap)
  /\ timer' = Less(timer)
  /\ jobs' = [i \in DOMAIN jobs |-> [jobs[i] EXCEPT !.wait = Less(jobs[i].wait)]]
  /\ UNCHANGED <<hasHandler, isDraining, isClosed, running, fate>>

Settles == \E r \in running : JobEnds(r) \/ JobRetries(r)

Next ==
  \/ \E j \in Job : Add(j)
  \/ Process
  \/ TimerFires
  \/ \E r \in running : JobEnds(r)
  \/ \E r \in running : JobRetries(r)
  \/ Close
  \/ Tick

Spec == Init /\ [][Next]_vars

(***************************************************************************)
(* Time passes, due timers fire, and every handler comes back: each await  *)
(* of the email worker is a database call or an SMTP exchange with a       *)
(* timeout (smtp-verifier.ts:123).  The handler is registered as the email *)
(* module is built (email.module.ts:63).  Nothing makes anyone add or      *)
(* close.                                                                  *)
(***************************************************************************)
Fairness ==
  WF_vars(Process) /\ WF_vars(Tick) /\ WF_vars(TimerFires) /\ WF_vars(Settles)

FairSpec == Spec /\ Fairness

-----------------------------------------------------------------------------
(***************************************************************************)
(* Properties.                                                             *)
(***************************************************************************)

(***************************************************************************)
(* No lost wake-up: while the queue is open and has a handler, an array    *)
(* that is not empty is either being drained or has a timer pending that   *)
(* will drain it.  add(), process(), drain()'s finally block and the early *)
(* returns of scheduleDrain() each keep it by leaving a case to another.   *)
(***************************************************************************)
NoLostWakeup ==
  hasHandler /\ ~isClosed /\ jobs # <<>> => isDraining \/ timer # NoTimer

(***************************************************************************)
(* One drain at a time, whatever timers, add() and close() do meanwhile:   *)
(* a handler is in flight exactly while isDraining is set, and never two.  *)
(***************************************************************************)
SingleFlight ==
  /\ isDraining <=> running # {}
  /\ \A r, s \in running : r = s

(***************************************************************************)
(* Every job that was added is settled, unless the queue is closed: no     *)
(* sequence of back-offs, throttled drains and early timers starves it.    *)
(***************************************************************************)
EveryJobSettles ==
  \A j \in Job : fate[j] = "live" ~> (fate[j] = "done" \/ isClosed)

(***************************************************************************)
(* The driver keeps the promise of the QueueDriver interface.              *)
(***************************************************************************)
RunningJobs == {r.job : r \in running}

stateBar ==
  [j \in Job |-> IF j \in RunningJobs THEN "active"
                 ELSE IF fate[j] = "live" THEN "waiting" ELSE fate[j]]

\* Attempts job j may still start, read off the entry that carries it.
leftBar ==
  [j \in Job |->
     IF j \in RunningJobs
     THEN LET r == CHOOSE x \in running : x.job = j IN r.budget - r.attempt
     ELSE IF fate[j] = "live"
     THEN LET i == CHOOSE x \in DOMAIN jobs : jobs[x].job = j
          IN jobs[i].budget - jobs[i].attempt
     ELSE 0]

Contract == INSTANCE JobQueue
              WITH state <- stateBar, left <- leftBar, rest <- gap, open <- ~isClosed

ImplementsJobQueue == Contract!Spec

=============================================================================
