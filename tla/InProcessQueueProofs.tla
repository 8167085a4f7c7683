------------------------ MODULE InProcessQueueProofs -------------------------
(***************************************************************************)
(* Theorems about InProcessQueue, for any number of jobs and any delays,   *)
(* attempt budgets, intervals and timer slack.                             *)
(***************************************************************************)
EXTENDS InProcessQueue, SequenceTheorems, WellFoundedInduction, TLAPS

-----------------------------------------------------------------------------
(***************************************************************************)
(* One drain at a time.  SingleFlight is inductive by itself: a handler is *)
(* only started by the drain that set isDraining, and the drain only goes  *)
(* on when the handler it awaited is no longer in flight.                  *)
(***************************************************************************)
LEMMA GoOnSingle ==
  ASSUME SingleFlight, NEW r \in running, NEW q, GoOn(r, q)
  PROVE  SingleFlight'
<1>1. running \ {r} = {}
  BY DEF SingleFlight
<1>2. CASE StartNext(q, running \ {r})
  BY <1>1, <1>2 DEF StartNext, SingleFlight
<1>3. CASE EndDrain(q, running \ {r}, timer)
  BY <1>1, <1>3 DEF EndDrain, SingleFlight
<1> QED
  BY <1>2, <1>3 DEF GoOn

LEMMA StepSingle == SingleFlight /\ [Next]_vars => SingleFlight'
<1> SUFFICES ASSUME SingleFlight, [Next]_vars PROVE SingleFlight'
  OBVIOUS
<1>1. CASE TimerFires
  <2>1. CASE CanDrain(isDraining, isClosed, hasHandler)
    <3>1. running = {}
      BY <2>1 DEF CanDrain, SingleFlight
    <3>2. CASE StartNext(jobs, running)
      BY <3>1, <3>2 DEF StartNext, SingleFlight
    <3>3. CASE EndDrain(jobs, running, NoTimer)
      BY <3>1, <3>3 DEF EndDrain, SingleFlight
    <3> QED
      BY <1>1, <2>1, <3>2, <3>3 DEF TimerFires
  <2>2. CASE ~CanDrain(isDraining, isClosed, hasHandler)
    BY <1>1, <2>2 DEF TimerFires, SingleFlight
  <2> QED
    BY <2>1, <2>2
<1>2. ASSUME NEW r \in running, JobEnds(r) \/ JobRetries(r) PROVE SingleFlight'
  BY <1>2, GoOnSingle DEF JobEnds, JobRetries
<1>3. CASE UNCHANGED <<isDraining, running>>
  BY <1>3 DEF SingleFlight
<1> QED
  BY <1>1, <1>2, <1>3 DEF Next, Add, Process, Close, Tick, vars

\* A handler is in flight exactly while a drain is, and never two.
THEOREM OneJobAtATime == Spec => []SingleFlight
<1>1. Init => SingleFlight
  BY DEF Init, SingleFlight
<1> QED
  BY <1>1, StepSingle, PTL DEF Spec

-----------------------------------------------------------------------------
(***************************************************************************)
(* Type correctness.  The delay of a scheduled drain is a least element of *)
(* the waits, which exists because the natural numbers are well-founded.   *)
(***************************************************************************)
LEMMA LeastNat ==
  ASSUME NEW T, T \subseteq Nat, T # {}
  PROVE  (CHOOSE w \in T : \A x \in T : w <= x) \in T
<1>1. PICK w \in T : \A x \in T : ~(<<x, w>> \in OpToRel(<, Nat))
  BY NatLessThanWellFounded, WFMin
<1>2. \A x \in T : ~(x < w)
  BY <1>1 DEF OpToRel
<1>3. \A x \in T : w <= x
  BY <1>2
<1> QED
  BY <1>3

LEMMA DelayTyped ==
  ASSUME NEW q \in Seq(QueuedJob), NEW g \in Nat
  PROVE  NextRunDelay(q, g) \in Nat
<1>1. CASE q = <<>>
  BY <1>1 DEF NextRunDelay
<1>2. CASE q # <<>>
  <2> DEFINE T == {q[i].wait : i \in DOMAIN q}
  <2>1. T \subseteq Nat
    <3>1. ASSUME NEW i \in DOMAIN q PROVE q[i].wait \in Nat
      <4>1. i \in 1 .. Len(q)
        BY LenProperties
      <4>2. q[i] \in QueuedJob
        BY <4>1, ElementOfSeq
      <4> QED
        BY <4>2 DEF QueuedJob
    <3> QED
      BY <3>1
  <2>2. T # {}
    <3>1. 1 \in DOMAIN q
      BY <1>2, EmptySeq, LenProperties
    <3> QED
      BY <3>1
  <2>3. (CHOOSE w \in T : \A x \in T : w <= x) \in T
    BY <2>1, <2>2, LeastNat
  <2>4. (\A w : (\A x \in T : w <= x) <=> (\A i \in DOMAIN q : w <= q[i].wait))
    OBVIOUS
  <2>5. (CHOOSE w \in T : \A x \in T : w <= x)
          = (CHOOSE w \in T : \A i \in DOMAIN q : w <= q[i].wait)
    BY <2>4
  <2>6. (CHOOSE w \in T : \A i \in DOMAIN q : w <= q[i].wait) \in Nat
    BY <2>1, <2>3, <2>5
  <2> QED
    BY <1>2, <2>6 DEF NextRunDelay, Later
<1> QED
  BY <1>1, <1>2

LEMMA ScheduledTyped ==
  ASSUME NEW q \in Seq(QueuedJob), TypeOK, NEW d, NEW h
  PROVE  Scheduled(q, d, h) \in Nat \cup {NoTimer}
BY DelayTyped DEF Scheduled, TypeOK

LEMMA RemoveTyped ==
  ASSUME NEW q \in Seq(QueuedJob), NEW i \in DOMAIN q
  PROVE  RemoveAt(q, i) \in Seq(QueuedJob)
<1>1. DOMAIN q = 1 .. Len(q) /\ Len(q) \in Nat
  BY LenProperties
<1>2. \A k \in 1 .. Len(q) : q[k] \in QueuedJob
  BY ElementOfSeq
<1>3. SubSeq(q, 1, i - 1) \in Seq(QueuedJob)
  <2>1. \A k \in 1 .. (i - 1) : q[k] \in QueuedJob
    BY <1>1, <1>2
  <2> QED
    BY <1>1, <2>1, SubSeqProperties
<1>4. SubSeq(q, i + 1, Len(q)) \in Seq(QueuedJob)
  <2>1. \A k \in (i + 1) .. Len(q) : q[k] \in QueuedJob
    BY <1>1, <1>2
  <2> QED
    BY <1>1, <2>1, SubSeqProperties
<1> QED
  BY <1>3, <1>4, ConcatProperties DEF RemoveAt

\* What a turn of the drain's loop leaves behind, whatever it does.
LEMMA StartTyped ==
  ASSUME TypeOK, NEW q \in Seq(QueuedJob), NEW others \in SUBSET Running, StartNext(q, others)
  PROVE  /\ jobs' \in Seq(QueuedJob) /\ running' \subseteq Running
         /\ isDraining' \in BOOLEAN /\ gap' \in Nat
<1>1. PICK i \in Ready(q) :
        /\ jobs' = RemoveAt(q, i)
        /\ running' = others \cup
             {[job |-> q[i].job, attempt |-> q[i].attempt + 1, budget |-> q[i].budget]}
  BY DEF StartNext
<1>2. i \in DOMAIN q /\ i \in 1 .. Len(q)
  BY LenProperties DEF Ready
<1>3. q[i] \in QueuedJob
  BY <1>2, ElementOfSeq
<1>4. jobs' \in Seq(QueuedJob)
  BY <1>1, <1>2, RemoveTyped
<1>5. running' \subseteq Running
  BY <1>1, <1>3 DEF QueuedJob, Running
<1> QED
  BY <1>4, <1>5, QueueAssumption DEF StartNext

LEMMA EndTyped ==
  ASSUME TypeOK, NEW q \in Seq(QueuedJob), NEW others \in SUBSET Running,
         NEW pending \in Nat \cup {NoTimer}, EndDrain(q, others, pending)
  PROVE  /\ jobs' \in Seq(QueuedJob) /\ running' \subseteq Running
         /\ isDraining' \in BOOLEAN /\ gap' \in Nat /\ timer' \in Nat \cup {NoTimer}
BY DelayTyped DEF EndDrain, TypeOK

LEMMA GoOnTyped ==
  ASSUME TypeOK, NEW r \in running, NEW q \in Seq(QueuedJob), GoOn(r, q),
         UNCHANGED <<hasHandler, isClosed>>, fate' \in [Job -> Fates]
  PROVE  TypeOK'
<1>1. running \ {r} \in SUBSET Running /\ timer \in Nat \cup {NoTimer}
  BY DEF TypeOK
<1>2. CASE StartNext(q, running \ {r}) /\ timer' = timer
  BY <1>1, <1>2, StartTyped DEF TypeOK
<1>3. CASE EndDrain(q, running \ {r}, timer)
  BY <1>1, <1>3, EndTyped DEF TypeOK
<1> QED
  BY <1>2, <1>3 DEF GoOn

LEMMA LessTyped == \A n \in Nat : Less(n) \in Nat
BY DEF Less

LEMMA InitTypeOK == Init => TypeOK
<1> SUFFICES ASSUME Init PROVE TypeOK
  OBVIOUS
<1>1. jobs \in Seq(QueuedJob)
  BY EmptySeq DEF Init
<1>2. hasHandler \in BOOLEAN /\ isDraining \in BOOLEAN /\ isClosed \in BOOLEAN
  BY DEF Init
<1>3. gap \in Nat /\ timer \in Nat \cup {NoTimer} /\ running \subseteq Running
  BY DEF Init
<1>4. fate \in [Job -> Fates]
  BY DEF Init, Fates
<1> QED
  BY <1>1, <1>2, <1>3, <1>4 DEF TypeOK

\* The pause before a retry, of whichever kind, is a delay.
LEMMA PauseTyped ==
  ASSUME NEW r \in Running, r.attempt < r.budget, NEW d \in {RetryAfter, Backoff(r.attempt)}
  PROVE  [job |-> r.job, attempt |-> r.attempt, budget |-> r.budget, wait |-> d] \in QueuedJob
<1>1. r.job \in Job /\ r.attempt \in Nat \ {0} /\ r.budget \in Budgets
  BY DEF Running
<1>2. r.budget \in Nat
  BY <1>1, QueueAssumption
<1>3. r.attempt \in 1 .. r.budget
  BY <1>1, <1>2
<1>4. d \in Nat
  BY <1>1, <1>3, QueueAssumption
<1> QED
  BY <1>1, <1>4 DEF QueuedJob

LEMMA StepTypeOK == TypeOK /\ [Next]_vars => TypeOK'
<1> SUFFICES ASSUME TypeOK, [Next]_vars PROVE TypeOK'
  OBVIOUS
<1> USE QueueAssumption
<1>1. ASSUME NEW j \in Job, Add(j) PROVE TypeOK'
  <2>1. PICK d \in Delays, b \in Budgets :
          jobs' = Append(jobs, [job |-> j, attempt |-> 0, budget |-> b, wait |-> d])
    BY <1>1 DEF Add
  <2>2. jobs' \in Seq(QueuedJob)
    <3>1. [job |-> j, attempt |-> 0, budget |-> b, wait |-> d] \in QueuedJob
      BY DEF QueuedJob
    <3> QED
      BY <2>1, <3>1, AppendProperties DEF TypeOK
  <2>3. timer' \in Nat \cup {NoTimer}
    BY <1>1, <2>2, ScheduledTyped DEF Add
  <2>4. fate' \in [Job -> Fates]
    BY <1>1 DEF Add, TypeOK, Fates
  <2> QED
    BY <1>1, <2>2, <2>3, <2>4 DEF Add, TypeOK
<1>2. CASE Process
  <2>1. timer' \in Nat \cup {NoTimer}
    BY <1>2, ScheduledTyped DEF Process, TypeOK
  <2> QED
    BY <1>2, <2>1 DEF Process, TypeOK
<1>3. CASE TimerFires
  <2>1. CASE CanDrain(isDraining, isClosed, hasHandler)
    <3>1. running \in SUBSET Running /\ NoTimer \in Nat \cup {NoTimer}
          /\ jobs \in Seq(QueuedJob)
      BY DEF TypeOK
    <3>2. CASE StartNext(jobs, running) /\ timer' = NoTimer
      BY <1>3, <3>1, <3>2, StartTyped DEF TimerFires, TypeOK
    <3>3. CASE EndDrain(jobs, running, NoTimer)
      BY <1>3, <3>1, <3>3, EndTyped DEF TimerFires, TypeOK
    <3> QED
      BY <1>3, <2>1, <3>2, <3>3 DEF TimerFires
  <2>2. CASE ~CanDrain(isDraining, isClosed, hasHandler)
    BY <1>3, <2>2 DEF TimerFires, TypeOK
  <2> QED
    BY <2>1, <2>2
<1>4. ASSUME NEW r \in running, JobEnds(r) PROVE TypeOK'
  <2>1. fate' \in [Job -> Fates] /\ jobs \in Seq(QueuedJob)
    BY <1>4 DEF JobEnds, TypeOK, Fates
  <2> QED
    BY <1>4, <2>1, GoOnTyped DEF JobEnds
<1>5. ASSUME NEW r \in running, JobRetries(r) PROVE TypeOK'
  <2>1. r \in Running /\ r.attempt < r.budget
    BY <1>5 DEF JobRetries, TypeOK
  <2>2. PICK d \in {RetryAfter, Backoff(r.attempt)} :
          GoOn(r, Append(jobs, [job |-> r.job, attempt |-> r.attempt,
                                budget |-> r.budget, wait |-> d]))
    BY <1>5 DEF JobRetries
  <2>4. [job |-> r.job, attempt |-> r.attempt, budget |-> r.budget, wait |-> d] \in QueuedJob
    BY <2>1, PauseTyped
  <2>5. Append(jobs, [job |-> r.job, attempt |-> r.attempt,
                      budget |-> r.budget, wait |-> d]) \in Seq(QueuedJob)
    BY <2>4, AppendProperties DEF TypeOK
  <2>6. fate' \in [Job -> Fates] /\ UNCHANGED <<hasHandler, isClosed>>
    BY <1>5 DEF JobRetries, TypeOK, Fates
  <2> QED
    BY <2>2, <2>5, <2>6, GoOnTyped
<1>6. CASE Close
  <2>1. jobs' \in Seq(QueuedJob)
    BY <1>6, EmptySeq DEF Close
  <2>2. fate' \in [Job -> Fates]
    BY <1>6 DEF Close, TypeOK, Fates
  <2> QED
    BY <1>6, <2>1, <2>2 DEF Close, TypeOK
<1>7. CASE Tick
  <2>1. jobs' \in Seq(QueuedJob)
    <3>1. DOMAIN jobs = 1 .. Len(jobs) /\ Len(jobs) \in Nat
      BY LenProperties DEF TypeOK
    <3>2. ASSUME NEW i \in 1 .. Len(jobs)
          PROVE  [jobs[i] EXCEPT !.wait = Less(jobs[i].wait)] \in QueuedJob
      <4>1. jobs[i] \in QueuedJob
        BY ElementOfSeq DEF TypeOK
      <4>2. Less(jobs[i].wait) \in Nat
        BY <4>1, LessTyped DEF QueuedJob
      <4> QED
        BY <4>1, <4>2 DEF QueuedJob
    <3>3. jobs' \in [1 .. Len(jobs) -> QueuedJob]
      BY <1>7, <3>1, <3>2 DEF Tick
    <3> QED
      BY <3>1, <3>3, SeqDef
  <2>2. gap' \in Nat
    BY <1>7, LessTyped DEF Tick, TypeOK
  <2>3. timer' \in Nat \cup {NoTimer}
    BY <1>7, LessTyped DEF Tick, TypeOK, Less, NoTimer
  <2> QED
    BY <1>7, <2>1, <2>2, <2>3 DEF Tick, TypeOK
<1>8. CASE UNCHANGED vars
  BY <1>8 DEF vars, TypeOK
<1> QED
  BY <1>1, <1>2, <1>3, <1>4, <1>5, <1>6, <1>7, <1>8 DEF Next

\* Every variable keeps its type; in particular no delay is negative.
THEOREM QueueTypeCorrect == Spec => []TypeOK
<1>1. Init => TypeOK
  BY InitTypeOK
<1> QED
  BY <1>1, StepTypeOK, PTL DEF Spec

-----------------------------------------------------------------------------
(***************************************************************************)
(* No lost wake-up.  The step that could lose one is the end of a drain:   *)
(* it must leave a timer, the one that is pending or a new one, and a new  *)
(* one is a delay and so never NoTimer.                                    *)
(***************************************************************************)
LEMMA DelayIsTimer ==
  ASSUME NEW q \in Seq(QueuedJob), NEW g \in Nat
  PROVE  NextRunDelay(q, g) # NoTimer
<1>1. NextRunDelay(q, g) \in Nat
  BY DelayTyped
<1> QED
  BY <1>1 DEF NoTimer

LEMMA GoOnWakes ==
  ASSUME TypeOK, NEW r \in running, NEW q \in Seq(QueuedJob), GoOn(r, q),
         UNCHANGED <<hasHandler, isClosed>>
  PROVE  NoLostWakeup'
<1>1. CASE StartNext(q, running \ {r})
  BY <1>1 DEF StartNext, NoLostWakeup
<1>2. CASE EndDrain(q, running \ {r}, timer)
  BY <1>2, DelayIsTimer DEF EndDrain, NoLostWakeup, CanDrain, TypeOK
<1> QED
  BY <1>1, <1>2 DEF GoOn

LEMMA StepWakes == TypeOK /\ NoLostWakeup /\ [Next]_vars => NoLostWakeup'
<1> SUFFICES ASSUME TypeOK, NoLostWakeup, [Next]_vars PROVE NoLostWakeup'
  OBVIOUS
<1>0. TypeOK'
  BY StepTypeOK
<1>1. ASSUME NEW j \in Job, Add(j) PROVE NoLostWakeup'
  <2>1. timer' = Scheduled(jobs', isDraining, hasHandler) /\ jobs' \in Seq(QueuedJob)
        /\ UNCHANGED <<hasHandler, isDraining, isClosed, gap>>
    BY <1>0, <1>1 DEF Add, TypeOK
  <2> QED
    BY <2>1, DelayIsTimer DEF Scheduled, CanDrain, NoLostWakeup, TypeOK
<1>2. CASE Process
  BY <1>2, DelayIsTimer DEF Process, Scheduled, CanDrain, NoLostWakeup, TypeOK
<1>3. CASE TimerFires
  <2>1. CASE StartNext(jobs, running)
    BY <2>1 DEF StartNext, NoLostWakeup
  <2>2. CASE EndDrain(jobs, running, NoTimer) /\ UNCHANGED <<hasHandler, isClosed>>
    BY <2>2, DelayIsTimer DEF EndDrain, NoLostWakeup, CanDrain, TypeOK
  <2>3. CASE ~CanDrain(isDraining, isClosed, hasHandler)
    BY <1>3, <2>3 DEF TimerFires, CanDrain, NoLostWakeup
  <2> QED
    BY <1>3, <2>1, <2>2, <2>3 DEF TimerFires
<1>4. ASSUME NEW r \in running, JobEnds(r) PROVE NoLostWakeup'
  BY <1>4, GoOnWakes DEF JobEnds, TypeOK
<1>5. ASSUME NEW r \in running, JobRetries(r) PROVE NoLostWakeup'
  <2>1. PICK d \in {RetryAfter, Backoff(r.attempt)} :
          GoOn(r, Append(jobs, [job |-> r.job, attempt |-> r.attempt,
                                budget |-> r.budget, wait |-> d]))
    BY <1>5 DEF JobRetries
  <2>2. Append(jobs, [job |-> r.job, attempt |-> r.attempt,
                      budget |-> r.budget, wait |-> d]) \in Seq(QueuedJob)
    <3>1. r \in Running /\ r.attempt < r.budget
      BY <1>5 DEF JobRetries, TypeOK
    <3>2. [job |-> r.job, attempt |-> r.attempt, budget |-> r.budget, wait |-> d] \in QueuedJob
      BY <3>1, PauseTyped
    <3> QED
      BY <3>2, AppendProperties DEF TypeOK
  <2> QED
    BY <1>5, <2>1, <2>2, GoOnWakes DEF JobRetries
<1>6. CASE Close
  BY <1>6 DEF Close, NoLostWakeup
<1>7. CASE Tick
  <2>1. jobs' # <<>> => jobs # <<>>
    BY <1>7, EmptySeq, LenProperties DEF Tick, TypeOK
  <2>2. timer # NoTimer => timer' # NoTimer
    BY <1>7 DEF Tick, Less, TypeOK, NoTimer
  <2> QED
    BY <1>7, <2>1, <2>2 DEF Tick, NoLostWakeup
<1>8. CASE UNCHANGED vars
  BY <1>8 DEF vars, NoLostWakeup
<1> QED
  BY <1>1, <1>2, <1>3, <1>4, <1>5, <1>6, <1>7, <1>8 DEF Next

\* An open queue with a handler and a job is being drained or will be.
THEOREM WakeupIsNeverLost == Spec => []NoLostWakeup
<1>1. Init => TypeOK /\ NoLostWakeup
  BY InitTypeOK DEF Init, NoLostWakeup
<1> QED
  BY <1>1, StepTypeOK, StepWakes, PTL DEF Spec

-----------------------------------------------------------------------------
(***************************************************************************)
(* The contract.  What the driver promises of a job is read off the one    *)
(* entry of the array, or the one invocation, that carries it; so the      *)
(* invariant says that there is one, and which.                            *)
(***************************************************************************)
JobsOf(q) == {q[i].job : i \in DOMAIN q}

LeftOf(q, j) ==
  LET i == CHOOSE x \in DOMAIN q : q[x].job = j IN q[i].budget - q[i].attempt

\* Each job of an array is there once, with an attempt left.
Sound(q) ==
  /\ \A i, k \in DOMAIN q : q[i].job = q[k].job => i = k
  /\ \A i \in DOMAIN q : q[i].attempt < q[i].budget

\* What is left of a job is what its entry says.
LEMMA LeftIs ==
  ASSUME NEW q, Sound(q), NEW i \in DOMAIN q
  PROVE  LeftOf(q, q[i].job) = q[i].budget - q[i].attempt
BY DEF LeftOf, Sound

\* An array of which another is a part: with the same entries but for some.
LEMMA LeftStays ==
  ASSUME NEW q, Sound(q), NEW p, Sound(p), NEW j,
         NEW i \in DOMAIN q, NEW k \in DOMAIN p, q[i].job = j, p[k].job = j,
         q[i].budget = p[k].budget, q[i].attempt = p[k].attempt
  PROVE  LeftOf(q, j) = LeftOf(p, j)
BY LeftIs

\* A job that joins an array changes nothing of the others.
LEMMA AppendSound ==
  ASSUME NEW q \in Seq(QueuedJob), Sound(q), NEW e \in QueuedJob,
         e.job \notin JobsOf(q), e.attempt < e.budget
  PROVE  /\ Sound(Append(q, e)) /\ JobsOf(Append(q, e)) = JobsOf(q) \cup {e.job}
         /\ LeftOf(Append(q, e), e.job) = e.budget - e.attempt
         /\ \A j \in JobsOf(q) : LeftOf(Append(q, e), j) = LeftOf(q, j)
<1> DEFINE p == Append(q, e)
<1>1. /\ Len(q) \in Nat /\ DOMAIN q = 1 .. Len(q) /\ DOMAIN p = 1 .. Len(q) + 1
      /\ \A i \in 1 .. Len(q) : p[i] = q[i]
      /\ p[Len(q) + 1] = e
  OBVIOUS
<1> HIDE DEF p
<1>2. \A i \in DOMAIN p : (i = Len(q) + 1 /\ p[i] = e) \/ (i \in DOMAIN q /\ p[i] = q[i])
  <2>1. ASSUME NEW i \in 1 .. Len(q) + 1, i # Len(q) + 1 PROVE i \in 1 .. Len(q)
    BY <1>1, <2>1
  <2>2. QED
    BY <1>1, <2>1
<1>3. DOMAIN q \subseteq DOMAIN p /\ Len(q) + 1 \in DOMAIN p
  BY <1>1
<1>4. \A i \in DOMAIN q : q[i].job # e.job
  BY DEF JobsOf
<1>5. Sound(p)
  BY <1>2, <1>4 DEF Sound
<1>6. JobsOf(p) = JobsOf(q) \cup {e.job}
  BY <1>1, <1>2, <1>3 DEF JobsOf
<1>7. LeftOf(p, e.job) = e.budget - e.attempt
  BY <1>1, <1>3, <1>5, LeftIs
<1>8. ASSUME NEW j \in JobsOf(q) PROVE LeftOf(p, j) = LeftOf(q, j)
  <2>1. PICK i \in DOMAIN q : q[i].job = j
    BY DEF JobsOf
  <2>2. i \in DOMAIN p /\ p[i] = q[i]
    BY <1>1, <1>3
  <2>3. QED
    BY <1>5, <2>1, <2>2, LeftStays
<1>9. QED
  BY <1>5, <1>6, <1>7, <1>8 DEF p

\* Nor does one that is taken out.
LEMMA RemoveSound ==
  ASSUME NEW q \in Seq(QueuedJob), Sound(q), NEW i \in DOMAIN q
  PROVE  /\ Sound(RemoveAt(q, i)) /\ JobsOf(RemoveAt(q, i)) = JobsOf(q) \ {q[i].job}
         /\ \A j \in JobsOf(q) \ {q[i].job} : LeftOf(RemoveAt(q, i), j) = LeftOf(q, j)
<1> DEFINE p == RemoveAt(q, i)
           at(k) == IF k < i THEN k ELSE k + 1
<1>1. DOMAIN q = 1 .. Len(q) /\ Len(q) \in Nat /\ i \in 1 .. Len(q) /\ Len(q) - 1 \in Nat
  BY LenProperties
<1>2. \A k \in 1 .. Len(q) : q[k] \in QueuedJob
  BY ElementOfSeq
<1>3. DOMAIN p = 1 .. Len(q) - 1 /\ \A k \in 1 .. Len(q) - 1 : p[k] = q[at(k)]
  <2> DEFINE a == SubSeq(q, 1, i - 1)
             b == SubSeq(q, i + 1, Len(q))
  <2>1. a \in Seq(QueuedJob) /\ Len(a) = i - 1 /\ \A k \in 1 .. i - 1 : a[k] = q[k]
    BY <1>1, <1>2, SubSeqProperties
  <2>2. b \in Seq(QueuedJob) /\ Len(b) = Len(q) - i /\ \A k \in 1 .. Len(q) - i : b[k] = q[i + k]
    BY <1>1, <1>2, SubSeqProperties
  <2>3. p = a \o b
    BY DEF RemoveAt
  <2> HIDE DEF a, b, p
  <2>4. /\ p \in Seq(QueuedJob) /\ Len(p) = Len(q) - 1
        /\ \A k \in 1 .. Len(q) - 1 : p[k] = IF k <= i - 1 THEN a[k] ELSE b[k - (i - 1)]
    <3>1. Len(a) \in Nat /\ Len(b) \in Nat /\ Len(a) + Len(b) = Len(q) - 1
      BY <1>1, <2>1, <2>2
    <3>2. p \in Seq(QueuedJob) /\ Len(p) = Len(a) + Len(b)
      BY <2>1, <2>2, <2>3, ConcatProperties
    <3>3. \A k \in 1 .. Len(a) + Len(b) : p[k] = IF k <= Len(a) THEN a[k] ELSE b[k - Len(a)]
      BY <2>1, <2>2, <2>3, ConcatProperties
    <3>4. QED
      BY <2>1, <3>1, <3>2, <3>3
  <2>5. ASSUME NEW k \in 1 .. Len(q) - 1 PROVE p[k] = q[at(k)]
    <3>1. CASE k < i
      <4>1. k \in 1 .. i - 1 /\ k <= i - 1
        BY <1>1, <3>1
      <4>2. QED
        BY <2>1, <2>4, <3>1, <4>1
    <3>2. CASE ~(k < i)
      <4>1. k - (i - 1) \in 1 .. Len(q) - i /\ ~(k <= i - 1) /\ i + (k - (i - 1)) = k + 1
        BY <1>1, <3>2
      <4>2. QED
        BY <2>2, <2>4, <3>2, <4>1
    <3>3. QED
      BY <3>1, <3>2
  <2>6. QED
    BY <2>4, <2>5, LenProperties
<1> HIDE DEF p
<1>4. /\ \A k \in DOMAIN p : at(k) \in DOMAIN q /\ at(k) # i /\ p[k] = q[at(k)]
      /\ \A k, m \in DOMAIN p : at(k) = at(m) => k = m
  BY <1>1, <1>3
<1>5. \A m \in DOMAIN q : m # i => \E k \in DOMAIN p : at(k) = m
  <2>1. ASSUME NEW m \in DOMAIN q, m # i PROVE \E k \in DOMAIN p : at(k) = m
    <3>1. CASE m < i
      <4>1. m \in DOMAIN p /\ at(m) = m
        BY <1>1, <1>3, <3>1
      <4>2. QED
        BY <4>1
    <3>2. CASE ~(m < i)
      <4>1. m - 1 \in DOMAIN p /\ at(m - 1) = m
        BY <1>1, <1>3, <2>1, <3>2
      <4>2. QED
        BY <4>1
    <3>3. QED
      BY <3>1, <3>2
  <2>2. QED
    BY <2>1
<1> HIDE DEF at
<1>6. Sound(p)
  BY <1>4 DEF Sound
<1>7. JobsOf(p) = JobsOf(q) \ {q[i].job}
  <2>1. ASSUME NEW k \in DOMAIN p PROVE p[k].job \in JobsOf(q) \ {q[i].job}
    BY <1>4 DEF Sound, JobsOf
  <2>2. ASSUME NEW m \in DOMAIN q, q[m].job # q[i].job PROVE q[m].job \in JobsOf(p)
    BY <1>4, <1>5, <2>2 DEF JobsOf
  <2>3. QED
    BY <2>1, <2>2 DEF JobsOf
<1>8. ASSUME NEW j \in JobsOf(q) \ {q[i].job} PROVE LeftOf(p, j) = LeftOf(q, j)
  <2>1. PICK m \in DOMAIN q : q[m].job = j /\ m # i
    BY DEF JobsOf
  <2>2. PICK k \in DOMAIN p : p[k] = q[m]
    BY <1>4, <1>5, <2>1
  <2>3. QED
    BY <1>6, <2>1, <2>2, LeftStays
<1>9. QED
  BY <1>6, <1>7, <1>8 DEF p

\* Who carries a job, and what has become of those nobody carries.
Held(q, run, f, closed) ==
  /\ Sound(q)
  /\ \A r \in run : r.job \notin JobsOf(q) /\ f[r.job] = "live" /\ r.attempt <= r.budget
  /\ \A j \in JobsOf(q) : f[j] = IF closed THEN "lost" ELSE "live"
  /\ \A j \in Job : f[j] = "live" => j \in JobsOf(q) \/ \E r \in run : r.job = j

HoldInv == Held(jobs, running, fate, isClosed)

\* Of nothing, nothing.
LEMMA EmptySound == Sound(<< >>) /\ JobsOf(<< >>) = {}
BY DEF Sound, JobsOf

\* The jobs of an array, their attempts and their budgets are of their types.
LEMMA EntryTyped ==
  ASSUME NEW q \in Seq(QueuedJob), NEW i \in DOMAIN q
  PROVE  /\ q[i] \in QueuedJob /\ q[i].job \in Job /\ q[i].job \in JobsOf(q)
         /\ q[i].attempt \in Nat /\ q[i].budget \in Nat
<1>1. i \in 1 .. Len(q)
  BY LenProperties
<1>2. q[i] \in QueuedJob
  BY <1>1, ElementOfSeq
<1>3. QED
  BY <1>2, QueueAssumption DEF QueuedJob, JobsOf

\* A turn of the drain's loop takes one job from the array or leaves it.
LEMMA DrainHolds ==
  ASSUME NEW q \in Seq(QueuedJob), NEW f, Held(q, {}, f, isClosed), isClosed' = isClosed, fate' = f,
         StartNext(q, {}) \/ (jobs' = q /\ running' = {})
  PROVE  HoldInv'
<1>1. CASE jobs' = q /\ running' = {}
  BY <1>1 DEF HoldInv, Held
<1>2. CASE StartNext(q, {})
  <2>1. PICK i \in DOMAIN q :
          /\ jobs' = RemoveAt(q, i)
          /\ running' = {[job |-> q[i].job, attempt |-> q[i].attempt + 1, budget |-> q[i].budget]}
    BY <1>2 DEF StartNext, Ready
  <2>2. Sound(q) /\ ~isClosed
    BY <1>2 DEF Held, StartNext, MayStart
  <2>3. Sound(jobs') /\ JobsOf(jobs') = JobsOf(q) \ {q[i].job}
    BY <2>1, <2>2, RemoveSound
  <2>4. q[i].attempt + 1 <= q[i].budget /\ q[i].job \in JobsOf(q)
    BY <2>2, EntryTyped DEF Sound
  <2>5. QED
    BY <2>1, <2>2, <2>3, <2>4 DEF HoldInv, Held
<1>3. QED
  BY <1>1, <1>2

\* After a handler its drain goes on with no other in flight.
LEMMA GoOnDrains ==
  ASSUME SingleFlight, NEW r \in running, NEW q, GoOn(r, q)
  PROVE  running = {r} /\ (StartNext(q, {}) \/ (jobs' = q /\ running' = {} /\ gap' = gap))
<1>1. running \ {r} = {} /\ running = {r}
  BY DEF SingleFlight
<1>2. QED
  BY <1>1 DEF GoOn, EndDrain

\* A timer that goes off starts a job or changes nothing the contract shows.
LEMMA FiringDrains ==
  ASSUME SingleFlight, TimerFires
  PROVE  /\ isClosed' = isClosed /\ fate' = fate
         /\ \/ running = {} /\ StartNext(jobs, {})
            \/ jobs' = jobs /\ running' = running /\ gap' = gap
<1>1. CASE CanDrain(isDraining, isClosed, hasHandler)
  <2>1. running = {}
    BY <1>1 DEF CanDrain, SingleFlight
  <2>2. QED
    BY <1>1, <2>1 DEF TimerFires, EndDrain
<1>2. CASE ~CanDrain(isDraining, isClosed, hasHandler)
  BY <1>2 DEF TimerFires
<1>3. QED
  BY <1>1, <1>2

\* What a retry puts back.
LEMMA RetryHolds ==
  ASSUME TypeOK, SingleFlight, HoldInv, NEW r \in running, r.attempt < r.budget,
         NEW d \in {RetryAfter, Backoff(r.attempt)}, NEW e, NEW q, NEW f,
         e = [job |-> r.job, attempt |-> r.attempt, budget |-> r.budget, wait |-> d],
         q = Append(jobs, e), f = [fate EXCEPT ![r.job] = IF isClosed THEN "lost" ELSE "live"]
  PROVE  /\ q \in Seq(QueuedJob) /\ Held(q, {}, f, isClosed)
         /\ LeftOf(q, r.job) = r.budget - r.attempt
         /\ JobsOf(q) = JobsOf(jobs) \cup {r.job}
         /\ \A j \in JobsOf(jobs) : LeftOf(q, j) = LeftOf(jobs, j)
<1>1. r \in Running /\ r.job \in Job /\ running = {r} /\ jobs \in Seq(QueuedJob) /\ fate \in [Job -> Fates]
  BY DEF TypeOK, Running, SingleFlight
<1>2. e \in QueuedJob
  BY <1>1, PauseTyped
<1>3. e.job = r.job /\ e.attempt = r.attempt /\ e.budget = r.budget
  OBVIOUS
<1>4. Sound(jobs) /\ r.job \notin JobsOf(jobs)
  BY DEF HoldInv, Held
<1>5. /\ Sound(q) /\ JobsOf(q) = JobsOf(jobs) \cup {r.job}
      /\ LeftOf(q, r.job) = r.budget - r.attempt
      /\ \A j \in JobsOf(jobs) : LeftOf(q, j) = LeftOf(jobs, j)
  <2> HIDE DEF Sound
  <2>1. QED
    BY <1>1, <1>2, <1>3, <1>4, AppendSound
<1>6. q \in Seq(QueuedJob)
  BY <1>1, <1>2, AppendProperties
<1>7. \A j \in JobsOf(q) : f[j] = IF isClosed THEN "lost" ELSE "live"
  <2>1. \A j \in JobsOf(jobs) : j \in Job
    BY <1>1, EntryTyped DEF JobsOf
  <2>2. QED
    BY <1>1, <1>4, <1>5, <2>1 DEF HoldInv, Held
<1>8. \A j \in Job : f[j] = "live" => j \in JobsOf(q)
  BY <1>1, <1>5 DEF HoldInv, Held
<1>9. QED
  BY <1>5, <1>6, <1>7, <1>8 DEF Held

\* What is left when a handler is done.
LEMMA EndHolds ==
  ASSUME TypeOK, SingleFlight, HoldInv, NEW r \in running
  PROVE  Held(jobs, {}, [fate EXCEPT ![r.job] = "done"], isClosed)
<1>1. r.job \in Job /\ running = {r} /\ fate \in [Job -> Fates]
  BY DEF TypeOK, Running, SingleFlight
<1>2. QED
  BY <1>1 DEF HoldInv, Held

\* Time changes nothing of an entry but its wait.
LEMMA TickSound ==
  ASSUME TypeOK, Tick
  PROVE  /\ DOMAIN jobs' = DOMAIN jobs
         /\ \A i \in DOMAIN jobs : /\ jobs'[i].job = jobs[i].job
                                   /\ jobs'[i].attempt = jobs[i].attempt /\ jobs'[i].budget = jobs[i].budget
<1>1. ASSUME NEW i \in DOMAIN jobs
      PROVE  LET e == [jobs[i] EXCEPT !.wait = Less(jobs[i].wait)]
             IN  e.job = jobs[i].job /\ e.attempt = jobs[i].attempt /\ e.budget = jobs[i].budget
  <2>1. jobs[i] \in QueuedJob
    BY EntryTyped DEF TypeOK
  <2>2. QED
    BY <2>1 DEF QueuedJob
<1>2. QED
  BY <1>1 DEF Tick

\* Every step keeps it.
LEMMA HoldStep == TypeOK /\ SingleFlight /\ HoldInv /\ [Next]_vars => HoldInv'
<1> SUFFICES ASSUME TypeOK, SingleFlight, HoldInv, [Next]_vars PROVE HoldInv'
  OBVIOUS
<1>0. jobs \in Seq(QueuedJob) /\ fate \in [Job -> Fates]
  BY DEF TypeOK
<1>1. ASSUME NEW j \in Job, Add(j) PROVE HoldInv'
  <2>1. PICK d \in Delays, b \in Budgets :
          jobs' = Append(jobs, [job |-> j, attempt |-> 0, budget |-> b, wait |-> d])
    BY <1>1 DEF Add
  <2>2. [job |-> j, attempt |-> 0, budget |-> b, wait |-> d] \in QueuedJob /\ 0 < b
    BY QueueAssumption DEF QueuedJob
  <2>3. Sound(jobs) /\ j \notin JobsOf(jobs)
    BY <1>1 DEF HoldInv, Held, Add
  <2>4. Sound(jobs') /\ JobsOf(jobs') = JobsOf(jobs) \cup {j}
    BY <1>0, <2>1, <2>2, <2>3, AppendSound
  <2>5. \A r \in running : r.job # j
    BY <1>1 DEF HoldInv, Held, Add
  <2>6. \A k \in JobsOf(jobs) : k \in Job
    BY <1>0, EntryTyped DEF JobsOf
  <2>7. fate' = [fate EXCEPT ![j] = "live"] /\ ~isClosed /\ isClosed' = isClosed /\ running' = running
    BY <1>1 DEF Add
  <2>8. QED
    BY <1>0, <2>4, <2>5, <2>6, <2>7 DEF HoldInv, Held, TypeOK, Running
<1>2. CASE TimerFires
  <2>1. CASE running = {} /\ StartNext(jobs, {})
    BY <1>0, <1>2, <2>1, FiringDrains, DrainHolds DEF HoldInv
  <2>2. CASE jobs' = jobs /\ running' = running
    BY <1>2, <2>2, FiringDrains DEF HoldInv
  <2>3. QED
    BY <1>2, <2>1, <2>2, FiringDrains
<1>3. ASSUME NEW r \in running, JobEnds(r) PROVE HoldInv'
  <2>1. StartNext(jobs, {}) \/ (jobs' = jobs /\ running' = {})
    BY <1>3, GoOnDrains DEF JobEnds
  <2>2. QED
    BY <1>0, <1>3, <2>1, EndHolds, DrainHolds DEF JobEnds
<1>4. ASSUME NEW r \in running, JobRetries(r) PROVE HoldInv'
  <2> DEFINE f == [fate EXCEPT ![r.job] = IF isClosed THEN "lost" ELSE "live"]
  <2>1. PICK d \in {RetryAfter, Backoff(r.attempt)} :
          GoOn(r, Append(jobs, [job |-> r.job, attempt |-> r.attempt, budget |-> r.budget, wait |-> d]))
    BY <1>4 DEF JobRetries
  <2> DEFINE q == Append(jobs, [job |-> r.job, attempt |-> r.attempt, budget |-> r.budget, wait |-> d])
  <2>2. r.attempt < r.budget /\ fate' = f /\ isClosed' = isClosed
    BY <1>4 DEF JobRetries
  <2>3. q \in Seq(QueuedJob) /\ Held(q, {}, f, isClosed)
    BY <2>2, RetryHolds
  <2>4. StartNext(q, {}) \/ (jobs' = q /\ running' = {})
    BY <2>1, GoOnDrains
  <2> HIDE DEF q, f
  <2>5. QED
    BY <2>2, <2>3, <2>4, DrainHolds
<1>5. CASE Close
  <2>1. \A j \in Job : fate'[j] = IF j \in JobsOf(jobs) THEN "lost" ELSE fate[j]
    BY <1>5 DEF Close, JobsOf
  <2>2. jobs' = << >> /\ running' = running /\ Sound(jobs') /\ JobsOf(jobs') = {}
    BY <1>5, EmptySound DEF Close
  <2>3. \A r \in running : r.job \in Job
    BY DEF TypeOK, Running
  <2>4. QED
    BY <2>1, <2>2, <2>3 DEF HoldInv, Held
<1>6. CASE Tick
  <2>1. Sound(jobs') /\ JobsOf(jobs') = JobsOf(jobs)
    BY <1>6, TickSound DEF HoldInv, Held, Sound, JobsOf
  <2>2. QED
    BY <1>6, <2>1 DEF HoldInv, Held, Tick
<1>7. CASE Process \/ UNCHANGED vars
  <2>1. jobs' = jobs /\ running' = running /\ fate' = fate /\ isClosed' = isClosed
    BY <1>7 DEF Process, vars
  <2>2. QED
    BY <2>1 DEF HoldInv
<1>8. QED
  BY <1>1, <1>2, <1>3, <1>4, <1>5, <1>6, <1>7 DEF Next

\* It holds at the start.
LEMMA HoldInit == Init => HoldInv
BY EmptySound DEF Init, HoldInv, Held

\* What the contract is shown with no handler in flight, of an array and fates.
StateAtRest(f) == [j \in Job |-> IF f[j] = "live" THEN "waiting" ELSE f[j]]
LeftAtRest(q, f) == [j \in Job |-> IF f[j] = "live" THEN LeftOf(q, j) ELSE 0]

\* With no handler in flight the contract is shown that.
LEMMA BarsIdle ==
  ASSUME running = {}
  PROVE  stateBar = StateAtRest(fate) /\ leftBar = LeftAtRest(jobs, fate)
<1>1. RunningJobs = {}
  BY DEF RunningJobs
<1>2. QED
  BY <1>1 DEF stateBar, leftBar, StateAtRest, LeftAtRest, LeftOf

\* With one, its job is shown as active.
LEMMA BarsBusy ==
  ASSUME NEW r, running = {r}, r.job \in Job
  PROVE  /\ stateBar = [StateAtRest(fate) EXCEPT ![r.job] = "active"]
         /\ leftBar = [LeftAtRest(jobs, fate) EXCEPT ![r.job] = r.budget - r.attempt]
<1>1. RunningJobs = {r.job}
  BY DEF RunningJobs
<1>2. (CHOOSE x \in running : x.job = r.job) = r
  OBVIOUS
<1>3. \A j \in Job : j # r.job => stateBar[j] = StateAtRest(fate)[j] /\ leftBar[j] = LeftAtRest(jobs, fate)[j]
  BY <1>1 DEF stateBar, leftBar, StateAtRest, LeftAtRest, LeftOf
<1>4. stateBar[r.job] = "active" /\ leftBar[r.job] = r.budget - r.attempt
  BY <1>1, <1>2 DEF stateBar, leftBar
<1>5. stateBar = [j \in Job |-> stateBar[j]] /\ leftBar = [j \in Job |-> leftBar[j]]
  BY DEF stateBar, leftBar
<1> HIDE DEF stateBar, leftBar
<1>6. QED
  BY <1>3, <1>4, <1>5 DEF StateAtRest, LeftAtRest

\* A turn of the drain's loop, as the contract sees it.
Starts(k, s, l) ==
  /\ ~isClosed /\ gap = 0 /\ gap' = Interval /\ k \in Job
  /\ s[k] = "waiting" /\ l[k] > 0
  /\ stateBar' = [s EXCEPT ![k] = "active"]
  /\ leftBar' = [l EXCEPT ![k] = @ - 1]

\* A drain that starts a job is a start of the contract, of what is at rest before.
LEMMA DrainStarts ==
  ASSUME NEW q \in Seq(QueuedJob), NEW f \in [Job -> Fates], Held(q, {}, f, isClosed), fate' = f, StartNext(q, {})
  PROVE  \E k : Starts(k, StateAtRest(f), LeftAtRest(q, f))
<1>1. PICK i \in DOMAIN q :
        /\ jobs' = RemoveAt(q, i)
        /\ running' = {[job |-> q[i].job, attempt |-> q[i].attempt + 1, budget |-> q[i].budget]}
  BY DEF StartNext, Ready
<1> DEFINE k == q[i].job
           r == [job |-> k, attempt |-> q[i].attempt + 1, budget |-> q[i].budget]
           s == StateAtRest(f)
           l == LeftAtRest(q, f)
<1>2. /\ k \in Job /\ k \in JobsOf(q) /\ q[i].attempt \in Nat /\ q[i].budget \in Nat
      /\ Sound(q) /\ ~isClosed /\ gap = 0 /\ gap' = Interval
  BY EntryTyped DEF StartNext, MayStart, Held
<1>3. f[k] = "live" /\ LeftOf(q, k) = q[i].budget - q[i].attempt /\ q[i].attempt < q[i].budget
  BY <1>2, LeftIs DEF Held, Sound
<1>4. s[k] = "waiting" /\ l[k] = q[i].budget - q[i].attempt /\ l[k] > 0
  BY <1>2, <1>3 DEF StateAtRest, LeftAtRest
<1>5. \A j \in Job : j # k /\ f[j] = "live" => LeftOf(jobs', j) = LeftOf(q, j)
  BY <1>1, <1>2, RemoveSound DEF Held
<1>6. running' = {r} /\ r.job = k /\ r.budget - r.attempt = l[k] - 1
  BY <1>1, <1>2, <1>4
<1>7. /\ stateBar' = [StateAtRest(fate') EXCEPT ![k] = "active"]
      /\ leftBar' = [LeftAtRest(jobs', fate') EXCEPT ![k] = l[k] - 1]
  <2>1. RunningJobs' = {k}
    BY <1>6 DEF RunningJobs
  <2>2. (CHOOSE x \in running' : x.job = k) = r
    BY <1>6
  <2> HIDE DEF r, l
  <2>3. \A j \in Job : j # k =>
          stateBar'[j] = StateAtRest(fate')[j] /\ leftBar'[j] = LeftAtRest(jobs', fate')[j]
    BY <2>1 DEF stateBar, leftBar, StateAtRest, LeftAtRest, LeftOf
  <2>4. stateBar'[k] = "active" /\ leftBar'[k] = l[k] - 1
    BY <1>2, <1>6, <2>1, <2>2 DEF stateBar, leftBar
  <2>5. stateBar' = [j \in Job |-> stateBar'[j]] /\ leftBar' = [j \in Job |-> leftBar'[j]]
    BY DEF stateBar, leftBar
  <2>6. QED
    BY <2>3, <2>4, <2>5 DEF StateAtRest, LeftAtRest
<1>8. stateBar' = [s EXCEPT ![k] = "active"]
  BY <1>7
<1>9. leftBar' = [l EXCEPT ![k] = @ - 1]
  <2>1. \A j \in Job : j # k => LeftAtRest(jobs', fate')[j] = l[j]
    BY <1>5 DEF LeftAtRest
  <2>2. leftBar' = [j \in Job |-> IF j = k THEN l[k] - 1 ELSE LeftAtRest(jobs', fate')[j]]
    BY <1>7 DEF LeftAtRest
  <2>3. [l EXCEPT ![k] = @ - 1] = [j \in Job |-> IF j = k THEN l[k] - 1 ELSE l[j]]
    BY DEF LeftAtRest
  <2> HIDE DEF k, l
  <2>4. QED
    BY <2>1, <2>2, <2>3
<1>10. Starts(k, s, l)
  BY <1>2, <1>4, <1>8, <1>9 DEF Starts
<1>11. QED
  BY <1>10

\* The contract sees no more than who carries which job, and what is left.
LEMMA BarsStay ==
  ASSUME HoldInv, running' = running, fate' = fate, \A j \in JobsOf(jobs) : LeftOf(jobs', j) = LeftOf(jobs, j)
  PROVE  stateBar' = stateBar /\ leftBar' = leftBar
<1>1. RunningJobs' = RunningJobs /\ stateBar' = stateBar
  BY DEF RunningJobs, stateBar
<1>2. \A j \in Job : j \notin RunningJobs /\ fate[j] = "live" => LeftOf(jobs', j) = LeftOf(jobs, j)
  BY DEF HoldInv, Held, RunningJobs
<1>3. leftBar = [j \in Job |->
        IF j \in RunningJobs THEN LET r == CHOOSE x \in running : x.job = j IN r.budget - r.attempt
        ELSE IF fate[j] = "live" THEN LeftOf(jobs, j) ELSE 0]
  BY DEF leftBar, LeftOf
<1>4. leftBar' = [j \in Job |->
        IF j \in RunningJobs THEN LET r == CHOOSE x \in running : x.job = j IN r.budget - r.attempt
        ELSE IF fate[j] = "live" THEN LeftOf(jobs', j) ELSE 0]
  BY <1>1 DEF leftBar, LeftOf
<1>5. leftBar' = leftBar
  BY <1>2, <1>3, <1>4
<1>6. QED
  BY <1>1, <1>5

\* A new job waits with all its attempts.
LEMMA BarsAdd ==
  ASSUME HoldInv, TypeOK, SingleFlight, NEW j \in Job, fate[j] = "new", running' = running,
         fate' = [fate EXCEPT ![j] = "live"],
         \A k \in JobsOf(jobs) : LeftOf(jobs', k) = LeftOf(jobs, k)
  PROVE  /\ stateBar[j] = "new" /\ stateBar' = [stateBar EXCEPT ![j] = "waiting"]
         /\ leftBar' = [leftBar EXCEPT ![j] = LeftOf(jobs', j)]
<1>1. RunningJobs' = RunningJobs /\ j \notin RunningJobs
  BY DEF RunningJobs, HoldInv, Held
<1>2. fate \in [Job -> Fates] /\ fate' \in [Job -> Fates] /\ fate'[j] = "live" /\ \A k \in Job : k # j => fate'[k] = fate[k]
  BY DEF TypeOK, Fates
<1>3. stateBar[j] = "new" /\ stateBar' = [stateBar EXCEPT ![j] = "waiting"]
  BY <1>1, <1>2 DEF stateBar
<1>4. \A k \in Job : k \notin RunningJobs /\ fate[k] = "live" => LeftOf(jobs', k) = LeftOf(jobs, k)
  BY DEF HoldInv, Held, RunningJobs
<1>5. leftBar = [k \in Job |->
        IF k \in RunningJobs THEN LET r == CHOOSE x \in running : x.job = k IN r.budget - r.attempt
        ELSE IF fate[k] = "live" THEN LeftOf(jobs, k) ELSE 0]
  BY DEF leftBar, LeftOf
<1>6. leftBar' = [k \in Job |->
        IF k \in RunningJobs THEN LET r == CHOOSE x \in running : x.job = k IN r.budget - r.attempt
        ELSE IF fate'[k] = "live" THEN LeftOf(jobs', k) ELSE 0]
  BY <1>1 DEF leftBar, LeftOf
<1>7. leftBar' = [leftBar EXCEPT ![j] = LeftOf(jobs', j)]
  BY <1>1, <1>2, <1>4, <1>5, <1>6
<1>8. QED
  BY <1>3, <1>7

\* A handler of r is done: what the contract shows of its job, the rest being at rest.
LEMMA BarsLeave ==
  ASSUME HoldInv, TypeOK, SingleFlight, NEW r \in running
  PROVE  /\ r.job \in Job /\ running = {r} /\ fate[r.job] = "live" /\ r.budget - r.attempt \in Nat
         /\ stateBar[r.job] = "active" /\ \A j \in Job \ {r.job} : stateBar[j] # "active"
         /\ \A j \in Job \ {r.job} : stateBar[j] = StateAtRest(fate)[j] /\ leftBar[j] = LeftAtRest(jobs, fate)[j]
         /\ leftBar[r.job] = r.budget - r.attempt
         /\ stateBar = [j \in Job |-> stateBar[j]] /\ leftBar = [j \in Job |-> leftBar[j]]
<1>1. /\ r.job \in Job /\ running = {r} /\ fate[r.job] = "live" /\ fate \in [Job -> Fates]
      /\ r.attempt \in Nat /\ r.budget \in Nat /\ r.attempt <= r.budget
  BY QueueAssumption DEF TypeOK, Running, SingleFlight, HoldInv, Held
<1>2. /\ stateBar = [StateAtRest(fate) EXCEPT ![r.job] = "active"]
      /\ leftBar = [LeftAtRest(jobs, fate) EXCEPT ![r.job] = r.budget - r.attempt]
  BY <1>1, BarsBusy
<1>3. \A j \in Job : StateAtRest(fate)[j] # "active"
  BY <1>1 DEF StateAtRest, Fates
<1>4. /\ stateBar[r.job] = "active" /\ leftBar[r.job] = r.budget - r.attempt
      /\ \A j \in Job \ {r.job} : stateBar[j] = StateAtRest(fate)[j] /\ leftBar[j] = LeftAtRest(jobs, fate)[j]
  <2>1. DOMAIN StateAtRest(fate) = Job /\ DOMAIN LeftAtRest(jobs, fate) = Job
    BY DEF StateAtRest, LeftAtRest
  <2>2. QED
    BY <1>1, <1>2, <2>1
<1>5. stateBar = [j \in Job |-> stateBar[j]] /\ leftBar = [j \in Job |-> leftBar[j]]
  BY DEF stateBar, leftBar
<1>6. r.budget - r.attempt \in Nat
  BY <1>1
<1> HIDE DEF stateBar, leftBar
<1>7. QED
  BY <1>1, <1>3, <1>4, <1>5, <1>6

\* Whatever the handler came to: the drain goes on from there.
LEMMA LeaveRefines ==
  ASSUME HoldInv, TypeOK, SingleFlight, NEW r \in running, NEW q \in Seq(QueuedJob), NEW f \in [Job -> Fates],
         Held(q, {}, f, isClosed), fate' = f, isClosed' = isClosed,
         StartNext(q, {}) \/ (jobs' = q /\ running' = {} /\ gap' = gap),
         NEW s \in {"done", "waiting", "lost"}, s \in Contract!Fates(r.job),
         StateAtRest(f) = [stateBar EXCEPT ![r.job] = s],
         LeftAtRest(q, f) = IF s = "waiting" THEN leftBar ELSE [leftBar EXCEPT ![r.job] = 0]
  PROVE  Contract!Next
<1>1. /\ r.job \in Job /\ stateBar[r.job] = "active" /\ \A j \in Job \ {r.job} : stateBar[j] # "active"
  BY BarsLeave
<1>2. CASE jobs' = q /\ running' = {} /\ gap' = gap
  <2>1. stateBar' = StateAtRest(f) /\ leftBar' = LeftAtRest(q, f)
    <3>1. RunningJobs' = {}
      BY <1>2 DEF RunningJobs
    <3>2. QED
      BY <1>2, <3>1 DEF stateBar, leftBar, StateAtRest, LeftAtRest, LeftOf
  <2>2. Contract!Leave(r.job, s)
    BY <1>1, <1>2, <2>1 DEF Contract!Leave
  <2>3. QED
    BY <1>1, <2>2 DEF Contract!Next
<1>3. CASE StartNext(q, {})
  <2>1. PICK k : Starts(k, StateAtRest(f), LeftAtRest(q, f))
    BY <1>3, DrainStarts
  <2>2. Contract!Handover(r.job, s, k)
    BY <1>1, <2>1 DEF Starts, Contract!Handover, Contract!MayStart
  <2>3. k \in Job
    BY <2>1 DEF Starts
  <2>4. QED
    BY <1>1, <2>2, <2>3 DEF Contract!Next
<1>4. QED
  BY <1>2, <1>3

\* Every step of the driver is a step of the contract, or changes nothing it shows.
LEMMA StepContract ==
  ASSUME TypeOK, SingleFlight, HoldInv, HoldInv', [Next]_vars
  PROVE  [Contract!Next]_(Contract!vars)
<1>0. jobs \in Seq(QueuedJob) /\ fate \in [Job -> Fates]
  BY DEF TypeOK
<1>1. ASSUME NEW j \in Job, Add(j) PROVE Contract!Next
  <2>1. PICK d \in Delays, b \in Budgets :
          jobs' = Append(jobs, [job |-> j, attempt |-> 0, budget |-> b, wait |-> d])
    BY <1>1 DEF Add
  <2>2. [job |-> j, attempt |-> 0, budget |-> b, wait |-> d] \in QueuedJob /\ 0 < b /\ b - 0 = b
    BY QueueAssumption DEF QueuedJob
  <2>3. /\ ~isClosed /\ isClosed' = isClosed /\ gap' = gap /\ fate[j] = "new" /\ running' = running
        /\ fate' = [fate EXCEPT ![j] = "live"]
    BY <1>1 DEF Add
  <2>4. Sound(jobs) /\ j \notin JobsOf(jobs)
    BY <2>3 DEF HoldInv, Held
  <2>5. LeftOf(jobs', j) = b /\ \A k \in JobsOf(jobs) : LeftOf(jobs', k) = LeftOf(jobs, k)
    BY <1>0, <2>1, <2>2, <2>4, AppendSound
  <2>6. /\ stateBar[j] = "new" /\ stateBar' = [stateBar EXCEPT ![j] = "waiting"]
        /\ leftBar' = [leftBar EXCEPT ![j] = b]
    BY <2>3, <2>5, BarsAdd
  <2>7. Contract!Add(j)
    BY <2>3, <2>6 DEF Contract!Add
  <2>8. QED
    BY <2>7 DEF Contract!Next
<1>2. ASSUME jobs' = jobs, running' = running, fate' = fate, gap' = gap, isClosed' = isClosed
      PROVE  UNCHANGED Contract!vars
  BY <1>2, BarsStay DEF Contract!vars
<1>3. CASE TimerFires
  <2>1. CASE running = {} /\ StartNext(jobs, {})
    <3>1. stateBar = StateAtRest(fate) /\ leftBar = LeftAtRest(jobs, fate)
      BY <2>1, BarsIdle
    <3>2. isClosed' = isClosed /\ fate' = fate
      BY <1>3, FiringDrains
    <3>3. PICK k : Starts(k, stateBar, leftBar)
      BY <1>0, <2>1, <3>1, <3>2, DrainStarts DEF HoldInv
    <3>4. \A j \in Job : stateBar[j] # "active"
      BY <1>0, <3>1 DEF StateAtRest, Fates
    <3>5. Contract!Start(k)
      BY <3>2, <3>3, <3>4 DEF Starts, Contract!Start, Contract!MayStart
    <3>6. QED
      BY <3>3, <3>5 DEF Starts, Contract!Next
  <2>2. CASE jobs' = jobs /\ running' = running /\ gap' = gap
    BY <1>2, <1>3, <2>2, FiringDrains
  <2>3. QED
    BY <1>3, <2>1, <2>2, FiringDrains
<1>4. ASSUME NEW r \in running, JobEnds(r) PROVE Contract!Next
  <2> DEFINE f == [fate EXCEPT ![r.job] = "done"]
  <2>1. fate' = f /\ isClosed' = isClosed /\ GoOn(r, jobs)
    BY <1>4 DEF JobEnds
  <2>2. StartNext(jobs, {}) \/ (jobs' = jobs /\ running' = {} /\ gap' = gap)
    BY <2>1, GoOnDrains
  <2>3. Held(jobs, {}, f, isClosed) /\ f \in [Job -> Fates]
    BY <1>0, EndHolds DEF Fates
  <2>4. "done" \in Contract!Fates(r.job)
    BY DEF Contract!Fates
  <2>5. /\ StateAtRest(f) = [stateBar EXCEPT ![r.job] = "done"]
        /\ LeftAtRest(jobs, f) = [leftBar EXCEPT ![r.job] = 0]
    <3>1. f[r.job] = "done" /\ \A j \in Job \ {r.job} : f[j] = fate[j]
      BY <1>0, BarsLeave
    <3> HIDE DEF f
    <3>2. \A j \in Job \ {r.job} : StateAtRest(f)[j] = stateBar[j] /\ LeftAtRest(jobs, f)[j] = leftBar[j]
      BY <3>1, BarsLeave DEF StateAtRest, LeftAtRest
    <3>3. r.job \in Job => StateAtRest(f)[r.job] = "done" /\ LeftAtRest(jobs, f)[r.job] = 0
      BY <3>1 DEF StateAtRest, LeftAtRest
    <3>4. /\ StateAtRest(f) = [j \in Job |-> StateAtRest(f)[j]]
          /\ LeftAtRest(jobs, f) = [j \in Job |-> LeftAtRest(jobs, f)[j]]
      BY DEF StateAtRest, LeftAtRest
    <3>5. QED
      BY <3>2, <3>3, <3>4, BarsLeave
  <2> HIDE DEF f
  <2>6. QED
    BY <1>0, <2>1, <2>2, <2>3, <2>4, <2>5, LeaveRefines
<1>5. ASSUME NEW r \in running, JobRetries(r) PROVE Contract!Next
  <2> DEFINE s == IF isClosed THEN "lost" ELSE "waiting"
             f == [fate EXCEPT ![r.job] = IF isClosed THEN "lost" ELSE "live"]
  <2>1. PICK d \in {RetryAfter, Backoff(r.attempt)} :
          GoOn(r, Append(jobs, [job |-> r.job, attempt |-> r.attempt, budget |-> r.budget, wait |-> d]))
    BY <1>5 DEF JobRetries
  <2> DEFINE q == Append(jobs, [job |-> r.job, attempt |-> r.attempt, budget |-> r.budget, wait |-> d])
  <2>2. r.attempt < r.budget /\ fate' = f /\ isClosed' = isClosed
    BY <1>5 DEF JobRetries
  <2>3. /\ q \in Seq(QueuedJob) /\ Held(q, {}, f, isClosed) /\ LeftOf(q, r.job) = r.budget - r.attempt
        /\ \A j \in JobsOf(jobs) : LeftOf(q, j) = LeftOf(jobs, j)
    BY <2>2, RetryHolds
  <2>4. StartNext(q, {}) \/ (jobs' = q /\ running' = {} /\ gap' = gap)
    BY <2>1, GoOnDrains
  <2>5. f \in [Job -> Fates]
    BY <1>0 DEF Fates
  <2>6. f[r.job] = (IF isClosed THEN "lost" ELSE "live") /\ \A j \in Job \ {r.job} : f[j] = fate[j]
    BY <1>0, BarsLeave
  <2> HIDE DEF q, f
  <2>7. s \in Contract!Fates(r.job)
    <3>1. leftBar[r.job] > 0
      <4>1. r.attempt \in Nat /\ r.budget \in Nat
        BY QueueAssumption DEF TypeOK, Running
      <4>2. QED
        BY <2>2, <4>1, BarsLeave
    <3>2. QED
      BY <3>1 DEF Contract!Fates
  <2>8. StateAtRest(f) = [stateBar EXCEPT ![r.job] = s]
    <3>1. \A j \in Job \ {r.job} : StateAtRest(f)[j] = stateBar[j]
      BY <2>6, BarsLeave DEF StateAtRest
    <3>2. r.job \in Job => StateAtRest(f)[r.job] = s
      BY <2>6 DEF StateAtRest
    <3>3. StateAtRest(f) = [j \in Job |-> StateAtRest(f)[j]]
      BY DEF StateAtRest
    <3> HIDE DEF s
    <3>4. QED
      BY <3>1, <3>2, <3>3, BarsLeave
  <2>9. LeftAtRest(q, f) = IF s = "waiting" THEN leftBar ELSE [leftBar EXCEPT ![r.job] = 0]
    <3>1. \A j \in Job \ {r.job} : LeftAtRest(q, f)[j] = leftBar[j]
      <4>1. \A j \in Job \ {r.job} : fate[j] = "live" => j \in JobsOf(jobs)
        BY BarsLeave DEF HoldInv, Held
      <4>2. QED
        BY <2>3, <2>6, <4>1, BarsLeave DEF LeftAtRest
    <3>2. r.job \in Job => LeftAtRest(q, f)[r.job] = IF isClosed THEN 0 ELSE leftBar[r.job]
      BY <2>3, <2>6, BarsLeave DEF LeftAtRest
    <3>3. LeftAtRest(q, f) = [j \in Job |-> LeftAtRest(q, f)[j]]
      BY DEF LeftAtRest
    <3>4. CASE isClosed
      BY <3>1, <3>2, <3>3, <3>4, BarsLeave
    <3>5. CASE ~isClosed
      BY <3>1, <3>2, <3>3, <3>5, BarsLeave
    <3>6. QED
      BY <3>4, <3>5
  <2>10. s \in {"done", "waiting", "lost"}
    OBVIOUS
  <2> HIDE DEF s
  <2>11. QED
    BY <2>2, <2>3, <2>4, <2>5, <2>7, <2>8, <2>9, <2>10, LeaveRefines
<1>6. CASE Close
  <2>1. \A j \in Job : fate'[j] = IF j \in JobsOf(jobs) THEN "lost" ELSE fate[j]
    BY <1>6 DEF Close, JobsOf
  <2>2. ~isClosed /\ isClosed' = TRUE /\ running' = running /\ gap' = gap
    BY <1>6 DEF Close
  <2>3. \A j \in Job : j \notin RunningJobs => (fate[j] = "live" <=> j \in JobsOf(jobs))
    BY <2>2 DEF HoldInv, Held, RunningJobs
  <2>4. RunningJobs' = RunningJobs /\ \A j \in RunningJobs : j \notin JobsOf(jobs)
    BY <2>2 DEF HoldInv, Held, RunningJobs
  <2>5. \A j \in Job : stateBar[j] = "waiting" <=> j \notin RunningJobs /\ fate[j] = "live"
    BY <1>0 DEF stateBar, Fates
  <2>6. stateBar' = [j \in Job |-> IF stateBar[j] = "waiting" THEN "lost" ELSE stateBar[j]]
    BY <1>0, <2>1, <2>3, <2>4 DEF stateBar, Fates
  <2>7. leftBar' = [j \in Job |-> IF stateBar[j] = "waiting" THEN 0 ELSE leftBar[j]]
    <3>1. \A j \in RunningJobs : j \in Job => leftBar'[j] = leftBar[j] /\ stateBar[j] = "active"
      BY <2>2, <2>4 DEF leftBar, stateBar
    <3>2. \A j \in Job \ RunningJobs : fate'[j] # "live" /\ leftBar'[j] = 0
      BY <2>1, <2>3, <2>4 DEF leftBar
    <3>3. \A j \in Job \ RunningJobs : stateBar[j] # "waiting" => leftBar[j] = 0
      BY <2>5 DEF leftBar
    <3>4. leftBar' = [j \in Job |-> leftBar'[j]]
      BY DEF leftBar
    <3> HIDE DEF leftBar, stateBar
    <3>5. QED
      BY <3>1, <3>2, <3>3, <3>4
  <2>8. Contract!Close
    BY <2>2, <2>6, <2>7 DEF Contract!Close
  <2>9. QED
    BY <2>8 DEF Contract!Next
<1>7. CASE Tick
  <2>1. \A j \in JobsOf(jobs) : LeftOf(jobs', j) = LeftOf(jobs, j)
    <3>1. Sound(jobs) /\ Sound(jobs')
      BY DEF HoldInv, Held
    <3>2. ASSUME NEW i \in DOMAIN jobs PROVE LeftOf(jobs', jobs[i].job) = LeftOf(jobs, jobs[i].job)
      BY <1>7, <3>1, TickSound, LeftStays
    <3>3. QED
      BY <3>2 DEF JobsOf
  <2>2. stateBar' = stateBar /\ leftBar' = leftBar
    BY <1>7, <2>1, BarsStay DEF Tick
  <2>3. isClosed' = isClosed /\ gap \in Nat /\ gap' = IF gap > 0 THEN gap - 1 ELSE gap
    BY <1>7 DEF Tick, Less, TypeOK
  <2>4. CASE gap > 0
    BY <2>2, <2>3, <2>4 DEF Contract!Wait, Contract!Next
  <2>5. CASE ~(gap > 0)
    BY <2>2, <2>3, <2>5 DEF Contract!vars
  <2>6. QED
    BY <2>4, <2>5
<1>8. CASE Process \/ UNCHANGED vars
  BY <1>2, <1>8 DEF Process, vars
<1>9. QED
  BY <1>1, <1>3, <1>4, <1>5, <1>6, <1>7, <1>8 DEF Next

(***************************************************************************)
(* The driver keeps the promise of the QueueDriver interface.              *)
(***************************************************************************)
THEOREM DriverKeepsContract == Spec => ImplementsJobQueue
<1>1. Init => Contract!Init
  BY DEF Init, Contract!Init, stateBar, leftBar, RunningJobs
<1>2. Init => TypeOK /\ SingleFlight /\ HoldInv
  BY InitTypeOK, HoldInit DEF Init, SingleFlight
<1>3. TypeOK /\ SingleFlight /\ HoldInv /\ [Next]_vars => TypeOK' /\ SingleFlight' /\ HoldInv'
  BY StepTypeOK, StepSingle, HoldStep
<1>4. TypeOK /\ SingleFlight /\ HoldInv /\ HoldInv' /\ [Next]_vars => [Contract!Next]_(Contract!vars)
  BY StepContract
<1>5. QED
  BY <1>1, <1>2, <1>3, <1>4, PTL DEF Spec, ImplementsJobQueue, Contract!Spec

=============================================================================
