------------------------- MODULE EmailDeliveryProofs -------------------------
(***************************************************************************)
(* Theorems about EmailDelivery, for every value of its constants.         *)
(***************************************************************************)
EXTENDS EmailDelivery, FiniteSetTheorems, TLAPS

-----------------------------------------------------------------------------
(***************************************************************************)
(* Type correctness.  TypeOK is not inductive: the retry of no message     *)
(* would put None where a message belongs, and a worker that shares its    *)
(* job with another could hand it back after the other has ended it.       *)
(* HandsOK adds that whoever is at work is at work on a message, and that  *)
(* a running job is in the hands of the one worker that took it.           *)
(***************************************************************************)
JobHandsOK == \A j \in Job : job[j].state # "free" => job[j].email \in Email

WorkerHandsOK ==
  /\ \A w \in Worker : worker[w].pc # "idle" => worker[w].email \in Email
  /\ \A w \in Worker : worker[w].pc = "idle" => worker[w].job = None
  /\ \A w \in Worker : worker[w].job # None =>
       /\ job[worker[w].job].state = "active"
       /\ job[worker[w].job].email = worker[w].email
  /\ \A v, w \in Worker : worker[v].job # None /\ worker[v].job = worker[w].job => v = w

RetryHandsOK == \A r \in Retrier : retrying[r].pc # "idle" => retrying[r].email \in Email

TypeInv == TypeOK /\ JobHandsOK /\ WorkerHandsOK /\ RetryHandsOK

LEMMA InitTypeInv == Init => TypeInv
BY DeliveryAssumption
   DEF Init, TypeInv, JobHandsOK, WorkerHandsOK, RetryHandsOK, TypeOK, Statuses,
       JobRecord, FreeJob, WorkerRecord, Idle, RetryRecord, NoRetry

\* What an enqueue does to the queue.
LEMMA EnqueueTyped ==
  ASSUME TypeInv, NEW e \in Email, Enqueue(e), UNCHANGED worker
  PROVE  job' \in [Job -> JobRecord] /\ JobHandsOK' /\ WorkerHandsOK'
<1>1. PICK j \in Job :
        /\ job[j].state = "free"
        /\ job' = [job EXCEPT ![j] =
                     [state |-> "waiting", email |-> e, tries |-> 0, stalls |-> 0]]
  BY DEF Enqueue
<1>2. job' \in [Job -> JobRecord]
  BY <1>1 DEF TypeInv, TypeOK, JobRecord
<1>3. JobHandsOK'
  BY <1>1 DEF TypeInv, TypeOK, JobHandsOK
<1>4. WorkerHandsOK'
  BY <1>1 DEF TypeInv, TypeOK, WorkerHandsOK, WorkerRecord
<1> QED
  BY <1>2, <1>3, <1>4

\* What the end of an invocation does to the queue and to the workers.
LEMMA EndJobTyped ==
  ASSUME TypeInv, NEW w \in Worker, NEW s, EndJob(w, s),
         worker[w].job # None => s \in JobRecord /\ (s.state # "free" => s.email \in Email)
  PROVE  /\ job' \in [Job -> JobRecord]
         /\ worker' \in [Worker -> WorkerRecord]
         /\ JobHandsOK' /\ WorkerHandsOK'
<1> USE DeliveryAssumption DEF TypeInv, TypeOK
<1>1. worker' = [worker EXCEPT ![w] = Idle] /\ Idle \in WorkerRecord
  BY DEF EndJob, Idle, WorkerRecord
<1>2. worker' \in [Worker -> WorkerRecord]
  BY <1>1
<1>3. CASE worker[w].job = None
  <2>1. job' = job
    BY <1>3 DEF EndJob
  <2> QED
    BY <1>1, <1>2, <2>1 DEF JobHandsOK, WorkerHandsOK, Idle
<1>4. CASE worker[w].job # None
  <2>1. job' = [job EXCEPT ![worker[w].job] = s] /\ worker[w].job \in Job
    BY <1>4 DEF EndJob, WorkerRecord
  <2>2. job' \in [Job -> JobRecord] /\ JobHandsOK'
    BY <1>4, <2>1 DEF JobHandsOK
  <2>3. WorkerHandsOK'
    BY <1>1, <1>4, <2>1 DEF WorkerHandsOK, Idle, WorkerRecord
  <2> QED
    BY <1>2, <2>2, <2>3
<1> QED
  BY <1>3, <1>4

\* A step of the handler that only moves it on.
LEMMA GotoTyped ==
  ASSUME TypeInv, NEW w \in Worker, ~At(w, "idle"), UNCHANGED job,
         NEW pc \in {"mark", "send", "sent", "fail"}, Goto(w, pc)
  PROVE  /\ job' \in [Job -> JobRecord]
         /\ worker' \in [Worker -> WorkerRecord]
         /\ JobHandsOK' /\ WorkerHandsOK'
<1> USE DEF TypeInv, TypeOK, Goto, At
<1>1. worker' \in [Worker -> WorkerRecord]
  BY DEF WorkerRecord
<1>2. JobHandsOK'
  BY DEF JobHandsOK
<1>3. WorkerHandsOK'
  BY DEF WorkerHandsOK, WorkerRecord
<1> QED
  BY <1>1, <1>2, <1>3

LEMMA FreeJobTyped == FreeJob \in JobRecord /\ FreeJob.state = "free"
BY DEF FreeJob, JobRecord

LEMMA RedeliveredTyped ==
  ASSUME TypeInv, NEW j \in Job, job[j].state # "free"
  PROVE  /\ Redelivered(j) \in JobRecord
         /\ Redelivered(j).state \in {"free", "waiting"}
         /\ Redelivered(j).state # "free" => Redelivered(j).email \in Email
<1>1. CASE job[j].stalls < MaxStalls
  <2>1. job[j] \in JobRecord /\ job[j].email \in Email
    BY DEF TypeInv, TypeOK, JobHandsOK
  <2> QED
    BY <1>1, <2>1 DEF Redelivered, JobRecord
<1>2. CASE ~(job[j].stalls < MaxStalls)
  BY <1>2, FreeJobTyped DEF Redelivered
<1> QED
  BY <1>1, <1>2

LEMMA StepTypeInv == TypeInv /\ [Next]_vars => TypeInv'
<1> SUFFICES ASSUME TypeInv, [Next]_vars PROVE TypeInv'
  OBVIOUS
<1> USE DeliveryAssumption, FreeJobTyped DEF records, copies
<1>1. ASSUME NEW c \in Composer, NEW es \in SUBSET Email, Compose(c, es) PROVE TypeInv'
  BY <1>1 DEF Compose, TypeInv, TypeOK, JobHandsOK, WorkerHandsOK, RetryHandsOK, Statuses
<1>2. ASSUME NEW r \in Retrier, NEW e \in Email, RetryFind(r, e) PROVE TypeInv'
  BY <1>2 DEF RetryFind, TypeInv, TypeOK, JobHandsOK, WorkerHandsOK, RetryHandsOK, RetryRecord
<1>3. ASSUME NEW c \in Composer, ComposeFails(c) PROVE TypeInv'
  BY <1>3 DEF ComposeFails, TypeInv, TypeOK, JobHandsOK, WorkerHandsOK, RetryHandsOK
<1>4. ASSUME NEW c \in Composer, NEW e \in Email, ComposeEnqueue(c, e) PROVE TypeInv'
  <2>1. job' \in [Job -> JobRecord] /\ JobHandsOK' /\ WorkerHandsOK'
    BY <1>4, EnqueueTyped DEF ComposeEnqueue
  <2> QED
    BY <1>4, <2>1 DEF ComposeEnqueue, TypeInv, TypeOK, RetryHandsOK
<1>5. ASSUME NEW r \in Retrier, RetryReset(r) PROVE TypeInv'
  BY <1>5 DEF RetryReset, TypeInv, TypeOK, JobHandsOK, WorkerHandsOK, RetryHandsOK,
              RetryRecord, Statuses
<1>6. ASSUME NEW r \in Retrier, RetryEnqueue(r) PROVE TypeInv'
  <2>1. retrying[r].email \in Email
    BY <1>6 DEF RetryEnqueue, TypeInv, RetryHandsOK
  <2>2. job' \in [Job -> JobRecord] /\ JobHandsOK' /\ WorkerHandsOK'
    BY <1>6, <2>1, EnqueueTyped DEF RetryEnqueue
  <2> QED
    BY <1>6, <2>2 DEF RetryEnqueue, TypeInv, TypeOK, RetryHandsOK, RetryRecord, NoRetry
<1>7. ASSUME NEW r \in Retrier, RetryFails(r) PROVE TypeInv'
  BY <1>7 DEF RetryFails, TypeInv, TypeOK, JobHandsOK, WorkerHandsOK, RetryHandsOK,
              RetryRecord, NoRetry
<1>8. ASSUME NEW w \in Worker, NEW j \in Job, Pick(w, j) PROVE TypeInv'
  <2>1. job[j] \in JobRecord /\ job[j].email \in Email
    BY <1>8 DEF Pick, TypeInv, TypeOK, JobHandsOK
  <2>2. job' \in [Job -> JobRecord] /\ JobHandsOK'
    BY <1>8, <2>1 DEF Pick, TypeInv, TypeOK, JobHandsOK, JobRecord
  <2>3. worker' \in [Worker -> WorkerRecord]
    BY <1>8, <2>1 DEF Pick, TypeInv, TypeOK, WorkerRecord, JobRecord
  <2>4. WorkerHandsOK'
    <3> USE <1>8, <2>1 DEF Pick, TypeInv, TypeOK, WorkerHandsOK, WorkerRecord, JobRecord, At
    <3>1. \A v \in Worker : v # w => worker'[v] = worker[v] /\ worker[v].job # j
      OBVIOUS
    <3>2. worker'[w].pc = "read" /\ worker'[w].job = j /\ worker'[w].email = job[j].email
      OBVIOUS
    <3>3. job'[j].state = "active" /\ job'[j].email = job[j].email /\ \A i \in Job : i # j => job'[i] = job[i]
      OBVIOUS
    <3> QED
      BY <3>1, <3>2, <3>3
  <2> QED
    BY <1>8, <2>2, <2>3, <2>4 DEF Pick, TypeInv, TypeOK, RetryHandsOK
<1>9. ASSUME NEW w \in Worker, Read(w) PROVE TypeInv'
  <2>1. /\ job' \in [Job -> JobRecord] /\ worker' \in [Worker -> WorkerRecord]
        /\ JobHandsOK' /\ WorkerHandsOK'
    BY <1>9, EndJobTyped, GotoTyped DEF Read, At
  <2> QED
    BY <1>9, <2>1 DEF Read, TypeInv, TypeOK, RetryHandsOK
<1>10. ASSUME NEW w \in Worker, MarkSending(w) PROVE TypeInv'
  <2>1. /\ job' \in [Job -> JobRecord] /\ worker' \in [Worker -> WorkerRecord]
        /\ JobHandsOK' /\ WorkerHandsOK'
    BY <1>10, GotoTyped DEF MarkSending, At
  <2>2. worker[w].email \in Email
    BY <1>10 DEF MarkSending, At, TypeInv, WorkerHandsOK
  <2> QED
    BY <1>10, <2>1, <2>2 DEF MarkSending, TypeInv, TypeOK, RetryHandsOK, Statuses
<1>11. ASSUME NEW w \in Worker, Refused(w) PROVE TypeInv'
  <2>1. /\ job' \in [Job -> JobRecord] /\ worker' \in [Worker -> WorkerRecord]
        /\ JobHandsOK' /\ WorkerHandsOK'
    BY <1>11, GotoTyped DEF Refused, At
  <2> QED
    BY <1>11, <2>1 DEF Refused, TypeInv, TypeOK, RetryHandsOK
<1>12. ASSUME NEW w \in Worker, Accepted(w) PROVE TypeInv'
  <2>1. /\ job' \in [Job -> JobRecord] /\ worker' \in [Worker -> WorkerRecord]
        /\ JobHandsOK' /\ WorkerHandsOK'
    BY <1>12, GotoTyped DEF Accepted, At
  <2>2. worker[w].email \in Email
    BY <1>12 DEF Accepted, At, TypeInv, WorkerHandsOK
  <2> QED
    BY <1>12, <2>1, <2>2 DEF Accepted, TypeInv, TypeOK, RetryHandsOK
<1>13. ASSUME NEW w \in Worker, Transient(w) PROVE TypeInv'
  <2>1. worker[w] \in WorkerRecord /\ worker[w].email \in Email
    BY <1>13 DEF Transient, At, TypeInv, TypeOK, WorkerHandsOK
  <2>2. worker[w].job # None =>
          /\ AfterRetryable(w) \in JobRecord
          /\ AfterRetryable(w).state # "free" => AfterRetryable(w).email \in Email
    BY <2>1 DEF AfterRetryable, TypeInv, TypeOK, WorkerRecord, JobRecord
  <2>3. /\ job' \in [Job -> JobRecord] /\ worker' \in [Worker -> WorkerRecord]
        /\ JobHandsOK' /\ WorkerHandsOK'
    BY <1>13, <2>2, EndJobTyped, GotoTyped DEF Transient, At
  <2>4. doubtful' \in [Email -> Nat] /\ cut' \subseteq Email
    BY <1>13, <2>1 DEF Transient, TypeInv, TypeOK
  <2> QED
    BY <1>13, <2>3, <2>4 DEF Transient, TypeInv, TypeOK, RetryHandsOK
<1>14. ASSUME NEW w \in Worker, RecordSent(w) PROVE TypeInv'
  <2>1. /\ job' \in [Job -> JobRecord] /\ worker' \in [Worker -> WorkerRecord]
        /\ JobHandsOK' /\ WorkerHandsOK'
    BY <1>14, EndJobTyped DEF RecordSent
  <2> QED
    BY <1>14, <2>1 DEF RecordSent, TypeInv, TypeOK, RetryHandsOK, Statuses
<1>15. ASSUME NEW w \in Worker, RecordFailed(w) PROVE TypeInv'
  <2>1. /\ job' \in [Job -> JobRecord] /\ worker' \in [Worker -> WorkerRecord]
        /\ JobHandsOK' /\ WorkerHandsOK'
    BY <1>15, EndJobTyped DEF RecordFailed
  <2> QED
    BY <1>15, <2>1 DEF RecordFailed, TypeInv, TypeOK, RetryHandsOK, Statuses
<1>16. ASSUME NEW w \in Worker, HandlerThrows(w) PROVE TypeInv'
  <2>1. /\ job' \in [Job -> JobRecord] /\ worker' \in [Worker -> WorkerRecord]
        /\ JobHandsOK' /\ WorkerHandsOK'
    BY <1>16, EndJobTyped DEF HandlerThrows
  <2>2. worker[w].email \in Email
    BY <1>16 DEF HandlerThrows, At, TypeInv, WorkerHandsOK
  <2> QED
    BY <1>16, <2>1, <2>2 DEF HandlerThrows, TypeInv, TypeOK, RetryHandsOK
<1>17. ASSUME NEW w \in Worker, Stall(w) PROVE TypeInv'
  <2> DEFINE k == worker[w].job
  <2>1. k \in Job /\ job[k].state = "active" /\ worker[w].email \in Email
    BY <1>17 DEF Stall, TypeInv, TypeOK, WorkerHandsOK, WorkerRecord
  <2>2. /\ Redelivered(k) \in JobRecord
        /\ Redelivered(k).state # "free" => Redelivered(k).email \in Email
    BY <2>1, RedeliveredTyped
  <2>3. job' = [job EXCEPT ![k] = Redelivered(k)] /\ worker' = [worker EXCEPT ![w].job = None]
    BY <1>17 DEF Stall
  <2>4. job' \in [Job -> JobRecord] /\ JobHandsOK'
    BY <2>1, <2>2, <2>3 DEF TypeInv, TypeOK, JobHandsOK
  <2>5. worker' \in [Worker -> WorkerRecord] /\ WorkerHandsOK'
    BY <2>1, <2>3 DEF TypeInv, TypeOK, WorkerHandsOK, WorkerRecord
  <2>6. cut' \subseteq Email
    BY <1>17, <2>1 DEF Stall, TypeInv, TypeOK
  <2> QED
    BY <1>17, <2>4, <2>5, <2>6 DEF Stall, TypeInv, TypeOK, RetryHandsOK
<1>18. ASSUME Crash PROVE TypeInv'
  <2>1. job' \in [Job -> JobRecord] /\ JobHandsOK'
    BY <1>18, RedeliveredTyped DEF Crash, TypeInv, TypeOK, JobHandsOK
  <2>2. {job[j].email : j \in {x \in Job : job'[x].state = "free" /\ job[x].state # "free"}}
          \subseteq Email
    BY DEF TypeInv, JobHandsOK
  <2>3. Requested \subseteq Email
    BY DEF Requested, TypeInv, TypeOK, RetryHandsOK
  <2>4. {worker[w].email : w \in {x \in Worker : Detached(x)}} \subseteq Email
    BY DEF Detached, TypeInv, WorkerHandsOK
  <2>5. cut' \subseteq Email
    BY <1>18, <2>2, <2>3, <2>4 DEF Crash, TypeInv, TypeOK
  <2> QED
    BY <1>18, <2>1, <2>5 DEF Crash, TypeInv, TypeOK, WorkerHandsOK, RetryHandsOK,
       WorkerRecord, Idle, RetryRecord, NoRetry
<1>19. CASE UNCHANGED vars
  BY <1>19 DEF vars, TypeInv, TypeOK, JobHandsOK, WorkerHandsOK, RetryHandsOK
<1> QED
  BY <1>1, <1>2, <1>3, <1>4, <1>5, <1>6, <1>7, <1>8, <1>9, <1>10, <1>11, <1>12, <1>13, <1>14,
     <1>15, <1>16, <1>17, <1>18, <1>19 DEF Next, User, Request, Handle

(***************************************************************************)
(* Records, jobs and requests keep their types in every interleaving of    *)
(* requests, workers, lost locks and restarts (the record's statuses are   *)
(* those of email.model.ts).                                               *)
(***************************************************************************)
THEOREM TypeCorrect == Spec => []TypeOK
<1>1. QED
  BY InitTypeInv, StepTypeInv, PTL DEF Spec, TypeInv


-----------------------------------------------------------------------------
(***************************************************************************)
(* What the record says of the copies that left, in every instance, with   *)
(* workers that lose their lock and messages delivered more than once: the *)
(* record never claims a delivery that was not acknowledged, and it counts *)
(* at least as many attempts as copies.                                    *)
(***************************************************************************)

(***************************************************************************)
(* A message is shown as sent only when the provider acknowledged it; the  *)
(* worker about to write `sent' (email.worker.ts:97-104) is what carries   *)
(* that from the hand-over to the record.                                  *)
(***************************************************************************)
SentInv ==
  /\ \A e \in Email : status[e] = "sent" => confirmed[e] > 0
  /\ \A w \in Worker : worker[w].pc = "sent" => confirmed[worker[w].email] > 0

LEMMA StepSentInv == TypeInv /\ SentInv /\ [Next]_vars => SentInv'
<1> SUFFICES ASSUME TypeInv, SentInv, [Next]_vars PROVE SentInv'
  OBVIOUS
<1> USE DeliveryAssumption DEF TypeInv, TypeOK, SentInv, records, copies
<1>1. ASSUME NEW c \in Composer, NEW es \in SUBSET Email, Compose(c, es) PROVE SentInv'
  BY <1>1 DEF Compose
<1>2. ASSUME UNCHANGED <<status, confirmed, worker>> PROVE SentInv'
  BY <1>2
<1>3. ASSUME NEW r \in Retrier, RetryReset(r) PROVE SentInv'
  BY <1>3 DEF RetryReset
<1>4. ASSUME NEW w \in Worker, UNCHANGED <<status, confirmed>>, worker'[w].pc # "sent",
             \A v \in Worker : v # w => worker'[v] = worker[v]
      PROVE  SentInv'
  BY <1>4
<1>5. ASSUME NEW w \in Worker, MarkSending(w) PROVE SentInv'
  BY <1>5 DEF MarkSending, Goto, WorkerRecord
<1>6. ASSUME NEW w \in Worker, Accepted(w) PROVE SentInv'
  <2>1. worker[w].email \in Email /\ worker[w] \in WorkerRecord
    BY <1>6 DEF Accepted, At, WorkerHandsOK
  <2>2. \A e \in Email : confirmed[e] > 0 => confirmed'[e] > 0
    BY <1>6, <2>1 DEF Accepted
  <2>3. confirmed'[worker[w].email] > 0
    BY <1>6, <2>1 DEF Accepted
  <2>4. \A v \in Worker : /\ worker'[v].email = worker[v].email
                          /\ v # w => worker'[v] = worker[v]
    BY <1>6 DEF Accepted, Goto, WorkerRecord
  <2>5. \A v \in Worker : worker[v].pc = "sent" => worker[v].email \in Email
    BY DEF WorkerHandsOK
  <2> QED
    BY <1>6, <2>2, <2>3, <2>4, <2>5 DEF Accepted
<1>7. ASSUME NEW w \in Worker, RecordSent(w) PROVE SentInv'
  <2>1. worker[w].email \in Email /\ confirmed[worker[w].email] > 0
    BY <1>7 DEF RecordSent, At, WorkerHandsOK
  <2> QED
    BY <1>7, <2>1 DEF RecordSent, EndJob, Idle
<1>8. ASSUME NEW w \in Worker, RecordFailed(w) PROVE SentInv'
  BY <1>8 DEF RecordFailed, EndJob, Idle
<1>9. ASSUME NEW w \in Worker, Stall(w) PROVE SentInv'
  BY <1>9 DEF Stall, WorkerRecord
<1>10. ASSUME Crash PROVE SentInv'
  BY <1>10 DEF Crash, Idle
<1>11. ASSUME NEW w \in Worker, Handle(w) PROVE SentInv'
  <2>1. CASE Read(w)
    BY <2>1, <1>4 DEF Read, Goto, EndJob, Idle, WorkerRecord
  <2>2. CASE Refused(w)
    BY <2>2, <1>4 DEF Refused, Goto, WorkerRecord
  <2>3. CASE Transient(w)
    BY <2>3, <1>4 DEF Transient, Goto, EndJob, Idle, WorkerRecord
  <2>4. CASE HandlerThrows(w)
    BY <2>4, <1>4 DEF HandlerThrows, EndJob, Idle
  <2> QED
    BY <1>11, <1>5, <1>6, <1>7, <1>8, <2>1, <2>2, <2>3, <2>4 DEF Handle
<1>12. ASSUME NEW w \in Worker, NEW j \in Job, Pick(w, j) PROVE SentInv'
  BY <1>12, <1>4 DEF Pick
<1>13. ASSUME NEW r \in Retrier, NEW e \in Email, RetryFind(r, e) PROVE SentInv'
  BY <1>13, <1>2 DEF RetryFind
<1>14. ASSUME Request PROVE SentInv'
  BY <1>14, <1>2, <1>3 DEF Request, ComposeFails, ComposeEnqueue, RetryEnqueue, RetryFails
<1> QED
  BY <1>1, <1>2, <1>9, <1>10, <1>11, <1>12, <1>13, <1>14 DEF Next, User, vars

\* The record never shows a delivery the provider did not acknowledge.
THEOREM SentMeansConfirmed == Spec => []SentWasConfirmed
<1>1. Init => SentInv
  BY DEF Init, SentInv, Idle
<1>2. SentInv => SentWasConfirmed
  BY DEF SentInv, SentWasConfirmed
<1> QED
  BY <1>1, <1>2, InitTypeInv, StepTypeInv, StepSentInv, PTL DEF Spec

-----------------------------------------------------------------------------
(***************************************************************************)
(* Copies.  The bound is not inductive: a worker between markSending,      *)
(* which counts the attempt, and the provider's answer has a copy to its   *)
(* credit.  CountInv adds one for every worker of the message that is      *)
(* sending.                                                                *)
(***************************************************************************)
Sending(e) == {w \in Worker : worker[w].pc = "send" /\ worker[w].email = e}

CountInv ==
  \A e \in Email : confirmed[e] + doubtful[e] + Cardinality(Sending(e)) <= attemptCount[e]

LEMMA SendingFinite ==
  \A e : /\ IsFiniteSet(Sending(e)) /\ Cardinality(Sending(e)) \in Nat
         /\ IsFiniteSet(Sending(e)') /\ Cardinality(Sending(e)') \in Nat
<1> TAKE e
<1>1. Sending(e) \in SUBSET Worker /\ Sending(e)' \in SUBSET Worker
  BY DEF Sending
<1> QED
  BY <1>1, DeliveryAssumption, FS_Subset, FS_CardinalityType

\* A step that starts or ends no sending.
LEMMA SameSending ==
  ASSUME NEW e, \A v \in Worker :
           (worker'[v].pc = "send" /\ worker'[v].email = e)
             <=> (worker[v].pc = "send" /\ worker[v].email = e)
  PROVE  Cardinality(Sending(e)') = Cardinality(Sending(e))
<1>1. Sending(e)' = Sending(e)
  BY DEF Sending
<1> QED
  BY <1>1

\* A step by which one worker ends its sending.
LEMMA EndSending ==
  ASSUME NEW w \in Worker, worker[w].pc = "send", worker'[w].pc # "send",
         \A v \in Worker : v # w => worker'[v] = worker[v]
  PROVE  \A e : Cardinality(Sending(e)') =
                  Cardinality(Sending(e)) - (IF e = worker[w].email THEN 1 ELSE 0)
<1> TAKE e
<1>1. CASE e = worker[w].email
  <2>1. Sending(e)' = Sending(e) \ {w} /\ w \in Sending(e)
    BY <1>1 DEF Sending
  <2>2. Cardinality(Sending(e) \ {w}) = Cardinality(Sending(e)) - 1
    BY <2>1, SendingFinite, FS_RemoveElement
  <2> QED
    BY <1>1, <2>1, <2>2
<1>2. CASE e # worker[w].email
  <2>1. Cardinality(Sending(e)') = Cardinality(Sending(e))
    BY <1>2, SameSending
  <2> QED
    BY <1>2, <2>1, SendingFinite
<1> QED
  BY <1>1, <1>2

\* What is left of CountInv when one copy at most replaces an ended sending.
LEMMA EndSendingCounts ==
  ASSUME TypeInv, CountInv, NEW w \in Worker, worker[w].pc = "send", worker'[w].pc # "send",
         \A v \in Worker : v # w => worker'[v] = worker[v],
         attemptCount' = attemptCount,
         confirmed' \in [Email -> Nat], doubtful' \in [Email -> Nat],
         \A e \in Email : confirmed'[e] + doubtful'[e]
                            <= confirmed[e] + doubtful[e] + (IF e = worker[w].email THEN 1 ELSE 0)
  PROVE  CountInv'
<1> SUFFICES ASSUME NEW e \in Email
             PROVE  confirmed'[e] + doubtful'[e] + Cardinality(Sending(e)') <= attemptCount'[e]
  BY DEF CountInv
<1>1. /\ confirmed[e] \in Nat /\ doubtful[e] \in Nat /\ attemptCount[e] \in Nat
      /\ confirmed'[e] \in Nat /\ doubtful'[e] \in Nat
      /\ Cardinality(Sending(e)) \in Nat /\ Cardinality(Sending(e)') \in Nat
  BY SendingFinite DEF TypeInv, TypeOK
<1>2. confirmed[e] + doubtful[e] + Cardinality(Sending(e)) <= attemptCount[e]
  BY DEF CountInv
<1>3. Cardinality(Sending(e)') = Cardinality(Sending(e)) - (IF e = worker[w].email THEN 1 ELSE 0)
  BY EndSending
<1>4. CASE e = worker[w].email
  BY <1>1, <1>2, <1>3, <1>4
<1>5. CASE e # worker[w].email
  BY <1>1, <1>2, <1>3, <1>5
<1> QED
  BY <1>4, <1>5

\* A step that changes no count and starts no sending.
LEMMA KeepCounts ==
  ASSUME CountInv, UNCHANGED <<attemptCount, confirmed, doubtful>>,
         \A v \in Worker, e \in Email :
           (worker'[v].pc = "send" /\ worker'[v].email = e)
             <=> (worker[v].pc = "send" /\ worker[v].email = e)
  PROVE  CountInv'
<1> SUFFICES ASSUME NEW e \in Email
             PROVE  confirmed'[e] + doubtful'[e] + Cardinality(Sending(e)') <= attemptCount'[e]
  BY DEF CountInv
<1>1. Cardinality(Sending(e)') = Cardinality(Sending(e))
  BY SameSending
<1> QED
  BY <1>1 DEF CountInv

LEMMA StepCountInv == TypeInv /\ CountInv /\ [Next]_vars => CountInv'
<1> SUFFICES ASSUME TypeInv, CountInv, [Next]_vars PROVE CountInv'
  OBVIOUS
<1> USE DeliveryAssumption DEF TypeInv, TypeOK, records, copies
<1>1. ASSUME UNCHANGED <<attemptCount, confirmed, doubtful, worker>> PROVE CountInv'
  BY <1>1, KeepCounts
<1>2. CASE Request
  BY <1>1, <1>2 DEF Request, ComposeFails, ComposeEnqueue, RetryReset, RetryEnqueue, RetryFails
<1>3. CASE User
  BY <1>1, <1>3 DEF User, Compose, RetryFind
<1>4. ASSUME NEW w \in Worker, ~At(w, "send"), worker'[w].pc # "send",
             UNCHANGED <<attemptCount, confirmed, doubtful>>,
             \A v \in Worker : v # w => worker'[v] = worker[v]
      PROVE  CountInv'
  BY <1>4, KeepCounts DEF At
<1>5. ASSUME NEW w \in Worker, NEW j \in Job, Pick(w, j) PROVE CountInv'
  BY <1>4, <1>5 DEF Pick, At
<1>6. ASSUME NEW w \in Worker, Read(w) PROVE CountInv'
  BY <1>4, <1>6 DEF Read, At, Goto, EndJob, Idle, WorkerRecord
<1>7. ASSUME NEW w \in Worker, MarkSending(w) PROVE CountInv'
  <2>1. worker[w].email \in Email /\ worker[w].pc = "mark"
    BY <1>7 DEF MarkSending, At, WorkerHandsOK
  <2>2. worker' = [worker EXCEPT ![w].pc = "send"]
    BY <1>7 DEF MarkSending, Goto
  <2>3. /\ worker'[w].pc = "send" /\ worker'[w].email = worker[w].email
        /\ \A v \in Worker : v # w => worker'[v] = worker[v]
    BY <2>2 DEF WorkerRecord
  <2> SUFFICES ASSUME NEW e \in Email
               PROVE  confirmed'[e] + doubtful'[e] + Cardinality(Sending(e)') <= attemptCount'[e]
    BY DEF CountInv
  <2>4. /\ confirmed[e] \in Nat /\ doubtful[e] \in Nat /\ attemptCount[e] \in Nat
        /\ Cardinality(Sending(e)) \in Nat /\ UNCHANGED <<confirmed, doubtful>>
        /\ confirmed[e] + doubtful[e] + Cardinality(Sending(e)) <= attemptCount[e]
    BY <1>7, SendingFinite DEF MarkSending, CountInv
  <2>5. CASE e = worker[w].email
    <3>1. Sending(e)' = Sending(e) \cup {w} /\ w \notin Sending(e)
      BY <2>1, <2>3, <2>5 DEF Sending
    <3>2. Cardinality(Sending(e) \cup {w}) = Cardinality(Sending(e)) + 1
      BY <3>1, SendingFinite, FS_AddElement
    <3>3. attemptCount'[e] = attemptCount[e] + 1
      BY <1>7, <2>5 DEF MarkSending
    <3> QED
      BY <2>4, <3>1, <3>2, <3>3
  <2>6. CASE e # worker[w].email
    <3>1. Cardinality(Sending(e)') = Cardinality(Sending(e))
      BY <2>1, <2>3, <2>6, SameSending
    <3>2. attemptCount'[e] = attemptCount[e]
      BY <1>7, <2>6 DEF MarkSending
    <3> QED
      BY <2>4, <3>1, <3>2
  <2> QED
    BY <2>5, <2>6
<1>8. ASSUME NEW w \in Worker, Refused(w) PROVE CountInv'
  BY <1>8, EndSendingCounts DEF Refused, At, Goto, WorkerRecord
<1>9. ASSUME NEW w \in Worker, Accepted(w) PROVE CountInv'
  <2>1. worker' = [worker EXCEPT ![w].pc = "sent"] /\ worker[w].pc = "send"
    BY <1>9 DEF Accepted, At, Goto
  <2>2. worker'[w].pc # "send" /\ \A v \in Worker : v # w => worker'[v] = worker[v]
    BY <2>1 DEF WorkerRecord
  <2>3. /\ confirmed' \in [Email -> Nat] /\ doubtful' \in [Email -> Nat]
        /\ \A e \in Email : confirmed'[e] = IF e = worker[w].email THEN confirmed[e] + 1
                                                                  ELSE confirmed[e]
    <3>1. worker[w].email \in Email
      BY <2>1 DEF WorkerHandsOK
    <3> QED
      BY <1>9, <3>1 DEF Accepted
  <2>4. \A e \in Email : confirmed'[e] + doubtful'[e]
                            <= confirmed[e] + doubtful[e] + (IF e = worker[w].email THEN 1 ELSE 0)
    <3> SUFFICES ASSUME NEW e \in Email
                 PROVE  confirmed'[e] + doubtful'[e]
                          <= confirmed[e] + doubtful[e] + (IF e = worker[w].email THEN 1 ELSE 0)
      OBVIOUS
    <3>1. confirmed[e] \in Nat /\ doubtful[e] \in Nat /\ doubtful' = doubtful
      BY <1>9 DEF Accepted
    <3> QED
      BY <2>3, <3>1
  <2> QED
    BY <1>9, <2>1, <2>2, <2>3, <2>4, EndSendingCounts DEF Accepted
<1>10. ASSUME NEW w \in Worker, Transient(w) PROVE CountInv'
  <2>1. worker[w].pc = "send" /\ attemptCount' = attemptCount /\ confirmed' = confirmed
    BY <1>10 DEF Transient, At
  <2>2. worker'[w].pc # "send" /\ \A v \in Worker : v # w => worker'[v] = worker[v]
    BY <1>10 DEF Transient, Goto, EndJob, Idle, WorkerRecord
  <2>3. /\ doubtful' \in [Email -> Nat]
        /\ \A e \in Email : doubtful'[e] <= doubtful[e] + (IF e = worker[w].email THEN 1 ELSE 0)
    <3>1. CASE doubtful' = doubtful
      BY <3>1
    <3>2. CASE doubtful' = [doubtful EXCEPT ![worker[w].email] = @ + 1]
      <4>1. doubtful' \in [Email -> Nat]
        <5>1. worker[w].email \in Email
          BY <2>1 DEF WorkerHandsOK
        <5> QED
          BY <3>2, <5>1
      <4>2. \A e \in Email :
              doubtful'[e] = IF e = worker[w].email THEN doubtful[e] + 1 ELSE doubtful[e]
        BY <3>2
      <4> QED
        BY <4>1, <4>2
    <3> QED
      BY <1>10, <3>1, <3>2 DEF Transient
  <2>4. \A e \in Email : confirmed'[e] + doubtful'[e]
                            <= confirmed[e] + doubtful[e] + (IF e = worker[w].email THEN 1 ELSE 0)
    <3> SUFFICES ASSUME NEW e \in Email
                 PROVE  confirmed'[e] + doubtful'[e]
                          <= confirmed[e] + doubtful[e] + (IF e = worker[w].email THEN 1 ELSE 0)
      OBVIOUS
    <3>1. confirmed[e] \in Nat /\ doubtful[e] \in Nat /\ doubtful'[e] \in Nat
      BY <2>3
    <3> QED
      BY <2>1, <2>3, <3>1
  <2> QED
    BY <2>1, <2>2, <2>3, <2>4, EndSendingCounts
<1>11. ASSUME NEW w \in Worker, RecordSent(w) \/ RecordFailed(w) PROVE CountInv'
  BY <1>4, <1>11 DEF RecordSent, RecordFailed, At, EndJob, Idle
<1>12. ASSUME NEW w \in Worker, HandlerThrows(w) PROVE CountInv'
  <2>1. /\ UNCHANGED <<attemptCount, confirmed, doubtful>>
        /\ worker' = [worker EXCEPT ![w] = Idle]
    BY <1>12 DEF HandlerThrows, EndJob
  <2>2. CASE At(w, "send")
    BY <2>1, <2>2, EndSendingCounts DEF At, Idle
  <2>3. CASE ~At(w, "send")
    BY <2>1, <2>3, <1>4 DEF Idle
  <2> QED
    BY <2>2, <2>3
<1>13. ASSUME NEW w \in Worker, Stall(w) PROVE CountInv'
  BY <1>13, KeepCounts DEF Stall, WorkerRecord
<1>14. CASE Crash
  <2> SUFFICES ASSUME NEW e \in Email
               PROVE  confirmed'[e] + doubtful'[e] + Cardinality(Sending(e)') <= attemptCount'[e]
    BY DEF CountInv
  <2>1. Sending(e)' = {}
    BY <1>14 DEF Crash, Sending, Idle
  <2>2. /\ confirmed[e] \in Nat /\ doubtful[e] \in Nat /\ attemptCount[e] \in Nat
        /\ Cardinality(Sending(e)) \in Nat
        /\ confirmed[e] + doubtful[e] + Cardinality(Sending(e)) <= attemptCount[e]
    BY SendingFinite DEF CountInv
  <2> QED
    BY <1>14, <2>1, <2>2, FS_EmptySet DEF Crash
<1> QED
  BY <1>1, <1>2, <1>3, <1>5, <1>6, <1>7, <1>8, <1>9, <1>10, <1>11, <1>12, <1>13, <1>14
     DEF Next, Handle, vars

\* No more copies of a message have left than its record counts attempts.
THEOREM NoUncountedCopy == Spec => []CopiesAreCounted
<1>1. Init => CountInv
  <2> SUFFICES ASSUME Init, NEW e \in Email
               PROVE  confirmed[e] + doubtful[e] + Cardinality(Sending(e)) <= attemptCount[e]
    BY DEF CountInv
  <2>1. Sending(e) = {}
    BY DEF Init, Sending, Idle
  <2> QED
    BY <2>1, FS_EmptySet DEF Init
<1>2. TypeInv /\ CountInv => CopiesAreCounted
  BY SendingFinite DEF CountInv, CopiesAreCounted, TypeInv, TypeOK
<1> QED
  BY <1>1, <1>2, InitTypeInv, StepTypeInv, StepCountInv, PTL DEF Spec


-----------------------------------------------------------------------------
(***************************************************************************)
(* No message is forgotten: in every instance, with any number of workers, *)
(* requests and faults, a message shown as on its way is in somebody's     *)
(* hands unless a fault was recorded for it.  The invariant that carries   *)
(* the proof is TypeInv: a running job is about the message its worker     *)
(* holds, so a claim passes from request to job to worker and back without *)
(* being dropped.                                                          *)
(***************************************************************************)

Holds(e) ==
  \/ \E j \in Job : job[j].state # "free" /\ job[j].email = e
  \/ \E c \in Composer : e \in composing[c]
  \/ \E r \in Retrier : retrying[r].pc = "enqueue" /\ retrying[r].email = e
  \/ \E w \in Worker : worker[w].pc # "idle" /\ worker[w].email = e

LEMMA HoldsIsClaimed == \A e : (Holds(e) <=> Claimed(e)) /\ (Holds(e)' <=> Claimed(e)')
BY DEF Holds, Claimed, JobsOf, ComposersOf, RetriersOf, WorkersOf

LEMMA EnqueueHolds ==
  ASSUME NEW e \in Email, job \in [Job -> JobRecord], Enqueue(e)
  PROVE  /\ \E j \in Job : job'[j].state # "free" /\ job'[j].email = e
         /\ \A j \in Job : job[j].state # "free" => job'[j] = job[j]
BY DEF Enqueue

\* The steps of a handler keep every claim but the one of an ended invocation.
LEMMA HandlerHolds ==
  ASSUME TypeInv, NEW w \in Worker, worker[w].pc # "idle",
         NEW x \in Email, Holds(x), UNCHANGED <<composing, retrying>>,
         NEW s, EndJob(w, s), s.state # "free" => s.email = worker[w].email
  PROVE  Holds(x)' \/ x = worker[w].email
<1> USE DEF TypeInv, TypeOK, EndJob, Holds
<1>1. ASSUME NEW j \in Job, job[j].state # "free", job[j].email = x, x # worker[w].email
      PROVE  job'[j] = job[j]
  <2>1. worker[w].job # j
    BY <1>1, DeliveryAssumption DEF WorkerHandsOK
  <2> QED
    BY <1>1, <2>1
<1>2. ASSUME NEW v \in Worker, worker[v].pc # "idle", worker[v].email = x, x # worker[w].email
      PROVE  worker'[v] = worker[v]
  BY <1>2
<1> QED
  BY <1>1, <1>2

LEMMA GotoHolds ==
  ASSUME TypeInv, NEW w \in Worker, worker[w].pc # "idle",
         NEW x \in Email, Holds(x), UNCHANGED <<composing, retrying, job>>,
         NEW pc \in {"mark", "send", "sent", "fail"}, Goto(w, pc)
  PROVE  Holds(x)'
<1>1. worker \in [Worker -> WorkerRecord]
  BY DEF TypeInv, TypeOK
<1>2. \A v \in Worker : worker[v].pc # "idle" =>
         worker'[v].pc # "idle" /\ worker'[v].email = worker[v].email
  BY <1>1 DEF Goto, WorkerRecord
<1> QED
  BY <1>2 DEF Holds

Tracked(e) == InFlight(e) => Holds(e) \/ e \in cut

LEMMA StepTracked ==
  ASSUME TypeInv, \A e \in Email : Tracked(e), [Next]_vars, NEW x \in Email
  PROVE  Tracked(x)'
<1> USE DeliveryAssumption DEF records, copies
<1>1. ASSUME NEW c \in Composer, NEW es \in SUBSET Email, Compose(c, es) PROVE Tracked(x)'
  <2>1. CASE x \in es
    BY <1>1, <2>1 DEF Compose, Tracked, Holds, TypeInv, TypeOK
  <2>2. CASE x \notin es
    <3>1. status'[x] = status[x]
      BY <1>1, <2>2 DEF Compose, TypeInv, TypeOK
    <3>2. Holds(x) => Holds(x)'
      BY <1>1, <2>2 DEF Compose, Holds, TypeInv, TypeOK
    <3> QED
      BY <1>1, <3>1, <3>2 DEF Compose, Tracked, InFlight
  <2> QED
    BY <2>1, <2>2
<1>2. ASSUME NEW r \in Retrier, NEW e \in Email, RetryFind(r, e) PROVE Tracked(x)'
  <2>1. Holds(x) => Holds(x)'
    BY <1>2 DEF RetryFind, Holds, TypeInv, TypeOK
  <2> QED
    BY <1>2, <2>1 DEF RetryFind, Tracked, InFlight
<1>3. ASSUME NEW c \in Composer, ComposeFails(c) PROVE Tracked(x)'
  <2>1. Holds(x) => Holds(x)' \/ x \in cut'
    BY <1>3 DEF ComposeFails, Holds, TypeInv, TypeOK
  <2> QED
    BY <1>3, <2>1 DEF ComposeFails, Tracked, InFlight
<1>4. ASSUME NEW c \in Composer, NEW e \in Email, ComposeEnqueue(c, e) PROVE Tracked(x)'
  <2>1. Holds(x) => Holds(x)'
    <3>1. /\ \E j \in Job : job'[j].state # "free" /\ job'[j].email = e
          /\ \A j \in Job : job[j].state # "free" => job'[j] = job[j]
      BY <1>4, EnqueueHolds DEF ComposeEnqueue, TypeInv, TypeOK
    <3> QED
      BY <1>4, <3>1 DEF ComposeEnqueue, Holds, TypeInv, TypeOK
  <2> QED
    BY <1>4, <2>1 DEF ComposeEnqueue, Tracked, InFlight
<1>5. ASSUME NEW r \in Retrier, RetryReset(r) PROVE Tracked(x)'
  <2> DEFINE e == retrying[r].email
  <2>1. e \in Email
    BY <1>5 DEF RetryReset, TypeInv, RetryHandsOK
  <2>2. CASE x = e
    BY <1>5, <2>1, <2>2 DEF RetryReset, Tracked, Holds, TypeInv, TypeOK, RetryRecord
  <2>3. CASE x # e
    <3>1. status'[x] = status[x]
      BY <1>5, <2>3 DEF RetryReset, TypeInv, TypeOK
    <3>2. Holds(x) => Holds(x)'
      BY <1>5, <2>3 DEF RetryReset, Holds, TypeInv, TypeOK, RetryRecord
    <3> QED
      BY <1>5, <3>1, <3>2 DEF RetryReset, Tracked, InFlight
  <2> QED
    BY <2>2, <2>3
<1>6. ASSUME NEW r \in Retrier, RetryEnqueue(r) PROVE Tracked(x)'
  <2> DEFINE e == retrying[r].email
  <2>1. e \in Email
    BY <1>6 DEF RetryEnqueue, TypeInv, RetryHandsOK
  <2>2. /\ \E j \in Job : job'[j].state # "free" /\ job'[j].email = e
        /\ \A j \in Job : job[j].state # "free" => job'[j] = job[j]
    BY <1>6, <2>1, EnqueueHolds DEF RetryEnqueue, TypeInv, TypeOK
  <2>3. Holds(x) => Holds(x)'
    BY <1>6, <2>2 DEF RetryEnqueue, Holds, TypeInv, TypeOK
  <2> QED
    BY <1>6, <2>3 DEF RetryEnqueue, Tracked, InFlight
<1>7. ASSUME NEW r \in Retrier, RetryFails(r) PROVE Tracked(x)'
  <2>1. Holds(x) => Holds(x)' \/ x \in cut'
    BY <1>7 DEF RetryFails, Holds, TypeInv, TypeOK
  <2> QED
    BY <1>7, <2>1 DEF RetryFails, Tracked, InFlight
<1>8. ASSUME NEW w \in Worker, NEW j \in Job, Pick(w, j) PROVE Tracked(x)'
  <2>1. \A i \in Job : job[i].state # "free" =>
           job'[i].state # "free" /\ job'[i].email = job[i].email
    BY <1>8 DEF Pick, TypeInv, TypeOK, JobRecord
  <2>2. \A v \in Worker : worker[v].pc # "idle" => worker'[v] = worker[v]
    BY <1>8 DEF Pick, At, TypeInv, TypeOK
  <2>3. Holds(x) => Holds(x)'
    BY <1>8, <2>1, <2>2 DEF Pick, Holds
  <2> QED
    BY <1>8, <2>3 DEF Pick, Tracked, InFlight
<1>9. ASSUME NEW w \in Worker, Read(w) PROVE Tracked(x)'
  <2>1. CASE status[worker[w].email] = "sent"
    <3>1. Holds(x) => Holds(x)' \/ x = worker[w].email
      BY <1>9, <2>1, HandlerHolds, FreeJobTyped DEF Read, At
    <3> QED
      BY <1>9, <2>1, <3>1 DEF Read, Tracked, InFlight
  <2>2. CASE status[worker[w].email] # "sent"
    <3>1. Holds(x) => Holds(x)'
      BY <1>9, <2>2, GotoHolds DEF Read, At
    <3> QED
      BY <1>9, <2>2, <3>1 DEF Read, Tracked, InFlight
  <2> QED
    BY <2>1, <2>2
<1>10. ASSUME NEW w \in Worker, MarkSending(w) PROVE Tracked(x)'
  <2>1. Holds(x) => Holds(x)'
    BY <1>10, GotoHolds DEF MarkSending, At
  <2>2. CASE x = worker[w].email
    BY <1>10, <2>1, <2>2 DEF MarkSending, Tracked, Holds, At
  <2>3. CASE x # worker[w].email
    <3>1. status'[x] = status[x]
      BY <1>10, <2>3 DEF MarkSending, TypeInv, TypeOK
    <3> QED
      BY <1>10, <2>1, <3>1 DEF MarkSending, Tracked, InFlight
  <2> QED
    BY <2>2, <2>3
<1>11. ASSUME NEW w \in Worker, Refused(w) PROVE Tracked(x)'
  <2>1. Holds(x) => Holds(x)'
    BY <1>11, GotoHolds DEF Refused, At
  <2> QED
    BY <1>11, <2>1 DEF Refused, Tracked, InFlight
<1>12. ASSUME NEW w \in Worker, Accepted(w) PROVE Tracked(x)'
  <2>1. Holds(x) => Holds(x)'
    BY <1>12, GotoHolds DEF Accepted, At
  <2> QED
    BY <1>12, <2>1 DEF Accepted, Tracked, InFlight
<1>13. ASSUME NEW w \in Worker, Transient(w) PROVE Tracked(x)'
  <2>1. CASE IsLastAttempt(w)
    <3>1. Holds(x) => Holds(x)'
      BY <1>13, <2>1, GotoHolds DEF Transient, At
    <3> QED
      BY <1>13, <2>1, <3>1 DEF Transient, Tracked, InFlight
  <2>2. CASE ~IsLastAttempt(w)
    <3>1. worker[w] \in WorkerRecord
      BY <1>13 DEF TypeInv, TypeOK
    <3>2. worker[w].attempt < MaxAttempts
      BY <2>2, <3>1 DEF IsLastAttempt, WorkerRecord
    <3>3. AfterRetryable(w).state # "free" /\ AfterRetryable(w).email = worker[w].email
      BY <3>2 DEF AfterRetryable
    <3>4. Holds(x) => Holds(x)' \/ x = worker[w].email
      BY <1>13, <2>2, <3>3, HandlerHolds DEF Transient, At
    <3>5. worker[w].job # None /\ x = worker[w].email => Holds(x)'
      BY <1>13, <2>2, <3>1, <3>3 DEF Transient, EndJob, Holds, WorkerRecord, TypeInv, TypeOK
    <3> QED
      BY <1>13, <2>2, <3>4, <3>5 DEF Transient, Tracked, InFlight
  <2> QED
    BY <2>1, <2>2
<1>14. ASSUME NEW w \in Worker, RecordSent(w) PROVE Tracked(x)'
  <2>1. Holds(x) => Holds(x)' \/ x = worker[w].email
    BY <1>14, HandlerHolds, FreeJobTyped DEF RecordSent, At
  <2> QED
    BY <1>14, <2>1 DEF RecordSent, Tracked, InFlight, TypeInv, TypeOK
<1>15. ASSUME NEW w \in Worker, RecordFailed(w) PROVE Tracked(x)'
  <2>1. Holds(x) => Holds(x)' \/ x = worker[w].email
    BY <1>15, HandlerHolds, FreeJobTyped DEF RecordFailed, At
  <2> QED
    BY <1>15, <2>1 DEF RecordFailed, Tracked, InFlight, TypeInv, TypeOK
<1>16. ASSUME NEW w \in Worker, HandlerThrows(w) PROVE Tracked(x)'
  <2>1. Holds(x) => Holds(x)' \/ x = worker[w].email
    BY <1>16, HandlerHolds, FreeJobTyped DEF HandlerThrows, At
  <2> QED
    BY <1>16, <2>1 DEF HandlerThrows, Tracked, InFlight
<1>17. ASSUME NEW w \in Worker, Stall(w) PROVE Tracked(x)'
  <2>1. worker[w] \in WorkerRecord /\ worker[w].job \in Job /\ worker[w].pc # "idle"
        /\ job[worker[w].job].email = worker[w].email
    BY <1>17 DEF Stall, TypeInv, TypeOK, WorkerHandsOK, WorkerRecord
  <2>2. \A v \in Worker : worker'[v].pc = worker[v].pc /\ worker'[v].email = worker[v].email
    BY <1>17 DEF Stall, TypeInv, TypeOK, WorkerRecord
  <2>3. \A i \in Job : i # worker[w].job => job'[i] = job[i]
    BY <1>17 DEF Stall, TypeInv, TypeOK
  <2>4. Holds(x) => Holds(x)'
    BY <1>17, <2>1, <2>2, <2>3 DEF Stall, Holds
  <2> QED
    BY <1>17, <2>4 DEF Stall, Tracked, InFlight
<1>18. ASSUME Crash PROVE Tracked(x)'
  <2>1. ASSUME NEW j \in Job, job[j].state # "free", job[j].email = x
        PROVE  Holds(x)' \/ x \in cut'
    <3>1. CASE job'[j].state = "free"
      BY <1>18, <2>1, <3>1 DEF Crash
    <3>2. CASE job'[j].state # "free"
      <4>1. job'[j].email = x
        BY <1>18, <2>1, <3>2, FreeJobTyped DEF Crash, Redelivered
      <4> QED
        BY <2>1, <3>2, <4>1 DEF Holds
    <3> QED
      BY <3>1, <3>2
  <2>2. ASSUME NEW w \in Worker, worker[w].pc # "idle", worker[w].email = x
        PROVE  Holds(x)' \/ x \in cut'
    <3>1. CASE worker[w].job = None
      BY <1>18, <2>2, <3>1 DEF Crash, Detached
    <3>2. CASE worker[w].job # None
      <4>1. worker[w].job \in Job /\ job[worker[w].job].state # "free"
            /\ job[worker[w].job].email = x
        BY <2>2, <3>2 DEF TypeInv, TypeOK, WorkerHandsOK, WorkerRecord
      <4> QED
        BY <2>1, <4>1
    <3> QED
      BY <3>1, <3>2
  <2>3. ASSUME NEW c \in Composer, x \in composing[c] PROVE x \in cut'
    BY <1>18, <2>3 DEF Crash, Requested
  <2>4. ASSUME NEW r \in Retrier, retrying[r].pc = "enqueue", retrying[r].email = x
        PROVE  x \in cut'
    BY <1>18, <2>4 DEF Crash, Requested
  <2>5. Holds(x) => Holds(x)' \/ x \in cut'
    BY <2>1, <2>2, <2>3, <2>4 DEF Holds
  <2> QED
    BY <1>18, <2>5 DEF Crash, Tracked, InFlight
<1>19. CASE UNCHANGED vars
  BY <1>19 DEF vars, Tracked, Holds, InFlight
<1> QED
  BY <1>1, <1>2, <1>3, <1>4, <1>5, <1>6, <1>7, <1>8, <1>9, <1>10, <1>11, <1>12, <1>13, <1>14,
     <1>15, <1>16, <1>17, <1>18, <1>19 DEF Next, User, Request, Handle

(***************************************************************************)
(* A message shown as queued or sending (email.model.ts) is held by a job, *)
(* a request or a worker, unless a fault has left it without one.          *)
(***************************************************************************)
THEOREM NothingForgotten == Spec => []OrphansAreCut
<1> DEFINE IInv == TypeInv /\ \A e \in Email : Tracked(e)
<1>1. Init => IInv
  BY InitTypeInv DEF Init, Tracked, InFlight
<1>2. IInv /\ [Next]_vars => IInv'
  BY StepTypeInv, StepTracked
<1>3. IInv => OrphansAreCut
  BY HoldsIsClaimed DEF Tracked, OrphansAreCut
<1> QED
  BY <1>1, <1>2, <1>3, PTL DEF Spec


-----------------------------------------------------------------------------
(***************************************************************************)
(* One delivery at most.  Where retry requests are served one at a time    *)
(* and no job is handed out again, a message has one owner and moves as    *)
(* MessageLifecycle says, however many workers, composes and messages      *)
(* there are, and whatever storage, database, enqueue or SMTP fault        *)
(* happens.  The proof needs both hypotheses: the runs EmailRetryRace and  *)
(* EmailRedis are instances without the one and the other.                 *)
(***************************************************************************)

Serial ==
  /\ \A r, s \in Retrier : r = s
  /\ Durable => "crash" \notin Faults /\ "stall" \notin Faults

(***************************************************************************)
(* The inductive invariant.  Whoever holds a message knows its status ...  *)
(***************************************************************************)
StatusInv ==
  /\ \A j \in Job : job[j].state # "free" => status[job[j].email] \in {"queued", "sending"}
  /\ \A c \in Composer : \A e \in composing[c] : status[e] = "queued"
  /\ \A r \in Retrier : retrying[r].pc = "reset" => status[retrying[r].email] = "failed"
  /\ \A r \in Retrier : retrying[r].pc = "enqueue" => status[retrying[r].email] = "queued"
  /\ \A w \in Worker :
       worker[w].pc \in {"send", "sent", "fail"} => status[worker[w].email] = "sending"

\* ... there is one holder, a worker holding it through its job ...
ClaimInv ==
  /\ \A j, k \in Job :
       job[j].state # "free" /\ job[k].state # "free" /\ job[j].email = job[k].email => j = k
  /\ \A c, d \in Composer : composing[c] \cap composing[d] # {} => c = d
  /\ \A j \in Job, c \in Composer : job[j].state # "free" => job[j].email \notin composing[c]
  /\ \A j \in Job, r \in Retrier :
       job[j].state # "free" /\ retrying[r].pc # "idle" => job[j].email # retrying[r].email
  /\ \A c \in Composer, r \in Retrier :
       retrying[r].pc # "idle" => retrying[r].email \notin composing[c]
  /\ \A w \in Worker : worker[w].pc # "idle" => worker[w].job # None

\* ... and the copies that left agree with both.
ConfirmInv ==
  /\ \A e \in Email : /\ confirmed[e] \in {0, 1}
                      /\ status[e] \in {"none", "queued", "failed"} => confirmed[e] = 0
                      /\ status[e] = "sent" => confirmed[e] = 1
  /\ \A j \in Job : job[j].state = "waiting" => confirmed[job[j].email] = 0
  /\ \A w \in Worker : /\ worker[w].pc \in {"read", "mark", "send", "fail"} =>
                            confirmed[worker[w].email] = 0
                       /\ worker[w].pc = "sent" => confirmed[worker[w].email] = 1

IInv == TypeInv /\ StatusInv /\ ClaimInv /\ ConfirmInv

LEMMA InitIInv == Init => IInv
<1> SUFFICES ASSUME Init PROVE IInv
  OBVIOUS
<1>1. TypeInv
  BY InitTypeInv
<1>2. StatusInv /\ ClaimInv
  BY DEF Init, StatusInv, ClaimInv, FreeJob, Idle, NoRetry
<1>3. ConfirmInv
  BY DEF Init, ConfirmInv, FreeJob, Idle
<1> QED
  BY <1>1, <1>2, <1>3 DEF IInv

\* A worker is alone with its message.
LEMMA WorkerAlone ==
  ASSUME IInv, NEW w \in Worker, worker[w].pc # "idle"
  PROVE  /\ worker[w] \in WorkerRecord /\ worker[w].email \in Email /\ worker[w].job \in Job
         /\ job[worker[w].job].state = "active" /\ job[worker[w].job].email = worker[w].email
         /\ \A k \in Job : job[k].state # "free" /\ job[k].email = worker[w].email
                             => k = worker[w].job
         /\ \A v \in Worker : worker[v].pc # "idle" /\ worker[v].email = worker[w].email
                                => v = w
         /\ \A c \in Composer : worker[w].email \notin composing[c]
         /\ \A r \in Retrier : retrying[r].pc # "idle" => retrying[r].email # worker[w].email
<1>1. /\ worker[w] \in WorkerRecord /\ worker[w].email \in Email /\ worker[w].job \in Job
      /\ job[worker[w].job].state = "active" /\ job[worker[w].job].email = worker[w].email
  BY DEF IInv, TypeInv, TypeOK, WorkerHandsOK, ClaimInv, WorkerRecord
<1>2. \A k \in Job : job[k].state # "free" /\ job[k].email = worker[w].email
                       => k = worker[w].job
  BY <1>1 DEF IInv, ClaimInv
<1>3. ASSUME NEW v \in Worker, worker[v].pc # "idle", worker[v].email = worker[w].email
      PROVE  v = w
  <2>1. /\ worker[v].job \in Job /\ worker[v].job # None
        /\ job[worker[v].job].state = "active" /\ job[worker[v].job].email = worker[v].email
    BY <1>3 DEF IInv, TypeInv, TypeOK, WorkerHandsOK, ClaimInv, WorkerRecord
  <2>2. worker[v].job = worker[w].job
    BY <1>2, <1>3, <2>1
  <2> QED
    BY <2>1, <2>2 DEF IInv, TypeInv, WorkerHandsOK
<1>4. \A c \in Composer : worker[w].email \notin composing[c]
  BY <1>1 DEF IInv, ClaimInv
<1>5. \A r \in Retrier : retrying[r].pc # "idle" => retrying[r].email # worker[w].email
  BY <1>1 DEF IInv, ClaimInv
<1> QED
  BY <1>1, <1>2, <1>3, <1>4, <1>5

\* The end of an invocation, with the record of its message left at `to'.
LEMMA EndInvocation ==
  ASSUME IInv, NEW w \in Worker, worker[w].pc # "idle", NEW s, EndJob(w, s), NEW to,
         status' = [status EXCEPT ![worker[w].email] = to],
         UNCHANGED <<confirmed, composing, retrying>>,
         \/ s = FreeJob
         \/ /\ s.state = "waiting" /\ s.email = worker[w].email
            /\ to \in {"queued", "sending"} /\ confirmed[worker[w].email] = 0,
         to \in {"none", "queued", "failed"} => confirmed[worker[w].email] = 0,
         to = "sent" => confirmed[worker[w].email] = 1
  PROVE  StatusInv' /\ ClaimInv' /\ ConfirmInv'
<1> DEFINE e == worker[w].email
           k == worker[w].job
<1>1. /\ e \in Email /\ k \in Job /\ k # None
      /\ job[k].state = "active" /\ job[k].email = e
      /\ \A i \in Job : job[i].state # "free" /\ job[i].email = e => i = k
      /\ \A v \in Worker : worker[v].pc # "idle" /\ worker[v].email = e => v = w
      /\ \A c \in Composer : e \notin composing[c]
      /\ \A r \in Retrier : retrying[r].pc # "idle" => retrying[r].email # e
  BY WorkerAlone, DeliveryAssumption
<1>2. job' = [job EXCEPT ![k] = s] /\ worker' = [worker EXCEPT ![w] = Idle]
  BY <1>1 DEF EndJob
<1>3. /\ \A i \in Job : i # k => job'[i] = job[i] /\ (job[i].state # "free" => job[i].email # e)
      /\ job'[k] = s
  BY <1>1, <1>2 DEF IInv, TypeInv, TypeOK
<1>4. /\ \A v \in Worker : v # w =>
           worker'[v] = worker[v] /\ (worker[v].pc # "idle" => worker[v].email # e)
      /\ worker'[w].pc = "idle"
  BY <1>1, <1>2 DEF IInv, TypeInv, TypeOK, Idle
<1>5. \A x \in Email : status'[x] = IF x = e THEN to ELSE status[x]
  BY <1>1 DEF IInv, TypeInv, TypeOK
<1>6. s.state # "free" => s.state = "waiting" /\ s.email = e /\ to \in {"queued", "sending"}
                          /\ confirmed[e] = 0
  BY FreeJobTyped
<1>7. /\ \A j \in Job : job[j].state # "free" => job[j].email \in Email
      /\ \A v \in Worker : worker[v].pc # "idle" => worker[v].email \in Email
      /\ \A r \in Retrier : retrying[r].pc # "idle" => retrying[r].email \in Email
      /\ \A c \in Composer : composing[c] \subseteq Email
  BY DEF IInv, TypeInv, TypeOK, JobHandsOK, WorkerHandsOK, RetryHandsOK
<1> HIDE DEF e, k
<1>8. StatusInv'
  BY <1>1, <1>3, <1>4, <1>5, <1>6, <1>7 DEF IInv, StatusInv
<1>9. ClaimInv'
  BY <1>1, <1>3, <1>4, <1>6 DEF IInv, ClaimInv
<1>10. ConfirmInv'
  <2>1. \A x \in Email : /\ confirmed'[x] \in {0, 1}
                         /\ status'[x] \in {"none", "queued", "failed"} => confirmed'[x] = 0
                         /\ status'[x] = "sent" => confirmed'[x] = 1
    BY <1>1, <1>5 DEF IInv, ConfirmInv, e
  <2>2. \A j \in Job : job'[j].state = "waiting" => confirmed'[job'[j].email] = 0
    BY <1>1, <1>3, <1>6 DEF IInv, ConfirmInv
  <2>3. \A v \in Worker : /\ worker'[v].pc \in {"read", "mark", "send", "fail"} =>
                               confirmed'[worker'[v].email] = 0
                          /\ worker'[v].pc = "sent" => confirmed'[worker'[v].email] = 1
    BY <1>4 DEF IInv, ConfirmInv
  <2> QED
    BY <2>1, <2>2, <2>3 DEF ConfirmInv
<1> QED
  BY <1>8, <1>9, <1>10

\* The same, for an invocation that leaves the record as it is.
LEMMA EndUnrecorded ==
  ASSUME IInv, NEW w \in Worker, worker[w].pc # "idle", NEW s, EndJob(w, s),
         UNCHANGED <<status, confirmed, composing, retrying>>,
         \/ s = FreeJob
         \/ /\ s.state = "waiting" /\ s.email = worker[w].email
            /\ confirmed[worker[w].email] = 0
  PROVE  StatusInv' /\ ClaimInv' /\ ConfirmInv'
<1> DEFINE e == worker[w].email
<1>1. /\ e \in Email /\ worker[w].job \in Job
      /\ job[worker[w].job].state = "active" /\ job[worker[w].job].email = e
  BY WorkerAlone
<1>2. status' = [status EXCEPT ![e] = status[e]]
  BY <1>1 DEF IInv, TypeInv, TypeOK
<1>3. status[e] \in {"queued", "sending"}
  BY <1>1 DEF IInv, StatusInv
<1>4. status[e] \in {"none", "queued", "failed"} => confirmed[e] = 0
  BY <1>1 DEF IInv, ConfirmInv
<1> QED
  BY <1>2, <1>3, <1>4, EndInvocation

\* A step of the handler that keeps the job: only its own worker moves.
LEMMA Proceed ==
  ASSUME IInv, NEW w \in Worker, worker[w].pc # "idle",
         NEW pc \in {"mark", "send", "sent", "fail"}, Goto(w, pc),
         UNCHANGED <<job, composing, retrying>>
  PROVE  /\ ClaimInv'
         /\ worker'[w].pc = pc /\ worker'[w].email = worker[w].email
         /\ \A v \in Worker : v # w =>
              worker'[v] = worker[v] /\ (worker[v].pc # "idle" => worker[v].email # worker[w].email)
<1>1. worker \in [Worker -> WorkerRecord]
  BY DEF IInv, TypeInv, TypeOK
<1>2. /\ worker'[w].pc = pc /\ worker'[w].email = worker[w].email
      /\ worker'[w].job = worker[w].job
      /\ \A v \in Worker : v # w => worker'[v] = worker[v]
  BY <1>1 DEF Goto, WorkerRecord
<1>3. ClaimInv'
  BY <1>2 DEF IInv, ClaimInv
<1> QED
  BY <1>2, <1>3, WorkerAlone

LEMMA StepIInv == Serial /\ IInv /\ [Next]_vars => IInv'
<1> SUFFICES ASSUME Serial, IInv, [Next]_vars PROVE StatusInv' /\ ClaimInv' /\ ConfirmInv'
  BY StepTypeInv DEF IInv
<1> DEFINE Good == StatusInv /\ ClaimInv /\ ConfirmInv
<1> USE DEF records, copies
<1>0. /\ TypeOK /\ StatusInv /\ ClaimInv /\ ConfirmInv
      /\ \A j \in Job : job[j].state # "free" => job[j].email \in Email
      /\ \A v \in Worker : worker[v].pc # "idle" => worker[v].email \in Email
      /\ \A r \in Retrier : retrying[r].pc # "idle" => retrying[r].email \in Email
      /\ \A c \in Composer : composing[c] \subseteq Email
  BY DEF IInv, TypeInv, TypeOK, JobHandsOK, WorkerHandsOK, RetryHandsOK
<1>1. ASSUME NEW c \in Composer, NEW es \in SUBSET Email, Compose(c, es) PROVE Good'
  <2>1. /\ \A x \in Email : status'[x] = IF x \in es THEN "queued" ELSE status[x]
        /\ \A x \in es : status[x] = "none"
        /\ \A d \in Composer : composing'[d] = IF d = c THEN es ELSE composing[d]
        /\ UNCHANGED <<confirmed, job, worker, retrying>>
    BY <1>0, <1>1 DEF Compose, TypeOK
  <2>2. /\ \A j \in Job : job[j].state # "free" => job[j].email \notin es
        /\ \A d \in Composer : composing[d] \cap es = {}
        /\ \A r \in Retrier : retrying[r].pc # "idle" => retrying[r].email \notin es
    BY <1>0, <2>1 DEF StatusInv, TypeOK, RetryRecord
  <2>3. \A w \in Worker : worker[w].pc \in {"send", "sent", "fail"} => worker[w].email \notin es
    BY <1>0, <2>1 DEF StatusInv
  <2>4. StatusInv'
    BY <1>0, <2>1, <2>2, <2>3 DEF StatusInv
  <2>5. ClaimInv'
    BY <1>0, <2>1, <2>2 DEF ClaimInv
  <2>6. ConfirmInv'
    BY <1>0, <2>1 DEF ConfirmInv
  <2> QED
    BY <2>4, <2>5, <2>6
<1>2. ASSUME NEW r \in Retrier, NEW e \in Email, RetryFind(r, e) PROVE Good'
  <2>1. /\ status[e] = "failed" /\ retrying'[r].pc = "reset" /\ retrying'[r].email = e
        /\ \A q \in Retrier : q = r
        /\ UNCHANGED <<status, confirmed, job, worker, composing>>
    BY <1>0, <1>2 DEF RetryFind, TypeOK, Serial
  <2>2. /\ \A j \in Job : job[j].state # "free" => job[j].email # e
        /\ \A c \in Composer : e \notin composing[c]
    BY <1>0, <2>1 DEF StatusInv
  <2>3. StatusInv'
    BY <1>0, <2>1 DEF StatusInv
  <2>4. ClaimInv'
    BY <1>0, <2>1, <2>2 DEF ClaimInv
  <2>5. ConfirmInv'
    BY <1>0, <2>1 DEF ConfirmInv
  <2> QED
    BY <2>3, <2>4, <2>5
<1>3. ASSUME NEW c \in Composer, ComposeFails(c) PROVE Good'
  <2>1. /\ \A d \in Composer : composing'[d] \subseteq composing[d]
        /\ UNCHANGED <<status, confirmed, job, worker, retrying>>
    BY <1>0, <1>3 DEF ComposeFails, TypeOK
  <2> QED
    BY <1>0, <2>1 DEF StatusInv, ClaimInv, ConfirmInv
<1>4. ASSUME NEW c \in Composer, NEW e \in Email, ComposeEnqueue(c, e) PROVE Good'
  <2>1. PICK k \in Job :
          /\ job[k].state = "free"
          /\ job' = [job EXCEPT ![k] =
                       [state |-> "waiting", email |-> e, tries |-> 0, stalls |-> 0]]
    BY <1>4 DEF ComposeEnqueue, Enqueue
  <2>2. /\ job'[k].state = "waiting" /\ job'[k].email = e
        /\ \A j \in Job : j # k => job'[j] = job[j]
    BY <1>0, <2>1 DEF TypeOK
  <2>3. /\ e \in composing[c] /\ composing'[c] = composing[c] \ {e}
        /\ \A d \in Composer : d # c => composing'[d] = composing[d]
        /\ UNCHANGED <<status, confirmed, worker, retrying>>
    BY <1>0, <1>4 DEF ComposeEnqueue, TypeOK
  <2>4. /\ \A j \in Job : job[j].state # "free" => job[j].email # e
        /\ \A d \in Composer : e \notin composing'[d]
        /\ \A r \in Retrier : retrying[r].pc # "idle" => retrying[r].email # e
    BY <1>0, <2>3 DEF ClaimInv
  <2>5. status[e] = "queued" /\ confirmed[e] = 0
    BY <1>0, <2>3 DEF StatusInv, ConfirmInv
  <2>6. StatusInv'
    BY <1>0, <2>2, <2>3, <2>5 DEF StatusInv
  <2>7. ClaimInv'
    BY <1>0, <2>2, <2>3, <2>4 DEF ClaimInv
  <2>8. ConfirmInv'
    BY <1>0, <2>2, <2>3, <2>5 DEF ConfirmInv
  <2> QED
    BY <2>6, <2>7, <2>8
<1>5. ASSUME NEW r \in Retrier, RetryReset(r) PROVE Good'
  <2> DEFINE e == retrying[r].email
  <2>1. e \in Email /\ retrying[r].pc = "reset" /\ status[e] = "failed" /\ confirmed[e] = 0
    BY <1>0, <1>5 DEF RetryReset, StatusInv, ConfirmInv
  <2>2. /\ \A x \in Email : status'[x] = IF x = e THEN "queued" ELSE status[x]
        /\ retrying'[r].pc = "enqueue" /\ retrying'[r].email = e
        /\ \A q \in Retrier : q = r
        /\ UNCHANGED <<confirmed, job, worker, composing>>
    BY <1>0, <1>5, <2>1 DEF RetryReset, TypeOK, RetryRecord, Serial
  <2> HIDE DEF e
  <2>3. /\ \A j \in Job : job[j].state # "free" => job[j].email # e
        /\ \A c \in Composer : e \notin composing[c]
        /\ \A w \in Worker :
             worker[w].pc \in {"send", "sent", "fail"} => worker[w].email # e
    BY <1>0, <2>1 DEF StatusInv
  <2>4. StatusInv'
    BY <1>0, <2>1, <2>2, <2>3 DEF StatusInv
  <2>5. ClaimInv'
    BY <1>0, <2>2, <2>3 DEF ClaimInv
  <2>6. ConfirmInv'
    BY <1>0, <2>1, <2>2 DEF ConfirmInv
  <2> QED
    BY <2>4, <2>5, <2>6
<1>6. ASSUME NEW r \in Retrier, RetryEnqueue(r) PROVE Good'
  <2> DEFINE e == retrying[r].email
  <2>1. /\ e \in Email /\ retrying[r].pc = "enqueue"
        /\ status[e] = "queued" /\ confirmed[e] = 0
    BY <1>0, <1>6 DEF RetryEnqueue, StatusInv, ConfirmInv
  <2>2. PICK k \in Job :
          /\ job[k].state = "free"
          /\ job' = [job EXCEPT ![k] =
                       [state |-> "waiting", email |-> e, tries |-> 0, stalls |-> 0]]
    BY <1>6 DEF RetryEnqueue, Enqueue
  <2>3. /\ job'[k].state = "waiting" /\ job'[k].email = e
        /\ \A j \in Job : j # k => job'[j] = job[j]
    BY <1>0, <2>2 DEF TypeOK
  <2>4. /\ retrying'[r].pc = "idle" /\ \A q \in Retrier : q = r
        /\ UNCHANGED <<status, confirmed, worker, composing>>
    BY <1>0, <1>6 DEF RetryEnqueue, NoRetry, TypeOK, Serial
  <2> HIDE DEF e
  <2>5. /\ \A j \in Job : job[j].state # "free" => job[j].email # e
        /\ \A d \in Composer : e \notin composing[d]
    BY <1>0, <2>1 DEF ClaimInv, e
  <2>6. StatusInv'
    BY <1>0, <2>1, <2>3, <2>4 DEF StatusInv
  <2>7. ClaimInv'
    BY <1>0, <2>3, <2>4, <2>5 DEF ClaimInv
  <2>8. ConfirmInv'
    BY <1>0, <2>1, <2>3, <2>4 DEF ConfirmInv
  <2> QED
    BY <2>6, <2>7, <2>8
<1>7. ASSUME NEW r \in Retrier, RetryFails(r) PROVE Good'
  <2>1. /\ retrying'[r].pc = "idle" /\ \A q \in Retrier : q = r
        /\ UNCHANGED <<status, confirmed, job, worker, composing>>
    BY <1>0, <1>7 DEF RetryFails, NoRetry, TypeOK, Serial
  <2> QED
    BY <1>0, <2>1 DEF StatusInv, ClaimInv, ConfirmInv
<1>8. ASSUME NEW w \in Worker, NEW j \in Job, Pick(w, j) PROVE Good'
  <2>1. /\ job[j].state = "waiting" /\ job'[j].state = "active" /\ job'[j].email = job[j].email
        /\ \A i \in Job : i # j => job'[i] = job[i]
        /\ worker'[w].pc = "read" /\ worker'[w].job = j /\ worker'[w].email = job[j].email
        /\ \A v \in Worker : v # w => worker'[v] = worker[v]
        /\ UNCHANGED <<status, confirmed, composing, retrying>>
    BY <1>0, <1>8 DEF Pick, TypeOK, JobRecord
  <2>2. j # None
    BY DeliveryAssumption
  <2>3. StatusInv'
    BY <1>0, <2>1 DEF StatusInv
  <2>4. ClaimInv'
    BY <1>0, <2>1, <2>2 DEF ClaimInv
  <2>5. ConfirmInv'
    BY <1>0, <2>1 DEF ConfirmInv
  <2> QED
    BY <2>3, <2>4, <2>5
<1>9. ASSUME NEW w \in Worker, Read(w) PROVE Good'
  <2>1. worker[w].pc = "read" /\ UNCHANGED <<status, confirmed, composing, retrying>>
    BY <1>9 DEF Read, At
  <2>2. CASE status[worker[w].email] = "sent"
    BY <1>9, <2>1, <2>2, EndUnrecorded DEF Read
  <2>3. CASE status[worker[w].email] # "sent"
    <3>1. UNCHANGED job /\ Goto(w, "mark")
      BY <1>9, <2>3 DEF Read
    <3>2. /\ ClaimInv'
          /\ worker'[w].pc = "mark" /\ worker'[w].email = worker[w].email
          /\ \A v \in Worker : v # w => worker'[v] = worker[v]
      BY <2>1, <3>1, Proceed
    <3>3. StatusInv' /\ ConfirmInv'
      BY <1>0, <2>1, <3>1, <3>2 DEF StatusInv, ConfirmInv
    <3> QED
      BY <3>2, <3>3
  <2> QED
    BY <2>2, <2>3
<1>10. ASSUME NEW w \in Worker, MarkSending(w) PROVE Good'
  <2> DEFINE e == worker[w].email
  <2>1. worker[w].pc = "mark" /\ e \in Email /\ confirmed[e] = 0
    BY <1>0, <1>10 DEF MarkSending, At, ConfirmInv
  <2>2. /\ ClaimInv'
        /\ worker'[w].pc = "send" /\ worker'[w].email = e
        /\ \A v \in Worker : v # w =>
             worker'[v] = worker[v] /\ (worker[v].pc # "idle" => worker[v].email # e)
    BY <1>10, <2>1, Proceed DEF MarkSending
  <2>3. /\ \A x \in Email : status'[x] = IF x = e THEN "sending" ELSE status[x]
        /\ UNCHANGED <<confirmed, job, composing, retrying>>
    BY <1>0, <1>10, <2>1 DEF MarkSending, TypeOK
  <2>4. /\ \A c \in Composer : e \notin composing[c]
        /\ \A r \in Retrier : retrying[r].pc # "idle" => retrying[r].email # e
    BY <2>1, WorkerAlone
  <2> HIDE DEF e
  <2>5. StatusInv'
    BY <1>0, <2>1, <2>2, <2>3, <2>4 DEF StatusInv
  <2>6. ConfirmInv'
    BY <1>0, <2>1, <2>2, <2>3 DEF ConfirmInv
  <2> QED
    BY <2>2, <2>5, <2>6
<1>11. ASSUME NEW w \in Worker, Goto(w, "fail"), worker[w].pc = "send",
              UNCHANGED <<status, confirmed, job, composing, retrying>>
       PROVE  Good'
  <2>1. /\ ClaimInv'
        /\ worker'[w].pc = "fail" /\ worker'[w].email = worker[w].email
        /\ \A v \in Worker : v # w => worker'[v] = worker[v]
    BY <1>11, Proceed
  <2>2. StatusInv' /\ ConfirmInv'
    BY <1>0, <1>11, <2>1 DEF StatusInv, ConfirmInv
  <2> QED
    BY <2>1, <2>2
<1>12. ASSUME NEW w \in Worker, Accepted(w) PROVE Good'
  <2> DEFINE e == worker[w].email
  <2>1. worker[w].pc = "send" /\ e \in Email /\ confirmed[e] = 0 /\ status[e] = "sending"
    BY <1>0, <1>12 DEF Accepted, At, ConfirmInv, StatusInv
  <2>2. /\ ClaimInv'
        /\ worker'[w].pc = "sent" /\ worker'[w].email = e
        /\ \A v \in Worker : v # w =>
             worker'[v] = worker[v] /\ (worker[v].pc # "idle" => worker[v].email # e)
    BY <1>12, <2>1, Proceed DEF Accepted
  <2>3. /\ \A x \in Email : confirmed'[x] = IF x = e THEN 1 ELSE confirmed[x]
        /\ UNCHANGED <<status, job, composing, retrying>>
    BY <1>0, <1>12, <2>1 DEF Accepted, TypeOK
  <2>4. \A j \in Job : job[j].state = "waiting" => job[j].email # e
    <3>1. /\ job[worker[w].job].state = "active"
          /\ \A k \in Job : job[k].state # "free" /\ job[k].email = e => k = worker[w].job
      BY <2>1, WorkerAlone
    <3> QED
      BY <3>1
  <2> HIDE DEF e
  <2>5. StatusInv'
    BY <1>0, <2>1, <2>2, <2>3 DEF StatusInv
  <2>6. ConfirmInv'
    BY <1>0, <2>1, <2>2, <2>3, <2>4 DEF ConfirmInv
  <2> QED
    BY <2>2, <2>5, <2>6
<1>13. ASSUME NEW w \in Worker, Transient(w) PROVE Good'
  <2>1. worker[w].pc = "send" /\ UNCHANGED <<status, confirmed, composing, retrying>>
    BY <1>13 DEF Transient, At
  <2>2. CASE IsLastAttempt(w)
    BY <1>11, <1>13, <2>1, <2>2 DEF Transient
  <2>3. CASE ~IsLastAttempt(w)
    <3>1. confirmed[worker[w].email] = 0
      BY <1>0, <2>1 DEF ConfirmInv
    <3>2. \/ AfterRetryable(w) = FreeJob
          \/ /\ AfterRetryable(w).state = "waiting"
             /\ AfterRetryable(w).email = worker[w].email
      BY DEF AfterRetryable
    <3>3. EndJob(w, AfterRetryable(w))
      BY <1>13, <2>3 DEF Transient
    <3> QED
      BY <2>1, <3>1, <3>2, <3>3, EndUnrecorded
  <2> QED
    BY <2>2, <2>3
<1>14. ASSUME NEW w \in Worker, RecordSent(w) PROVE Good'
  <2>1. worker[w].pc = "sent" /\ confirmed[worker[w].email] = 1
    BY <1>0, <1>14 DEF RecordSent, At, ConfirmInv
  <2>2. /\ EndJob(w, FreeJob) /\ status' = [status EXCEPT ![worker[w].email] = "sent"]
        /\ UNCHANGED <<confirmed, composing, retrying>>
    BY <1>14 DEF RecordSent
  <2> QED
    BY <2>1, <2>2, EndInvocation
<1>15. ASSUME NEW w \in Worker, RecordFailed(w) PROVE Good'
  <2>1. worker[w].pc = "fail" /\ confirmed[worker[w].email] = 0
    BY <1>0, <1>15 DEF RecordFailed, At, ConfirmInv
  <2>2. /\ EndJob(w, FreeJob) /\ status' = [status EXCEPT ![worker[w].email] = "failed"]
        /\ UNCHANGED <<confirmed, composing, retrying>>
    BY <1>15 DEF RecordFailed
  <2> QED
    BY <2>1, <2>2, EndInvocation
<1>16. ASSUME NEW w \in Worker, HandlerThrows(w) PROVE Good'
  <2>1. worker[w].pc # "idle"
    BY <1>16 DEF HandlerThrows, At
  <2> QED
    BY <1>16, <2>1, EndUnrecorded DEF HandlerThrows
<1>17. ASSUME NEW w \in Worker, Stall(w) PROVE FALSE
  BY <1>17 DEF Stall, Serial
<1>18. ASSUME Crash PROVE Good'
  <2>1. ~Durable
    BY <1>18 DEF Crash, Serial
  <2>2. /\ \A j \in Job : job'[j] = FreeJob
        /\ \A w \in Worker : worker'[w] = Idle
        /\ \A c \in Composer : composing'[c] = {}
        /\ \A r \in Retrier : retrying'[r] = NoRetry
        /\ UNCHANGED <<status, confirmed>>
    BY <1>18, <2>1 DEF Crash
  <2>3. StatusInv' /\ ClaimInv'
    BY <2>2 DEF StatusInv, ClaimInv, FreeJob, Idle, NoRetry
  <2>4. ConfirmInv'
    BY <1>0, <2>2 DEF ConfirmInv, FreeJob, Idle
  <2> QED
    BY <2>3, <2>4
<1>19. CASE UNCHANGED vars
  BY <1>0, <1>19 DEF vars, StatusInv, ClaimInv, ConfirmInv
<1>20. ASSUME NEW w \in Worker, Refused(w) PROVE Good'
  BY <1>11, <1>20 DEF Refused, At
<1> QED
  BY <1>1, <1>2, <1>3, <1>4, <1>5, <1>6, <1>7, <1>8, <1>9, <1>10, <1>12, <1>13, <1>14,
     <1>15, <1>16, <1>17, <1>18, <1>19, <1>20 DEF Next, User, Request, Handle

-----------------------------------------------------------------------------
(***************************************************************************)
(* The record shows the true outcome: sent once and acknowledged, or       *)
(* failed and never taken (in-process-queue.ts:36).                        *)
(***************************************************************************)
THEOREM OutcomesAreTrue == ASSUME Serial PROVE Spec => []OutcomeIsTrue
<1>1. IInv => OutcomeIsTrue
  BY DEF IInv, ConfirmInv, OutcomeIsTrue
<1>2. IInv /\ [Next]_vars => IInv'
  BY StepIInv
<1> QED
  BY <1>1, <1>2, InitIInv, PTL DEF Spec

\* A message is in one pair of hands.
THEOREM OneOwner == ASSUME Serial PROVE Spec => []OneClaim
<1>1. IInv => OneClaim
  <2> SUFFICES ASSUME IInv, NEW e \in Email
               PROVE  /\ \A j, k \in JobsOf(e) : j = k
                      /\ \A c, d \in ComposersOf(e) : c = d
                      /\ \A v, w \in WorkersOf(e) : v = w
                      /\ JobsOf(e) # {} => ComposersOf(e) = {} /\ RetriersOf(e) = {}
                      /\ ComposersOf(e) # {} => RetriersOf(e) = {} /\ WorkersOf(e) = {}
                      /\ status[e] = "sent" => ~Claimed(e)
    BY DEF OneClaim
  <2>1. \A j, k \in JobsOf(e) : j = k
    BY DEF IInv, ClaimInv, JobsOf
  <2>2. \A c, d \in ComposersOf(e) : c = d
    BY DEF IInv, ClaimInv, ComposersOf
  <2>3. \A v, w \in WorkersOf(e) : v = w
    BY WorkerAlone DEF WorkersOf
  <2>4. JobsOf(e) # {} => ComposersOf(e) = {} /\ RetriersOf(e) = {}
    BY DEF IInv, ClaimInv, JobsOf, ComposersOf, RetriersOf
  <2>5. ComposersOf(e) # {} => RetriersOf(e) = {} /\ WorkersOf(e) = {}
    <3>1. ComposersOf(e) # {} => RetriersOf(e) = {}
      BY DEF IInv, ClaimInv, ComposersOf, RetriersOf
    <3>2. ComposersOf(e) # {} => WorkersOf(e) = {}
      BY WorkerAlone DEF ComposersOf, WorkersOf
    <3> QED
      BY <3>1, <3>2
  <2>6. \A w \in WorkersOf(e) : JobsOf(e) # {}
    BY WorkerAlone DEF WorkersOf, JobsOf
  <2>7. status[e] = "sent" => JobsOf(e) = {} /\ ComposersOf(e) = {}
    BY DEF IInv, StatusInv, JobsOf, ComposersOf
  <2>8. status[e] = "sent" => ~\E r \in RetriersOf(e) : retrying[r].pc = "enqueue"
    BY DEF IInv, StatusInv, RetriersOf
  <2> QED
    BY <2>1, <2>2, <2>3, <2>4, <2>5, <2>6, <2>7, <2>8 DEF Claimed
<1>2. IInv /\ [Next]_vars => IInv'
  BY StepIInv
<1> QED
  BY <1>1, <1>2, InitIInv, PTL DEF Spec

\* After the acknowledgement of a message no further copy of it leaves
\* (email.service.ts:386, email.worker.ts:49).
THEOREM NotSentTwice == ASSUME Serial PROVE Spec => NeverResent
<1> DEFINE Kept == \A e \in Email : confirmed[e] > 0 => UNCHANGED <<confirmed[e], doubtful[e]>>
<1>1. IInv /\ [Next]_vars => [Kept]_vars
  <2> SUFFICES ASSUME IInv, Next PROVE Kept
    BY DEF vars
  <2> USE DEF records, copies
  <2>1. CASE UNCHANGED <<confirmed, doubtful>>
    BY <2>1
  <2>2. ASSUME NEW w \in Worker, At(w, "send") PROVE confirmed[worker[w].email] = 0
    BY <2>2 DEF IInv, ConfirmInv, At
  <2>3. ASSUME NEW w \in Worker, Accepted(w) PROVE Kept
    BY <2>2, <2>3 DEF Accepted, IInv, TypeInv, TypeOK
  <2>4. ASSUME NEW w \in Worker, Transient(w) PROVE Kept
    BY <2>2, <2>4 DEF Transient, IInv, TypeInv, TypeOK
  <2>5. ASSUME NEW w \in Worker, Handle(w) PROVE Kept
    BY <2>1, <2>3, <2>4, <2>5 DEF Handle, Read, MarkSending, Refused, RecordSent,
       RecordFailed, HandlerThrows
  <2>6. CASE User \/ Request
    BY <2>1, <2>6 DEF User, Request, Compose, RetryFind, ComposeFails, ComposeEnqueue,
       RetryReset, RetryEnqueue, RetryFails
  <2> QED
    BY <2>1, <2>5, <2>6 DEF Next, Pick, Stall, Crash
<1>2. IInv /\ [Next]_vars => IInv'
  BY StepIInv
<1> QED
  BY <1>1, <1>2, InitIInv, PTL DEF Spec, NeverResent

-----------------------------------------------------------------------------
(***************************************************************************)
(* Requests, worker, queue and restarts together do what MessageLifecycle  *)
(* promises the sender: every step is one of its steps, or moves neither   *)
(* the record's status nor a copy.                                         *)
(***************************************************************************)
LEMMA StepLifecycle ==
  ASSUME IInv, [Next]_vars
  PROVE  [Lifecycle!Next]_(Lifecycle!vars)
<1> USE DEF Lifecycle!vars, records, copies
<1>1. ASSUME NEW c \in Composer, NEW es \in SUBSET Email, Compose(c, es)
      PROVE  Lifecycle!Next
  BY <1>1 DEF Compose, Lifecycle!Next, Lifecycle!Create
<1>2. ASSUME NEW r \in Retrier, RetryReset(r) PROVE Lifecycle!Next
  <2>1. retrying[r].email \in Email /\ status[retrying[r].email] = "failed"
        /\ confirmed[retrying[r].email] = 0
    BY <1>2 DEF RetryReset, IInv, TypeInv, RetryHandsOK, StatusInv, ConfirmInv
  <2>2. Lifecycle!Requeue(retrying[r].email)
    BY <1>2, <2>1 DEF RetryReset, Lifecycle!Requeue, Lifecycle!Move
  <2> QED
    BY <2>1, <2>2 DEF Lifecycle!Next
<1>3. ASSUME NEW w \in Worker, ~At(w, "idle")
      PROVE  /\ worker[w].email \in Email
             /\ status[worker[w].email] \in {"queued", "sending"}
  BY <1>3, WorkerAlone DEF At, IInv, StatusInv
<1>4. ASSUME NEW w \in Worker, MarkSending(w) PROVE Lifecycle!Next
  <2>1. confirmed[worker[w].email] = 0
    BY <1>4 DEF MarkSending, At, IInv, ConfirmInv
  <2>2. Lifecycle!Begin(worker[w].email)
    BY <1>3, <1>4, <2>1 DEF MarkSending, At, Lifecycle!Begin, Lifecycle!Move
  <2> QED
    BY <1>3, <1>4, <2>2 DEF MarkSending, At, Lifecycle!Next
<1>5. ASSUME NEW w \in Worker, Accepted(w) PROVE Lifecycle!Next
  <2>1. confirmed[worker[w].email] = 0 /\ status[worker[w].email] = "sending"
    BY <1>5 DEF Accepted, At, IInv, ConfirmInv, StatusInv
  <2>2. Lifecycle!HandOver(worker[w].email)
    BY <1>5, <2>1 DEF Accepted, Lifecycle!HandOver
  <2> QED
    BY <1>3, <1>5, <2>2 DEF Accepted, At, Lifecycle!Next
<1>6. ASSUME NEW w \in Worker, RecordSent(w) PROVE Lifecycle!Next
  <2>1. confirmed[worker[w].email] = 1 /\ status[worker[w].email] = "sending"
    BY <1>6 DEF RecordSent, At, IInv, ConfirmInv, StatusInv
  <2>2. Lifecycle!Deliver(worker[w].email)
    BY <1>6, <2>1 DEF RecordSent, Lifecycle!Deliver, Lifecycle!Move
  <2> QED
    BY <1>3, <1>6, <2>2 DEF RecordSent, At, Lifecycle!Next
<1>7. ASSUME NEW w \in Worker, RecordFailed(w) PROVE Lifecycle!Next
  <2>1. confirmed[worker[w].email] = 0 /\ status[worker[w].email] = "sending"
    BY <1>7 DEF RecordFailed, At, IInv, ConfirmInv, StatusInv
  <2>2. Lifecycle!Fail(worker[w].email)
    BY <1>7, <2>1 DEF RecordFailed, Lifecycle!Fail, Lifecycle!Move
  <2> QED
    BY <1>3, <1>7, <2>2 DEF RecordFailed, At, Lifecycle!Next
<1>8. CASE UNCHANGED <<status, confirmed>>
  BY <1>8
<1>9. ASSUME NEW w \in Worker, Handle(w) PROVE [Lifecycle!Next]_(Lifecycle!vars)
  BY <1>4, <1>5, <1>6, <1>7, <1>8, <1>9 DEF Handle, Read, Refused, Transient, HandlerThrows
<1>10. CASE User \/ Request
  BY <1>1, <1>2, <1>8, <1>10 DEF User, Request, RetryFind, ComposeFails, ComposeEnqueue,
     RetryEnqueue, RetryFails
<1> QED
  BY <1>8, <1>9, <1>10 DEF Next, vars, Pick, Stall, Crash

(***************************************************************************)
(* Requests, workers and restarts together keep the promise made to the    *)
(* sender: every step of EmailDelivery is a step of MessageLifecycle, or   *)
(* changes nothing the sender sees.                                        *)
(***************************************************************************)
THEOREM DeliveryImplementsLifecycle == ASSUME Serial PROVE Spec => ImplementsLifecycle
<1>1. Init => Lifecycle!Init
  BY DEF Init, Lifecycle!Init
<1>2. IInv /\ [Next]_vars => IInv'
  BY StepIInv
<1>3. IInv /\ [Next]_vars => [Lifecycle!Next]_(Lifecycle!vars)
  BY StepLifecycle
<1> QED
  BY <1>1, <1>2, <1>3, InitIInv, PTL DEF Spec, ImplementsLifecycle, Lifecycle!Spec


=============================================================================
