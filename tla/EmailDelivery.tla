---------------------------- MODULE EmailDelivery ----------------------------
(***************************************************************************)
(* How a message gets from "Send" to the provider: the compose and retry   *)
(* requests of backend/src/modules/emails/email.service.ts, the worker of  *)
(* email.worker.ts, the records of email.repository.ts they all write, and *)
(* the job queue between them.                                             *)
(*                                                                         *)
(* Each database or SMTP round trip is a step of its own, so requests and  *)
(* workers interleave at every await.  Of the queue the model keeps what   *)
(* the two drivers share (JobQueue states it, InProcessQueue models the    *)
(* in-memory driver in full): a waiting job is run by one worker, a        *)
(* RetryableJobError puts it back with one try less, anything else         *)
(* discards it.  Durable distinguishes the drivers: BullMQ's jobs survive  *)
(* a restart and are handed out again when their worker is lost.           *)
(*                                                                         *)
(* Faults names what the environment may do in a run:                      *)
(*   storage    an attachment's object cannot be read                      *)
(*   database   a MongoDB call of the worker rejects                       *)
(*   queue      an enqueue rejects                                         *)
(*   lostAck    the provider takes a message and its answer is lost        *)
(*   crash      the process dies and is started again                      *)
(*   stall      (Durable) a worker loses the lock on its job and goes on   *)
(***************************************************************************)
EXTENDS Naturals, FiniteSets

CONSTANTS Email,       \* message records that may be composed
          Job,         \* job slots of the queue
          Worker,      \* one per process: the queues run one job at a time
          Composer,    \* compose requests that may be served at once
          Retrier,     \* retry requests that may be served at once
          MaxAttempts, \* env.EMAIL_MAX_ATTEMPTS, the queue's defaultAttempts
          MaxStalls,   \* redeliveries BullMQ allows a job
          MaxSends,    \* bound: no retry of a message attempted so often
          Durable,     \* TRUE: the Redis driver, FALSE: the in-memory one
          Faults,
          None

FaultKinds == {"storage", "database", "queue", "lostAck", "crash", "stall"}

ASSUME DeliveryAssumption ==
  /\ IsFiniteSet(Worker)
  /\ MaxAttempts \in Nat \ {0}
  /\ MaxStalls \in Nat
  /\ MaxSends \in Nat
  /\ Durable \in BOOLEAN
  /\ Faults \subseteq FaultKinds
  /\ None \notin Email \cup Job

VARIABLES
  status,       \* the record's status; "none" until it is created
  attemptCount,
  confirmed,    \* history: copies the provider took and acknowledged
  doubtful,     \* history: copies it took without the worker learning of it
  job,          \* the queue
  worker,       \* the handler invocation of each worker
  composing,    \* records a compose request has created and not yet enqueued
  retrying,     \* where each retry request stands
  cut           \* history: messages a fault has left without a job

records == <<status, attemptCount>>
copies  == <<confirmed, doubtful>>
vars == <<status, attemptCount, confirmed, doubtful, job, worker, composing,
          retrying, cut>>

Statuses == {"none", "queued", "sending", "sent", "failed"}

JobRecord ==
  [state : {"free", "waiting", "active"}, email : Email \cup {None},
   tries : Nat, stalls : Nat]

FreeJob == [state |-> "free", email |-> None, tries |-> 0, stalls |-> 0]

\* The payload and JobContext of the invocation, and how far it has come.
\* A worker that lost its lock goes on with job = None.
WorkerRecord ==
  [pc : {"idle", "read", "mark", "send", "sent", "fail"}, job : Job \cup {None},
   email : Email \cup {None}, attempt : Nat]

Idle == [pc |-> "idle", job |-> None, email |-> None, attempt |-> 0]

RetryRecord == [pc : {"idle", "reset", "enqueue"}, email : Email \cup {None}]

NoRetry == [pc |-> "idle", email |-> None]

TypeOK ==
  /\ status \in [Email -> Statuses]
  /\ attemptCount \in [Email -> Nat]
  /\ confirmed \in [Email -> Nat]
  /\ doubtful \in [Email -> Nat]
  /\ job \in [Job -> JobRecord]
  /\ worker \in [Worker -> WorkerRecord]
  /\ composing \in [Composer -> SUBSET Email]
  /\ retrying \in [Retrier -> RetryRecord]
  /\ cut \subseteq Email

Init ==
  /\ status = [e \in Email |-> "none"]
  /\ attemptCount = [e \in Email |-> 0]
  /\ confirmed = [e \in Email |-> 0]
  /\ doubtful = [e \in Email |-> 0]
  /\ job = [j \in Job |-> FreeJob]
  /\ worker = [w \in Worker |-> Idle]
  /\ composing = [c \in Composer |-> {}]
  /\ retrying = [r \in Retrier |-> NoRetry]
  /\ cut = {}

-----------------------------------------------------------------------------
(***************************************************************************)
(* Requests.                                                               *)
(***************************************************************************)

Enqueue(e) ==
  \E j \in Job :
    /\ job[j].state = "free"
    /\ job' = [job EXCEPT ![j] =
                 [state |-> "waiting", email |-> e, tries |-> 0, stalls |-> 0]]

\* compose(): one record per recipient, written before anything is enqueued.
Compose(c, es) ==
  /\ composing[c] = {}
  /\ es # {}
  /\ \A e \in es : status[e] = "none"
  /\ status' = [e \in Email |-> IF e \in es THEN "queued" ELSE status[e]]
  /\ composing' = [composing EXCEPT ![c] = es]
  /\ UNCHANGED <<attemptCount, copies, job, worker, retrying, cut>>

\* Mutant of ComposeEnqueue: the loop does not move on.
ComposeEnqueueAgain(c, e) ==
  /\ e \in composing[c]
  /\ Enqueue(e)
  /\ UNCHANGED <<records, copies, worker, composing, retrying, cut>>

\* One turn of compose()'s enqueue loop.
ComposeEnqueue(c, e) ==
  /\ e \in composing[c]
  /\ Enqueue(e)
  /\ composing' = [composing EXCEPT ![c] = @ \ {e}]
  /\ UNCHANGED <<records, copies, worker, retrying, cut>>

\* An enqueue rejects (or, before the first, the update of the attachments'
\* usage counts): so does the request, and the rest is not enqueued.
ComposeFails(c) ==
  /\ "queue" \in Faults
  /\ composing[c] # {}
  /\ composing' = [composing EXCEPT ![c] = {}]
  /\ cut' = cut \cup composing[c]
  /\ UNCHANGED <<records, copies, job, worker, retrying>>

\* Mutants of RetryFind: a status filter that lets too much through.
RetryFindInFlight(r, e) ==
  /\ retrying[r].pc = "idle"
  /\ status[e] \in {"failed", "sending"}
  /\ attemptCount[e] < MaxSends
  /\ retrying' = [retrying EXCEPT ![r] = [pc |-> "reset", email |-> e]]
  /\ UNCHANGED <<records, copies, job, worker, composing, cut>>

RetryFindSettled(r, e) ==
  /\ retrying[r].pc = "idle"
  /\ status[e] \in {"failed", "sent"}
  /\ attemptCount[e] < MaxSends
  /\ retrying' = [retrying EXCEPT ![r] = [pc |-> "reset", email |-> e]]
  /\ UNCHANGED <<records, copies, job, worker, composing, cut>>

\* retry(): findFailedById ...
RetryFind(r, e) ==
  /\ retrying[r].pc = "idle"
  /\ status[e] = "failed"
  /\ attemptCount[e] < MaxSends
  /\ retrying' = [retrying EXCEPT ![r] = [pc |-> "reset", email |-> e]]
  /\ UNCHANGED <<records, copies, job, worker, composing, cut>>

\* ... resetForRetry, whose filter does not name the status it read ...
RetryReset(r) ==
  /\ retrying[r].pc = "reset"
  /\ status' = [status EXCEPT ![retrying[r].email] = "queued"]
  /\ retrying' = [retrying EXCEPT ![r].pc = "enqueue"]
  /\ UNCHANGED <<attemptCount, copies, job, worker, composing, cut>>

\* ... and a new job.
RetryEnqueue(r) ==
  /\ retrying[r].pc = "enqueue"
  /\ Enqueue(retrying[r].email)
  /\ retrying' = [retrying EXCEPT ![r] = NoRetry]
  /\ UNCHANGED <<records, copies, worker, composing, cut>>

RetryFails(r) ==
  /\ "queue" \in Faults
  /\ retrying[r].pc = "enqueue"
  /\ retrying' = [retrying EXCEPT ![r] = NoRetry]
  /\ cut' = cut \cup {retrying[r].email}
  /\ UNCHANGED <<records, copies, job, worker, composing>>

-----------------------------------------------------------------------------
(***************************************************************************)
(* The worker's handler, between the queue's start of a job and its end.   *)
(***************************************************************************)

At(w, pc) == worker[w].pc = pc

Goto(w, pc) == worker' = [worker EXCEPT ![w].pc = pc]

\* The invocation ends and the queue puts s in the slot of its job, unless
\* the lock on it was lost.
EndJob(w, s) ==
  /\ worker' = [worker EXCEPT ![w] = Idle]
  /\ job' = IF worker[w].job = None THEN job ELSE [job EXCEPT ![worker[w].job] = s]

Pick(w, j) ==
  /\ At(w, "idle")
  /\ job[j].state = "waiting"
  /\ job' = [job EXCEPT ![j].state = "active"]
  /\ worker' = [worker EXCEPT ![w] =
                  [pc |-> "read", job |-> j, email |-> job[j].email,
                   attempt |-> job[j].tries + 1]]
  /\ UNCHANGED <<records, copies, composing, retrying, cut>>

\* findById: a message already sent is skipped.
Read(w) ==
  /\ At(w, "read")
  /\ IF status[worker[w].email] = "sent"
     THEN EndJob(w, FreeJob)
     ELSE Goto(w, "mark") /\ UNCHANGED job
  /\ UNCHANGED <<records, copies, composing, retrying, cut>>

\* Mutant of MarkSending: only the first attempt of a job is counted.
MarkSendingOnce(w) ==
  /\ At(w, "mark")
  /\ status' = [status EXCEPT ![worker[w].email] = "sending"]
  /\ attemptCount' = [attemptCount EXCEPT ![worker[w].email] =
                        IF worker[w].attempt = 1 THEN @ + 1 ELSE @]
  /\ Goto(w, "send")
  /\ UNCHANGED <<copies, job, composing, retrying, cut>>

MarkSending(w) ==
  /\ At(w, "mark")
  /\ status' = [status EXCEPT ![worker[w].email] = "sending"]
  /\ attemptCount' = [attemptCount EXCEPT ![worker[w].email] = @ + 1]
  /\ Goto(w, "send")
  /\ UNCHANGED <<copies, job, composing, retrying, cut>>

\* getSendingCredential throws, or the provider refuses the message or the
\* credential: nothing another attempt would change.
Refused(w) ==
  /\ At(w, "send")
  /\ Goto(w, "fail")
  /\ UNCHANGED <<records, copies, job, composing, retrying, cut>>

\* Mutant of Accepted: an accepted message is reported as a failure.
AcceptedAsFailure(w) ==
  /\ At(w, "send")
  /\ confirmed' = [confirmed EXCEPT ![worker[w].email] = @ + 1]
  /\ Goto(w, "fail")
  /\ UNCHANGED <<records, doubtful, job, composing, retrying, cut>>

Accepted(w) ==
  /\ At(w, "send")
  /\ confirmed' = [confirmed EXCEPT ![worker[w].email] = @ + 1]
  /\ Goto(w, "sent")
  /\ UNCHANGED <<records, doubtful, job, composing, retrying, cut>>

\* Mutant of IsLastAttempt: off by one, against the budget of the queue.
IsLastAttemptLate(w) == worker[w].attempt > MaxAttempts

IsLastAttempt(w) == worker[w].attempt >= MaxAttempts

\* What the queue's own attempt budget makes of a RetryableJobError.
AfterRetryable(w) ==
  IF worker[w].attempt < MaxAttempts
  THEN [state |-> "waiting", email |-> worker[w].email,
        tries |-> worker[w].attempt, stalls |-> job[worker[w].job].stalls]
  ELSE FreeJob

\* Mutant of Transient: the last transient failure is taken for a success.
TransientAsSent(w) ==
  /\ At(w, "send")
  /\ IF IsLastAttempt(w)
     THEN Goto(w, "sent") /\ UNCHANGED <<job, cut>>
     ELSE /\ EndJob(w, AfterRetryable(w))
          /\ cut' = IF worker[w].job = None THEN cut \cup {worker[w].email} ELSE cut
  /\ UNCHANGED <<records, copies, composing, retrying>>

\* A retryable failure; the provider may have taken the message all the same.
Transient(w) ==
  /\ At(w, "send")
  /\ \/ UNCHANGED doubtful
     \/ /\ "lostAck" \in Faults
        /\ doubtful' = [doubtful EXCEPT ![worker[w].email] = @ + 1]
  /\ IF IsLastAttempt(w)
     THEN Goto(w, "fail") /\ UNCHANGED <<job, cut>>
     ELSE /\ EndJob(w, AfterRetryable(w))
          /\ cut' = IF worker[w].job = None THEN cut \cup {worker[w].email} ELSE cut
  /\ UNCHANGED <<records, confirmed, composing, retrying>>

RecordSent(w) ==
  /\ At(w, "sent")
  /\ status' = [status EXCEPT ![worker[w].email] = "sent"]
  /\ EndJob(w, FreeJob)
  /\ UNCHANGED <<attemptCount, copies, composing, retrying, cut>>

RecordFailed(w) ==
  /\ At(w, "fail")
  /\ status' = [status EXCEPT ![worker[w].email] = "failed"]
  /\ EndJob(w, FreeJob)
  /\ UNCHANGED <<attemptCount, copies, composing, retrying, cut>>

\* The handler throws something else than a RetryableJobError: the queue
\* discards the job, and the record stays as it is.
HandlerThrows(w) ==
  /\ \/ "storage" \in Faults /\ At(w, "send")
     \/ "database" \in Faults /\ ~At(w, "idle")
  /\ EndJob(w, FreeJob)
  /\ cut' = cut \cup {worker[w].email}
  /\ UNCHANGED <<records, copies, composing, retrying>>

-----------------------------------------------------------------------------
(***************************************************************************)
(* Lost workers and restarts.                                              *)
(***************************************************************************)

\* What BullMQ does with a job whose worker is gone.
Redelivered(j) ==
  IF job[j].stalls < MaxStalls
  THEN [state |-> "waiting", email |-> job[j].email, tries |-> job[j].tries,
        stalls |-> job[j].stalls + 1]
  ELSE FreeJob

\* The worker's lock expires while it is still at work.
Stall(w) ==
  /\ Durable
  /\ "stall" \in Faults
  /\ worker[w].job # None
  /\ job' = [job EXCEPT ![worker[w].job] = Redelivered(worker[w].job)]
  /\ worker' = [worker EXCEPT ![w].job = None]
  /\ cut' = IF job'[worker[w].job].state = "free" THEN cut \cup {worker[w].email} ELSE cut
  /\ UNCHANGED <<records, copies, composing, retrying>>

Detached(w) == worker[w].pc # "idle" /\ worker[w].job = None

Requested ==
  (UNION {composing[c] : c \in Composer})
    \cup {retrying[r].email : r \in {x \in Retrier : retrying[x].pc = "enqueue"}}

\* The process is killed and started again; nothing looks for the records it
\* left in flight (findResumable has no caller).
Crash ==
  /\ "crash" \in Faults
  /\ job' = [j \in Job |->
               CASE ~Durable -> FreeJob
                 [] Durable /\ job[j].state = "active" -> Redelivered(j)
                 [] OTHER -> job[j]]
  /\ cut' = cut \cup Requested
                \cup {job[j].email : j \in {x \in Job : job'[x].state = "free" /\ job[x].state # "free"}}
                \cup {worker[w].email : w \in {x \in Worker : Detached(x)}}
  /\ worker' = [w \in Worker |-> Idle]
  /\ composing' = [c \in Composer |-> {}]
  /\ retrying' = [r \in Retrier |-> NoRetry]
  /\ UNCHANGED <<records, copies>>

-----------------------------------------------------------------------------
Request ==
  \/ \E c \in Composer : ComposeFails(c)
  \/ \E c \in Composer, e \in Email : ComposeEnqueue(c, e)
  \/ \E r \in Retrier : RetryReset(r) \/ RetryEnqueue(r) \/ RetryFails(r)

User ==
  \/ \E c \in Composer, es \in SUBSET Email : Compose(c, es)
  \/ \E r \in Retrier, e \in Email : RetryFind(r, e)

Handle(w) ==
  \/ Read(w) \/ MarkSending(w)
  \/ Refused(w) \/ Accepted(w) \/ Transient(w)
  \/ RecordSent(w) \/ RecordFailed(w)
  \/ HandlerThrows(w)

Next ==
  \/ User
  \/ Request
  \/ \E w \in Worker, j \in Job : Pick(w, j)
  \/ \E w \in Worker : Handle(w)
  \/ \E w \in Worker : Stall(w)
  \/ Crash

Spec == Init /\ [][Next]_vars

(***************************************************************************)
(* A request that has been received runs to its end, a worker goes on with *)
(* its job (every await is a database call or an SMTP exchange with a      *)
(* timeout), and an idle worker takes the next job.  Users and faults are  *)
(* under no obligation.                                                    *)
(***************************************************************************)
Fairness ==
  /\ WF_vars(Request)
  /\ \A w \in Worker : WF_vars(Handle(w))
  /\ WF_vars(\E w \in Worker, j \in Job : Pick(w, j))

FairSpec == Spec /\ Fairness

-----------------------------------------------------------------------------
(***************************************************************************)
(* Properties.                                                             *)
(***************************************************************************)

InFlight(e) == status[e] \in {"queued", "sending"}
Settled(e)  == status[e] \in {"sent", "failed"}

\* Who holds message e: its jobs, the requests about to enqueue it, and the
\* workers on it that have lost their job.
JobsOf(e)      == {j \in Job : job[j].state # "free" /\ job[j].email = e}
ComposersOf(e) == {c \in Composer : e \in composing[c]}
RetriersOf(e)  == {r \in Retrier : retrying[r].pc # "idle" /\ retrying[r].email = e}
WorkersOf(e)   == {w \in Worker : worker[w].pc # "idle" /\ worker[w].email = e}

Claimed(e) ==
  \/ JobsOf(e) # {}
  \/ ComposersOf(e) # {}
  \/ \E r \in RetriersOf(e) : retrying[r].pc = "enqueue"
  \/ WorkersOf(e) # {}

(***************************************************************************)
(* The record reflects the true outcome (in-process-queue.ts:36), as far   *)
(* as the worker was told: a message shown as sent was acknowledged by the *)
(* provider, once, and one shown as failed never was, so that retrying it  *)
(* repeats no acknowledged hand-over.                                      *)
(***************************************************************************)
OutcomeIsTrue ==
  \A e \in Email :
    /\ status[e] = "sent" => confirmed[e] = 1
    /\ status[e] = "failed" => confirmed[e] = 0
    /\ confirmed[e] <= 1

(***************************************************************************)
(* A message is in one pair of hands: two jobs, or a job and a request,    *)
(* never stand for the same message at once, and nobody holds one that has *)
(* been sent.                                                              *)
(***************************************************************************)
OneClaim ==
  \A e \in Email :
    /\ \A j, k \in JobsOf(e) : j = k
    /\ \A c, d \in ComposersOf(e) : c = d
    /\ \A v, w \in WorkersOf(e) : v = w
    /\ JobsOf(e) # {} => ComposersOf(e) = {} /\ RetriersOf(e) = {}
    /\ ComposersOf(e) # {} => RetriersOf(e) = {} /\ WorkersOf(e) = {}
    /\ status[e] = "sent" => ~Claimed(e)

(***************************************************************************)
(* A message shown as on its way is on its way: somebody will still work   *)
(* on it, unless one of the faults listed at `cut' has hit it.  In         *)
(* particular the worker and the queue agree on which attempt is the last. *)
(***************************************************************************)
OrphansAreCut ==
  \A e \in Email : InFlight(e) => Claimed(e) \/ e \in cut

(***************************************************************************)
(* Even with workers that lose their lock: what is shown as sent was       *)
(* acknowledged, and no more copies left than the record counts attempts.  *)
(***************************************************************************)
SentWasConfirmed ==
  \A e \in Email : status[e] = "sent" => confirmed[e] > 0

CopiesAreCounted ==
  \A e \in Email : confirmed[e] + doubtful[e] <= attemptCount[e]

(***************************************************************************)
(* After the provider's acknowledgement no further copy is handed over     *)
(* (email.worker.ts:49: a duplicate job must never send the same message   *)
(* twice; email.service.ts:386: sent messages are never re-sent).          *)
(***************************************************************************)
NeverResent ==
  [][\A e \in Email :
       confirmed[e] > 0 => UNCHANGED <<confirmed[e], doubtful[e]>>]_vars

(***************************************************************************)
(* Every composed or retried message is settled, or lost to a fault.       *)
(***************************************************************************)
EveryMessageSettles ==
  \A e \in Email : InFlight(e) ~> (Settled(e) \/ e \in cut)

(***************************************************************************)
(* Nothing is silently lost from the user's point of view                  *)
(* (in-process-queue.ts:37), faults included.                              *)
(***************************************************************************)
NothingSilentlyLost ==
  \A e \in Email : InFlight(e) => Claimed(e)

Lifecycle == INSTANCE MessageLifecycle

ImplementsLifecycle == Lifecycle!Spec

=============================================================================
