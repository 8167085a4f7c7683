-------------------------- MODULE MessageLifecycle --------------------------
(***************************************************************************)
(* What AutoMail promises the sender of a message, whatever requests,      *)
(* workers, queues and restarts do behind it: a message is handed over     *)
(* successfully at most once, `sent' is final and says that it was, and    *)
(* `failed' says that it was not, so that a failed message may be retried. *)
(***************************************************************************)
EXTENDS Naturals

CONSTANTS Email

VARIABLES status,     \* what the sender is shown
          confirmed   \* successful hand-overs to the provider

vars == <<status, confirmed>>

Init ==
  /\ status = [e \in Email |-> "none"]
  /\ confirmed = [e \in Email |-> 0]

Move(e, from, to) ==
  /\ status[e] \in from
  /\ status' = [status EXCEPT ![e] = to]

Create(es) ==
  /\ \A e \in es : status[e] = "none"
  /\ status' = [e \in Email |-> IF e \in es THEN "queued" ELSE status[e]]
  /\ UNCHANGED confirmed

Begin(e) ==
  /\ confirmed[e] = 0
  /\ Move(e, {"queued", "sending"}, "sending")
  /\ UNCHANGED confirmed

HandOver(e) ==
  /\ status[e] = "sending"
  /\ confirmed[e] = 0
  /\ confirmed' = [confirmed EXCEPT ![e] = 1]
  /\ UNCHANGED status

Deliver(e) ==
  /\ confirmed[e] = 1
  /\ Move(e, {"sending"}, "sent")
  /\ UNCHANGED confirmed

Fail(e) ==
  /\ confirmed[e] = 0
  /\ Move(e, {"sending"}, "failed")
  /\ UNCHANGED confirmed

Requeue(e) ==
  /\ confirmed[e] = 0
  /\ Move(e, {"failed"}, "queued")
  /\ UNCHANGED confirmed

Next ==
  \/ \E es \in SUBSET Email : Create(es)
  \/ \E e \in Email :
       Begin(e) \/ HandOver(e) \/ Deliver(e) \/ Fail(e) \/ Requeue(e)

Spec == Init /\ [][Next]_vars

=============================================================================
