-------------------------- MODULE MCInProcessQueue --------------------------
(***************************************************************************)
(* InProcessQueue for TLC: three jobs, at most two attempts each, a throttle *)
(* of two time units against back-offs of one and a requested pause of     *)
(* three, so that either may end first.                                    *)
(***************************************************************************)
EXTENDS InProcessQueue

CONSTANTS j1, j2, j3

MCJob == {j1, j2, j3}
MCDelays == {0, 2}
MCBudgets == {1, 2}

=============================================================================
