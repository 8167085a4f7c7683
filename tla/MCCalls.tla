------------------------------- MODULE MCCalls -------------------------------
(***************************************************************************)
(* Calls for TLC.  Calls do not touch each other's state, so one call is   *)
(* enough; the handlers on it are what matters.                            *)
(***************************************************************************)
EXTENDS Calls, TLC

CONSTANTS h1, h2

MCHandler == {h1, h2}

\* A call is normally queued; the provider may also have connected or lost it
\* by the time it answers, or answer with a word nobody knows.
MCPlaced == {"queued", "in_progress", "failed", "other"}

=============================================================================
