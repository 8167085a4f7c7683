--------------------------- MODULE MCEmailDelivery ---------------------------
(***************************************************************************)
(* EmailDelivery for TLC.  Two messages, so that jobs, requests and        *)
(* restarts of one meet those of the other; the .cfg files choose the      *)
(* driver, the number of workers and retry requests, and the faults.       *)
(***************************************************************************)
EXTENDS EmailDelivery, TLC

CONSTANTS e1, e2, j1, j2

MCEmail == {e1, e2}
MCOneEmail == {e1}
MCJobs == {j1, j2}

SymMemory == Permutations(MCEmail) \cup Permutations(MCJobs)

=============================================================================
