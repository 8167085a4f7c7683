\* The Redis driver: jobs survive a restart and are handed out again, also
\* while the worker that lost its lock is still at work.  When every message
\* is settled and the bounds are used up nothing is left to do, hence
\* CHECK_DEADLOCK FALSE.
SPECIFICATION FairSpec
CONSTANTS
  e1 = e1
  e2 = e2
  j1 = j1
  j2 = j2
  None = None
  Email <- MCOneEmail
  Job <- MCJobs
  Worker = {w1, w2}
  Composer = {c1}
  Retrier = {r1}
  MaxAttempts = 2
  MaxStalls = 1
  MaxSends = 3
  Durable = TRUE
  Faults = {"lostAck", "crash", "stall"}
INVARIANTS
  SentWasConfirmed
  CopiesAreCounted
PROPERTIES
  EveryMessageSettles
CHECK_DEADLOCK FALSE
