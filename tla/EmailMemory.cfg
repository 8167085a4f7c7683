\* The in-memory driver: one worker, one retry at a time, every fault of a
\* single process.  A killed request or an exhausted bound may leave nothing
\* to do, hence CHECK_DEADLOCK FALSE.
SPECIFICATION Spec
CONSTANTS
  e1 = e1
  e2 = e2
  j1 = j1
  j2 = j2
  None = None
  Email <- MCEmail
  Job <- MCJobs
  Worker = {w1}
  Composer = {c1, c2}
  Retrier = {r1}
  MaxAttempts = 2
  MaxStalls = 0
  MaxSends = 4
  Durable = FALSE
  Faults = {"storage", "database", "queue", "lostAck", "crash"}
SYMMETRY SymMemory
INVARIANTS
  OutcomeIsTrue
  OneClaim
  OrphansAreCut
PROPERTIES
  NeverResent
  ImplementsLifecycle
CHECK_DEADLOCK FALSE
