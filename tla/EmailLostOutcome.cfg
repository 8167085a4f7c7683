\* An attachment that cannot be read from the object store, and no other fault.
SPECIFICATION Spec
CONSTANTS
  e1 = e1
  e2 = e2
  j1 = j1
  j2 = j2
  None = None
  Email <- MCOneEmail
  Job <- MCJobs
  Worker = {w1}
  Composer = {c1}
  Retrier = {r1}
  MaxAttempts = 2
  MaxStalls = 0
  MaxSends = 3
  Durable = FALSE
  Faults = {"storage"}
INVARIANTS
  NothingSilentlyLost
CHECK_DEADLOCK FALSE
