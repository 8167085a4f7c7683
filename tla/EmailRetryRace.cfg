\* Two retry requests for one failed message, nothing failing but the SMTP
\* exchange that made it fail.
SPECIFICATION Spec
CONSTANTS
  e1 = e1
  e2 = e2
  j1 = j1
  j2 = j2
  None = None
  Email <- MCOneEmail
  Job <- MCJobs
  Worker = {w1}
  Composer = {c1}
  Retrier = {r1, r2}
  MaxAttempts = 2
  MaxStalls = 0
  MaxSends = 3
  Durable = FALSE
  Faults = {}
PROPERTIES
  NeverResent
CHECK_DEADLOCK FALSE
