\* The in-process driver against its own guarantees and the QueueDriver
\* contract.  A closed and emptied queue stops, hence CHECK_DEADLOCK FALSE.
SPECIFICATION FairSpec
CONSTANTS
  j1 = j1
  j2 = j2
  j3 = j3
  Job <- MCJob
  Interval = 2
  BackoffBase = 1
  RetryAfter = 3
  Delays <- MCDelays
  Budgets <- MCBudgets
  Slack = 1
INVARIANTS
  NoLostWakeup
  SingleFlight
PROPERTIES
  EveryJobSettles
  ImplementsJobQueue
CHECK_DEADLOCK FALSE
