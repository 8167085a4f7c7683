\* One call, two handlers, a provider whose requests may fail, and restarts.
\* A finished call has nothing left to do, hence CHECK_DEADLOCK FALSE.
SPECIFICATION FairSpec
CONSTANTS
  h1 = h1
  h2 = h2
  None = None
  Call = {c1}
  Handler <- MCHandler
  Placed <- MCPlaced
  Faults = {"provider", "crash"}
INVARIANTS
  OutcomeIsReal
  AnsweredWasConnected
PROPERTIES
  ForwardOnly
  EveryCallEnds
CHECK_DEADLOCK FALSE
