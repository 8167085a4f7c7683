\* One tab, two requests at once, lost answers, and one failing database call or
\* restart.  Bounds stop the system, hence CHECK_DEADLOCK FALSE.
SPECIFICATION Spec
CONSTANTS
  ann = ann
  bob = bob
  h1 = h1
  h2 = h2
  t1 = t1
  None = None
  Identity <- MCIdentity
  Handler <- MCHandler
  Tab <- MCTab
  MaxUsers = 2
  MaxTokens = 2
  MaxFaults = 1
  Faults = {"crash", "network", "reject"}
SYMMETRY Symmetry
INVARIANTS
  SessionIsTrue
  RegistrationIsWhole
CHECK_DEADLOCK FALSE
