\* Four addresses, a limit of two, two handlers, six requests, restarts
\* and failing database calls.
\* Then there is nothing left to do, hence CHECK_DEADLOCK FALSE.
SPECIFICATION Spec
CONSTANTS
  a1 = a1
  a2 = a2
  a3 = a3
  a4 = a4
  p1 = p1
  p2 = p2
  h1 = h1
  h2 = h2
  None = None
  Offer <- MCOffer
  Handler <- MCHandler
  Limit = 2
  MaxAccounts = 4
  MaxRequests = 6
  Faults = {"crash", "reject"}
SYMMETRY MCSymmetry
INVARIANTS
  StoredWasVerified
  FailureIsOfThisPassword
  LimitOvershoot
  DefaultKept
CHECK_DEADLOCK FALSE
