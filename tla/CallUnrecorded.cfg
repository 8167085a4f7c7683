\* A call between the provider's answer and its record, nothing failing.
SPECIFICATION Spec
CONSTANTS
  h1 = h1
  h2 = h2
  None = None
  Call = {c1}
  Handler <- MCHandler
  Placed <- MCPlaced
  Faults = {}
INVARIANTS
  ReportsFindTheirCall
CHECK_DEADLOCK FALSE
