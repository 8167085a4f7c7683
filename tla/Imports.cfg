\* Two sheets, two address books, two handlers, two uploads and commits, one
\* edit, restarts and failing database calls.  Then there is nothing left to do,
\* hence CHECK_DEADLOCK FALSE.
SPECIFICATION Spec
CONSTANTS
  e1 = e1
  e2 = e2
  p1 = p1
  p2 = p2
  h1 = h1
  h2 = h2
  None = None
  Email <- MCEmail
  Phone <- MCPhone
  File <- MCFile
  AddressBook <- MCAddressBook
  Handler <- MCHandler
  Quota = 1
  MaxContacts = 5
  MaxUploads = 2
  MaxBatches = 2
  MaxEdits = 1
  Faults = {"crash", "reject"}
SYMMETRY MCSymmetry
INVARIANTS
  TypeOK
  RowsAddUp
  ProcessingIsOwned
PROPERTIES
  OnlyUpdatesOverwrite
  NobodyIsLost
  CommitNotReplayed
CHECK_DEADLOCK FALSE
