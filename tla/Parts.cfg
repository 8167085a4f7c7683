\* Each part with two of its requests under way at once; bounds stop the system,
\* hence CHECK_DEADLOCK FALSE.
SPECIFICATION Spec
CONSTANTS
  p1 = p1
  p2 = p2
  r1 = r1
  r2 = r2
  l1 = l1
  l2 = l2
  c1 = c1
  c2 = c2
  Ask <- Slots
  MaxCalls = 2
  MaxQueue = 1
  Person <- Pair
  Draft = {d0, d1}
  Empty = d0
  Glimpse = {g1, g2}
  Adding <- Slots
  NoPreview = NoPreview
  Contact <- MCContact
  Search <- MCSearch
  NoSearch = ""
  Hits <- MCHits
  Filtered = {2}
  PageSize = 1
  Cell <- MCCell
  Blank = ""
  Looks <- MCLooks
  Exact <- MCExact
  Hints <- MCHints
  Vague = {"Details"}
  Lengthy = {}
  Dialled = {"98123 45670"}
  MaxRows = 5
  MaxColumns = 3
  File <- MCFile
  Offered = {"name", "phone"}
  NoFile = NoFile
  Visited = {c1, c2}
  Imported = {c1}
  Limit = 2
  Loading = {load1}
  Day = 2
  MaxTime = 3
  Bytes = {b1, b2}
  Refused = {b2}
  Blob <- Pair
  Handler <- Slots
  Signature <- Slots
  MaxStored = 2
  MaxAttached = 1
  Written <- MCWritten
  Agent <- MCAgent
  DialCode <- MCDialCode
  Holder <- Pair
  Account <- Pair
  Listing <- Lists
  MaxActing = 2
  Piece <- MCPiece
  Known = {"contact.name", "contact.email", "sender.name"}
  Unknown = {"contact.age"}
  Safe = {"<b>"}
  Unsafe = {"<script>"}
  Quoted <- MCQuoted
  Closing <- MCClosing
  Text <- MCText
  Card <- MCCard
  TemplateName = {"t", "u"}
  MaxTemplates = 2
SYMMETRY Symmetry
INVARIANTS
  CallIsFollowed
  ComposerIsTrue
  ListIsCurrent
  WizardIsTrue
  HistoryIsTrue
  LibraryIsWhole
  OneContactPerLine
  AccountsAreCurrent
  TemplatesAreFaithful
CHECK_DEADLOCK FALSE
