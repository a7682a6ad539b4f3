\* Verification: one node at one of two addresses, two overlapping calls, two moves,
\* an edit, a database error.  Packages: two overlapping requests, four in all.  An
\* operation: one node, two tabs, two versions, and everything that may happen.
\* All three are bounded, so all may stop.
SPECIFICATION PartSpec
CONSTANTS
  Nodes = {n1}
  Hosts = {h1, h2}
  LocalHosts = {h1}
  Gateway = gateway
  NoNode = NoNode
  Calls = {c1, c2}
  HttpMode = FALSE
  MaxMoves = 2
  MaxEdits = 1
  MaxDbErrors = 1
  Requests = {r1, r2}
  None = None
  MaxRequests = 4
  MaxUploads = 2
  Operations = {"confirm", "save", "delete", "fill", "zip"}
  ListedFirst = FALSE
  OpNodes = {m1}
  Mute = {}
  Tabs = {t1, t2}
  Scope = {"outage", "deletion", "removal"}
  MaxVersion = 2
  Bound = 2
SYMMETRY Symmetry
INVARIANTS
  OnlineIsAnswered
  AnsweredIsNotOffline
  FillVersionedBytesAreKept
  OperationCompletedOrDeleted
CHECK_DEADLOCK FALSE
