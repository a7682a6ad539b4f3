\* A download of two bytes, two URLs, three tries with three resumes, the package
\* replaced twice; a connection with three faults and a dial of flush(), with and
\* without node queues.  Faults are bounded, so a process may come to rest.
SPECIFICATION PartSpec
CONSTANTS
  wanted = wanted
  other = other
  Packages = {wanted, other}
  Wanted = wanted
  Size <- MCSize
  Urls = 2
  MaxAttempts = 3
  MaxResumes = 3
  MaxReplaced = 2
  Conns = {c1, c2, c3, c4, c5, c6}
  None = None
  MaxFaults = 3
  MaxFlushes = 1
INVARIANTS
  MismatchIsReplaced
  LinkInv
PROPERTIES
  TransferEnds
  LinkReconnects
CHECK_DEADLOCK FALSE
