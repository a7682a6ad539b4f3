\* AMQP and pull together, overlapping requests, one failure of any kind.
SPECIFICATION Spec
CONSTANTS
  Slugs = {s1}
  Packages = {p1, p2}
  Requests = {r1, r2}
  None = None
  MaxChanges = 2
  CanDelete = TRUE
  Consumer = Consumer
  Reaper = Reaper
  MaxAttempts = 2
  BatchSize = 2
  MaxTries = 1
  UseAmqp = TRUE
  UsePull = TRUE
  FaultBound = 1
  Faults = {"publish", "resend", "link", "master", "download", "edge", "corrupt"}
SYMMETRY Symmetry
INVARIANTS
  OneApplier
  NothingDropped
  RowIsAnnounced
CHECK_DEADLOCK FALSE
