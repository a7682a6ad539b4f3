\* Pull alone (SYNC_MODE=http), two landings, one request at a time.
SPECIFICATION FairSpec
CONSTANTS
  Slugs = {s1, s2}
  Packages = {p1, p2}
  Requests = {r1}
  None = None
  MaxChanges = 2
  CanDelete = TRUE
  Consumer = Consumer
  Reaper = Reaper
  MaxAttempts = 2
  BatchSize = 2
  MaxTries = 1
  UseAmqp = FALSE
  UsePull = TRUE
  FaultBound = 2
  Faults = {"download", "corrupt"}
INVARIANTS
  ServedIsRow
PROPERTIES
  EdgeCatchesUp
CHECK_DEADLOCK FALSE
