\* AMQP alone (SYNC_PULL_ENABLED=0), fewer failures than MaxTries.
SPECIFICATION FairSpec
CONSTANTS
  Slugs = {s1}
  Packages = {p1}
  Requests = {r1}
  None = None
  MaxChanges = 3
  CanDelete = TRUE
  Consumer = Consumer
  Reaper = Reaper
  MaxAttempts = 2
  BatchSize = 2
  MaxTries = 3
  UseAmqp = TRUE
  UsePull = FALSE
  FaultBound = 2
  Faults = {"publish", "resend", "link", "download", "edge"}
INVARIANTS
  ServedIsPublished
PROPERTIES
  EdgeNeverRegresses
  
CHECK_DEADLOCK FALSE
