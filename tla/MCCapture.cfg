\* An edge's form: two leads, two overlapping calls of one page, any one failure,
\* an edit of the form; a webhook: three dispatches or retries of a lead, two at
\* a time, a restart, a database error.  Both are bounded, so both may stop.
SPECIFICATION PartSpec
CONSTANTS
  IsEdge = TRUE
  Leads = {l1, l2}
  NoLead = NoLead
  Calls = {c1, c2}
  Nobody = Nobody
  Faults = {"gateway", "lost", "sms", "db", "restart"}
  MaxFaults = 1
  MaxEdits = 1
  MaxWrong = 1
  HookLeads = {h1}
  Runs = {r1, r2}
  MaxRuns = 3
  MaxDbErrors = 1
  MaxRestarts = 1
SYMMETRY Symmetry
INVARIANTS
  VerifiedByCode
  VersionsQueuedOnce
  OfferIsBacked
  HookUndeliveredIsListed
  HookRepeatsAreAccounted
CHECK_DEADLOCK FALSE
