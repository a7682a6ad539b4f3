\* An edge fed by AMQP, by the pull, or by both: a form and a setting, one
\* request at a time, a deletion, a restart of each side, and failures of a
\* publication, of the mark after it and of the connection.
SPECIFICATION Spec
CONSTANTS
  Forms = {f1}
  Products = {}
  Settings = {s1}
  Requests = {r1}
  Paid = {}
  None = None
  Deployments <- AllDeployments
  Scope = {"delete", "masterRestart", "edgeRestart", "publish", "resend", "link"}
  Limit <- Limits
  MaxAttempts = 2
  BatchSize = 2
INVARIANTS
  ProcessedIsApplied
PROPERTIES
  LiveFormsFollow
  SettingsFollow
  FormNeverRegresses
CHECK_DEADLOCK FALSE
