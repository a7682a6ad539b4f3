\* Both SYNC_MODEs, AMQP with the HTTP fallback and HTTP alone: one lead of a
\* form with OTP and payment (three rows, batches of two), any two failures.
SPECIFICATION Spec
CONSTANTS
  plainLead = plainLead
  otpLead = otpLead
  paidLead = paidLead
  bothLead = bothLead
  plainForm = plainForm
  otpForm = otpForm
  paidForm = paidForm
  bothForm = bothForm
  Leads = {bothLead}
  Forms = {bothForm}
  OtpForms = {bothForm}
  PaidForms = {bothForm}
  FormOf <- MCFormOf
  Workers = {w1, w2}
  NoPayload = NoPayload
  SyncModes = {"auto", "http"}
  MaxAttempts = 2
  BatchSize = 2
  Urls = 2
  FaultBound = 2
  Faults = {"link", "consumer", "timeout", "refused", "master", "edge", "full", "database"}
  Deletable = {bothForm}
SYMMETRY Symmetry
INVARIANTS
  SentIsSafe
  NotifiedOnlyPaid
  MasterNeverAhead
CHECK_DEADLOCK FALSE
