\* Both SYNC_MODEs, two leads, any one failure of any kind.
SPECIFICATION FairSpec
CONSTANTS
  plainLead = plainLead
  otpLead = otpLead
  paidLead = paidLead
  bothLead = bothLead
  plainForm = plainForm
  otpForm = otpForm
  paidForm = paidForm
  bothForm = bothForm
  Leads = {otpLead, plainLead}
  Forms = {otpForm, plainForm}
  OtpForms = {otpForm}
  PaidForms = {}
  FormOf <- MCFormOf
  Workers = {w1, w2}
  NoPayload = NoPayload
  SyncModes = {"auto", "http"}
  MaxAttempts = 3
  BatchSize = 2
  Urls = 1
  FaultBound = 1
  Faults = {"link", "consumer", "timeout", "refused", "master", "edge", "full", "database"}
  Deletable = {}
PROPERTIES
  LeadReachesMaster
  LeadIsNotified
CHECK_DEADLOCK FALSE
