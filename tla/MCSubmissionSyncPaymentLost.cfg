\* No failure at all: a paid lead over AMQP or HTTP.
SPECIFICATION FairSpec
CONSTANTS
  plainLead = plainLead
  otpLead = otpLead
  paidLead = paidLead
  bothLead = bothLead
  plainForm = plainForm
  otpForm = otpForm
  paidForm = paidForm
  bothForm = bothForm
  Leads = {paidLead}
  Forms = {paidForm}
  OtpForms = {}
  PaidForms = {paidForm}
  FormOf <- MCFormOf
  Workers = {w1}
  NoPayload = NoPayload
  SyncModes = {"auto"}
  MaxAttempts = 3
  BatchSize = 2
  Urls = 1
  FaultBound = 0
  Faults = {}
  Deletable = {}
PROPERTIES
  PaymentReachesMaster
CHECK_DEADLOCK FALSE
