\* Two handlers overlapping on any deliveries.
SPECIFICATION OverlapSpec
CONSTANTS
  otpLead = otpLead
  paidLead = paidLead
  bothLead = bothLead
  otpForm = otpForm
  paidForm = paidForm
  bothForm = bothForm
  Leads = {otpLead, bothLead}
  Forms = {otpForm, bothForm}
  OtpForms = {otpForm, bothForm}
  PaidForms = {bothForm}
  FormOf <- MCFormOf
  Workers = {w1, w2}
  NoPayload = NoPayload
SYMMETRY Symmetry
INVARIANTS
  NotifiedOnce
  ProcessedIsStored
  ProcessedIsCurrent
  LeadNotifiedOnce
PROPERTIES
  VersionNeverRegresses
  ImplementsInbox
