--------------------------- MODULE MCMasterIngest ---------------------------
(* Small instances of MasterIngestOverlap: a lead of a form with OTP, of a *)
(* form with payment, and of a form with both.                             *)
EXTENDS MasterIngestOverlap, TLC

CONSTANTS otpLead, paidLead, bothLead, otpForm, paidForm, bothForm

MCFormOf ==
  [l \in Leads |-> CASE l = otpLead -> otpForm [] l = paidLead -> paidForm
                      [] OTHER -> bothForm]

Symmetry == Permutations(Workers)
=============================================================================
