-------------------------- MODULE MCSubmissionSync --------------------------
(* Small instances of SubmissionSync: leads of a form without OTP or       *)
(* payment, of a form with OTP, of a form with payment, and with both.     *)
EXTENDS SubmissionSync, TLC

CONSTANTS plainLead, otpLead, paidLead, bothLead,
          plainForm, otpForm, paidForm, bothForm

MCFormOf ==
  [l \in Leads |-> CASE l = plainLead -> plainForm [] l = otpLead -> otpForm
                     [] l = paidLead -> paidForm [] OTHER -> bothForm]

Symmetry == Permutations(Workers)
=============================================================================
