---------------------------- MODULE LeadPayload ----------------------------
(***************************************************************************)
(* The message an edge sends to the master about one lead (a submitted     *)
(* form).  A lead is copied to the master as a series of snapshots: one    *)
(* when it is captured, one when its mobile number is verified, and one    *)
(* when its payment completes.  The field values of the form are not       *)
(* modelled: every snapshot of a lead carries the same ones.               *)
(***************************************************************************)
EXTENDS Naturals

CONSTANTS
  Leads,      \* identifiers of the submissions (uuid)
  Forms,      \* keys of the forms
  FormOf,     \* the form each lead was submitted to
  OtpForms,   \* the forms with otpEnabled
  PaidForms   \* the forms with paymentEnabled

ASSUME FormsAssumption ==
  /\ FormOf \in [Leads -> Forms]
  /\ OtpForms \subseteq Forms
  /\ PaidForms \subseteq Forms

OtpStatus == {"NOT_REQUIRED", "UNVERIFIED", "VERIFIED"}
PayStatus == {"NONE", "PENDING", "COMPLETED"}
Versions  == {1, 2}

Payload == [lead : Leads, ver : Versions, otp : OtpStatus, pay : PayStatus]

HasOtp(l) == FormOf[l] \in OtpForms
IsPaid(l) == FormOf[l] \in PaidForms

(***************************************************************************)
(* idempotencyKey = `submission:<id>:v:<syncVersion>`: it names the lead   *)
(* and its version, and nothing of the payment.                            *)
(***************************************************************************)
Key(p) == <<p.lead, p.ver>>
Keys   == Leads \X Versions

(***************************************************************************)
(* The snapshots of a lead.  requestOtp and verifyOtp snapshot the lead    *)
(* before its payment row exists; submit on a paid form snapshots the      *)
(* payment it creates in the same transaction; handlePaymentSuccess        *)
(* snapshots the completed payment without changing syncVersion.           *)
(***************************************************************************)
\* wrong version of Captured, for the mutation runs: syncVersion from 0
CapturedFromZero(l) ==
  [lead |-> l, ver |-> 0, otp |-> "NOT_REQUIRED", pay |-> "NONE"]

Captured(l) ==
  [lead |-> l, ver |-> 1,
   otp |-> IF HasOtp(l) THEN "UNVERIFIED" ELSE "NOT_REQUIRED",
   pay |-> IF IsPaid(l) /\ ~HasOtp(l) THEN "PENDING" ELSE "NONE"]

Verified(l) == [Captured(l) EXCEPT !.ver = 2, !.otp = "VERIFIED"]

Paid(l) == [(IF HasOtp(l) THEN Verified(l) ELSE Captured(l))
              EXCEPT !.pay = "COMPLETED"]

Snapshots(l) ==
  {Captured(l)}
    \cup {p \in {Verified(l)} : HasOtp(l)}
    \cup {p \in {Paid(l)} : IsPaid(l)}
=============================================================================
