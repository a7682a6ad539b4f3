---------------------------- MODULE PaymentVerify ----------------------------
(***************************************************************************)
(* The online payment of a lead on one node: opening it at the PayPing     *)
(* gateway (FormEngineService.submit / verifyOtp), the return callback     *)
(* (PaymentVerifyController.processVerify) and handlePaymentSuccess.  The  *)
(* same payment may have several callbacks running: the payer reloads the  *)
(* return page, or the gateway posts while the browser returns.  The       *)
(* gateway is external: it charges, settles on verify, refunds on reverse, *)
(* and its answer to either call may be lost.                              *)
(***************************************************************************)
EXTENDS Naturals

CONSTANTS
  Payments,     \* identifiers of the payments (clientRefId)
  Callbacks,    \* the callback requests that may run at the same time
  Mismatched,   \* the payments whose verified amount differs from the order
  Nobody        \* the payment of a callback that is not running

ASSUME PaymentAssumption == Mismatched \subseteq Payments /\ Nobody \notin Payments

VARIABLES
  status,     \* the Payment row's status; "NONE" without a row
  coded,      \* whether payCode is saved in the row
  opening,    \* the payments whose opening request is running
  gateway,    \* what the gateway did with each payment
  reported,   \* how often each success was reported (outbox row or dispatch),
              \* ReportCap standing for that often or more
  shown,      \* history: the payments a success page was shown for
  overlapped, \* history: the payments of which two callbacks overlapped
  pc,         \* the step each callback is about to take
  pay         \* its payment

vars == <<status, coded, opening, gateway, reported, shown, overlapped, pc, pay>>
rows == <<status, coded, opening>>
history == <<shown, overlapped>>

PaymentStatus == {"NONE", "PENDING", "COMPLETED", "FAILED", "REVERSED"}
GatewayState  == {"none", "open", "charged", "settled", "refunded"}
ReportCap     == 2
Steps == {"idle", "read", "readUnpaid", "verify", "complete", "report",
          "reverse", "reversed", "unreversed", "failed", "success", "error"}

TypeOK ==
  /\ status \in [Payments -> PaymentStatus]
  /\ coded \in [Payments -> BOOLEAN]
  /\ opening \subseteq Payments
  /\ gateway \in [Payments -> GatewayState]
  /\ reported \in [Payments -> 0..ReportCap]
  /\ shown \subseteq Payments
  /\ overlapped \subseteq Payments
  /\ pc \in [Callbacks -> Steps]
  /\ pay \in [Callbacks -> Payments \cup {Nobody}]
  /\ \A c \in Callbacks : pc[c] # "idle" => pay[c] \in Payments

Init ==
  /\ status = [p \in Payments |-> "NONE"]
  /\ coded = [p \in Payments |-> FALSE]
  /\ opening = {}
  /\ gateway = [p \in Payments |-> "none"]
  /\ reported = [p \in Payments |-> 0]
  /\ shown = {}
  /\ overlapped = {}
  /\ pc = [c \in Callbacks |-> "idle"]
  /\ pay = [c \in Callbacks |-> Nobody]

Goto(c, step) == pc' = [pc EXCEPT ![c] = step]
SetStatus(p, s) == status' = [status EXCEPT ![p] = s]
-----------------------------------------------------------------------------
(* Opening a payment: the row, the gateway's ticket, the saved payCode.    *)
CreateRow(p) ==
  /\ status[p] = "NONE"
  /\ SetStatus(p, "PENDING")
  /\ opening' = opening \cup {p}
  /\ UNCHANGED <<coded, gateway, reported, history, pc, pay>>

OpenTicket(p) ==
  /\ p \in opening /\ gateway[p] = "none"
  /\ gateway' = [gateway EXCEPT ![p] = "open"]
  /\ UNCHANGED <<rows, reported, history, pc, pay>>

(* createPayment throws: the request ends and the row stays PENDING. *)
OpeningFails(p) ==
  /\ p \in opening
  /\ opening' = opening \ {p}
  /\ UNCHANGED <<status, coded, gateway, reported, history, pc, pay>>

SaveCode(p) ==
  /\ p \in opening /\ gateway[p] = "open"
  /\ coded' = [coded EXCEPT ![p] = TRUE]
  /\ opening' = opening \ {p}
  /\ UNCHANGED <<status, gateway, reported, history, pc, pay>>

(* The payer pays at the gateway. *)
Charge(p) ==
  /\ coded[p] /\ gateway[p] = "open"
  /\ gateway' = [gateway EXCEPT ![p] = "charged"]
  /\ UNCHANGED <<rows, reported, history, pc, pay>>
-----------------------------------------------------------------------------
\* wrong Arrive, for mutation: an unknown order's callback is not refused
ArriveUnfound(c, p) ==
  /\ pc[c] = "idle"
  /\ Goto(c, "read")
  /\ UNCHANGED <<rows, gateway, reported, history, pay>>

(* A callback: after the charge (status 1), or of a payer who gave up.  One *)
(* that names no known order, or another code or amount, changes nothing.  *)
Arrive(c, p) ==
  /\ pc[c] = "idle" /\ coded[p]
  /\ pay' = [pay EXCEPT ![c] = p]
  /\ Goto(c, IF gateway[p] = "open" THEN "readUnpaid" ELSE "read")
  /\ overlapped' = IF \E d \in Callbacks : pay[d] = p THEN overlapped \cup {p}
                                                      ELSE overlapped
  /\ UNCHANGED <<rows, gateway, reported, shown>>

\* wrong Settled, for mutation: a completed payment is verified again
NeverSettled(s) == FALSE
Settled(s) == s = "COMPLETED"

(* The row is read: finished payments are answered from it. *)
ReadRow(c) ==
  LET s == status[pay[c]]
  IN  /\ pc[c] \in {"read", "readUnpaid"}
      /\ Goto(c, IF Settled(s) THEN "success"
                 ELSE IF s = "REVERSED" \/ pc[c] = "readUnpaid" THEN "error"
                 ELSE "verify")
      /\ UNCHANGED <<rows, gateway, reported, history, pay>>

\* wrong AmountMatches, for mutation: the amount is not compared
AmountIgnored(p) == TRUE
AmountMatches(p) == p \notin Mismatched

(* payping.verifyPayment answers: the gateway has settled the charge. *)
VerifyOk(c) ==
  LET p == pay[c]
  IN  /\ pc[c] = "verify" /\ gateway[p] \in {"charged", "settled"}
      /\ gateway' = [gateway EXCEPT ![p] = "settled"]
      /\ Goto(c, IF AmountMatches(p) THEN "complete" ELSE "reverse")
      /\ UNCHANGED <<rows, reported, history, pay>>

(* Its answer lacks the order, the reference or the amount: no row changes. *)
VerifyUnusable(c) ==
  /\ pc[c] = "verify" /\ gateway[pay[c]] \in {"charged", "settled"}
  /\ gateway' = [gateway EXCEPT ![pay[c]] = "settled"]
  /\ Goto(c, "error")
  /\ UNCHANGED <<rows, reported, history, pay>>

(* It fails: refused (already verified, say), or its answer was lost. *)
VerifyFails(c) ==
  LET p == pay[c]
  IN  /\ pc[c] = "verify"
      /\ \/ UNCHANGED gateway
         \/ /\ gateway[p] = "charged"
            /\ gateway' = [gateway EXCEPT ![p] = "settled"]
      /\ Goto(c, "failed")
      /\ UNCHANGED <<rows, reported, history, pay>>

(* payping.reversePayment, confirmed or not (its answer may be lost). *)
ReverseOk(c) ==
  /\ pc[c] = "reverse"
  /\ gateway' = [gateway EXCEPT ![pay[c]] = "refunded"]
  /\ Goto(c, "reversed")
  /\ UNCHANGED <<rows, reported, history, pay>>

ReverseFails(c) ==
  /\ pc[c] = "reverse"
  /\ \/ UNCHANGED gateway
     \/ gateway' = [gateway EXCEPT ![pay[c]] = "refunded"]
  /\ Goto(c, "unreversed")
  /\ UNCHANGED <<rows, reported, history, pay>>

\* wrong RefundStatus, for mutation: the refund is taken for granted
AlwaysReversed(step) == "REVERSED"
RefundStatus(step) == IF step = "reversed" THEN "REVERSED" ELSE "FAILED"

(* updatePayment: it overwrites the status whatever it is by now. *)
WriteFailure(c) ==
  /\ pc[c] \in {"reversed", "unreversed", "failed"}
  /\ SetStatus(pay[c], RefundStatus(pc[c]))
  /\ Goto(c, "error")
  /\ UNCHANGED <<coded, opening, gateway, reported, history, pay>>

(* handlePaymentSuccess: payment.update, then the report. *)
Complete(c) ==
  /\ pc[c] = "complete"
  /\ SetStatus(pay[c], "COMPLETED")
  /\ Goto(c, "report")
  /\ UNCHANGED <<coded, opening, gateway, reported, history, pay>>

Report(c) ==
  /\ pc[c] = "report"
  /\ reported' = [reported EXCEPT ![pay[c]] = IF @ < ReportCap THEN @ + 1 ELSE @]
  /\ Goto(c, "success")
  /\ UNCHANGED <<rows, gateway, history, pay>>

ShowPage(c) ==
  /\ pc[c] \in {"success", "error"}
  /\ shown' = IF pc[c] = "success" THEN shown \cup {pay[c]} ELSE shown
  /\ Goto(c, "idle")
  /\ pay' = [pay EXCEPT ![c] = Nobody]
  /\ UNCHANGED <<rows, gateway, reported, overlapped>>

(* The node restarts: its running requests are gone. *)
Crash ==
  /\ opening' = {}
  /\ pc' = [c \in Callbacks |-> "idle"]
  /\ pay' = [c \in Callbacks |-> Nobody]
  /\ UNCHANGED <<status, coded, gateway, reported, history>>

Next ==
  \/ \E p \in Payments :
       CreateRow(p) \/ OpenTicket(p) \/ OpeningFails(p) \/ SaveCode(p)
         \/ Charge(p)
  \/ \E c \in Callbacks :
       \/ \E p \in Payments : Arrive(c, p)
       \/ ReadRow(c) \/ VerifyOk(c) \/ VerifyUnusable(c) \/ VerifyFails(c)
       \/ ReverseOk(c) \/ ReverseFails(c) \/ WriteFailure(c)
       \/ Complete(c) \/ Report(c) \/ ShowPage(c)
  \/ Crash

Spec == Init /\ [][Next]_vars
-----------------------------------------------------------------------------
(***************************************************************************)
(* A payment is COMPLETED, or shown as successful, only when the gateway   *)
(* settled the ordered amount and did not refund it.                       *)
(***************************************************************************)
CompletedIsSettled ==
  \A p \in Payments :
    status[p] = "COMPLETED" \/ p \in shown =>
      gateway[p] = "settled" /\ p \notin Mismatched

(***************************************************************************)
(* A payment is marked REVERSED only if the gateway confirmed the refund   *)
(* (the comment above reversePayment in processVerify).                    *)
(***************************************************************************)
ReversedIsRefunded ==
  \A p \in Payments : status[p] = "REVERSED" => gateway[p] = "refunded"

(***************************************************************************)
(* A completed payment stays completed, unless callbacks of it overlapped. *)
(***************************************************************************)
CompletedIsFinal ==
  [][\A p \in Payments \ overlapped :
       status[p] = "COMPLETED" => status'[p] = "COMPLETED"]_vars

(***************************************************************************)
(* A payment's success is reported once: one event to the master, one call *)
(* of the webhook, unless callbacks of it overlapped.                      *)
(***************************************************************************)
ReportedOnce == \A p \in Payments \ overlapped : reported[p] <= 1
-----------------------------------------------------------------------------
(* What a running callback knows of the gateway. *)
SettledSteps == {"complete", "report", "success"}
RefundSteps  == {"reverse", "reversed", "unreversed"}
FailureSteps == {"reversed", "unreversed", "failed"}

(***************************************************************************)
(* Why a COMPLETED payment is settled: a callback that goes on to complete *)
(* it has seen the ordered amount settled, and only payments of another    *)
(* amount are ever refunded.                                               *)
(***************************************************************************)
StepsKnowGateway ==
  /\ \A c \in Callbacks :
       /\ pc[c] \in SettledSteps =>
            gateway[pay[c]] = "settled" /\ pay[c] \notin Mismatched
       /\ pc[c] \in RefundSteps => pay[c] \in Mismatched
       /\ pc[c] = "reversed" => gateway[pay[c]] = "refunded"
  /\ \A p \in Payments : gateway[p] = "refunded" => p \in Mismatched

(* The history variable overlapped is what its name says. *)
OverlapIsNoted ==
  /\ \A c \in Callbacks : pc[c] = "idle" => pay[c] = Nobody
  /\ \A c, d \in Callbacks :
       c # d /\ pay[c] = pay[d] /\ pay[c] \in Payments =>
         pay[c] \in overlapped

(***************************************************************************)
(* Why a payment without overlapping callbacks stays COMPLETED and is      *)
(* reported once: no callback that may write or report it runs once it is  *)
(* COMPLETED, except the one that completed it and has yet to report it.   *)
(***************************************************************************)
OneSettles ==
  /\ \A c \in Callbacks : pay[c] \in Payments \ overlapped =>
       /\ pc[c] \in {"verify", "complete", "reverse"} \cup FailureSteps =>
            status[pay[c]] # "COMPLETED"
       /\ pc[c] = "report" =>
            status[pay[c]] = "COMPLETED" /\ reported[pay[c]] = 0
  /\ \A p \in Payments \ overlapped :
       reported[p] > 0 => status[p] = "COMPLETED"

(***************************************************************************)
(* The inductive invariant of the callbacks.                               *)
(***************************************************************************)
PaymentInv ==
  /\ TypeOK
  /\ CompletedIsSettled
  /\ ReversedIsRefunded
  /\ StepsKnowGateway
  /\ OverlapIsNoted
  /\ OneSettles
  /\ ReportedOnce
=============================================================================
