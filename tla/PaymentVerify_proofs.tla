------------------------ MODULE PaymentVerify_proofs ------------------------
(***************************************************************************)
(* Proofs about PaymentVerify for any payments and number of callbacks.    *)
(***************************************************************************)
EXTENDS PaymentVerify, TLAPS

LEMMA InitTypeOK == Init => TypeOK
  BY DEF Init, TypeOK, PaymentStatus, GatewayState, ReportCap, Steps

LEMMA NextTypeOK == TypeOK /\ [Next]_vars => TypeOK'
<1> SUFFICES ASSUME TypeOK, [Next]_vars
             PROVE  TypeOK'
  OBVIOUS
<1> USE DEF TypeOK, rows, history, Goto, SetStatus, PaymentStatus,
            GatewayState, ReportCap, Steps
<1>1. ASSUME NEW p \in Payments, CreateRow(p)
      PROVE  TypeOK'
  BY <1>1 DEF CreateRow
<1>2. ASSUME NEW p \in Payments, OpenTicket(p)
      PROVE  TypeOK'
  BY <1>2 DEF OpenTicket
<1>3. ASSUME NEW p \in Payments, OpeningFails(p)
      PROVE  TypeOK'
  BY <1>3 DEF OpeningFails
<1>4. ASSUME NEW p \in Payments, SaveCode(p)
      PROVE  TypeOK'
  BY <1>4 DEF SaveCode
<1>5. ASSUME NEW p \in Payments, Charge(p)
      PROVE  TypeOK'
  BY <1>5 DEF Charge
<1>6. ASSUME NEW c \in Callbacks, NEW p \in Payments, Arrive(c, p)
      PROVE  TypeOK'
  BY <1>6 DEF Arrive
<1>7. ASSUME NEW c \in Callbacks, ReadRow(c)
      PROVE  TypeOK'
  BY <1>7 DEF ReadRow, Settled
<1>8. ASSUME NEW c \in Callbacks, VerifyOk(c)
      PROVE  TypeOK'
  BY <1>8 DEF VerifyOk, AmountMatches
<1>9. ASSUME NEW c \in Callbacks, VerifyUnusable(c)
      PROVE  TypeOK'
  BY <1>9 DEF VerifyUnusable
<1>10. ASSUME NEW c \in Callbacks, VerifyFails(c)
      PROVE  TypeOK'
  BY <1>10 DEF VerifyFails
<1>11. ASSUME NEW c \in Callbacks, ReverseOk(c)
      PROVE  TypeOK'
  BY <1>11 DEF ReverseOk
<1>12. ASSUME NEW c \in Callbacks, ReverseFails(c)
      PROVE  TypeOK'
  BY <1>12 DEF ReverseFails
<1>13. ASSUME NEW c \in Callbacks, WriteFailure(c)
      PROVE  TypeOK'
  BY <1>13 DEF WriteFailure, RefundStatus
<1>14. ASSUME NEW c \in Callbacks, Complete(c)
      PROVE  TypeOK'
  BY <1>14 DEF Complete
<1>15. ASSUME NEW c \in Callbacks, Report(c)
      PROVE  TypeOK'
  BY <1>15 DEF Report
<1>16. ASSUME NEW c \in Callbacks, ShowPage(c)
      PROVE  TypeOK'
  BY <1>16 DEF ShowPage
<1>17. CASE Crash
  BY <1>17 DEF Crash
<1>18. CASE UNCHANGED vars
  BY <1>18 DEF vars
<1>. QED
  BY <1>1, <1>2, <1>3, <1>4, <1>5, <1>6, <1>7, <1>8, <1>9, <1>10,
     <1>11, <1>12, <1>13, <1>14, <1>15, <1>16, <1>17, <1>18
     DEF Next

(***************************************************************************)
(* The variables of the payments and their callbacks keep their types.     *)
(***************************************************************************)
THEOREM PaymentTypeCorrect == Spec => []TypeOK
  BY InitTypeOK, NextTypeOK, PTL DEF Spec
-----------------------------------------------------------------------------
(***************************************************************************)
(* The part of the invariant about the gateway: it holds whatever the      *)
(* callbacks overlap.                                                      *)
(***************************************************************************)
GatewayInv == CompletedIsSettled /\ ReversedIsRefunded /\ StepsKnowGateway

LEMMA NextGateway == TypeOK /\ GatewayInv /\ [Next]_vars => GatewayInv'
<1> SUFFICES ASSUME TypeOK, GatewayInv, [Next]_vars
             PROVE  GatewayInv'
  OBVIOUS
<1> USE DEF TypeOK, GatewayInv, CompletedIsSettled, ReversedIsRefunded,
            StepsKnowGateway, SettledSteps, RefundSteps, rows, history, Goto,
            SetStatus, PaymentStatus, GatewayState, Steps
<1>1. ASSUME NEW p \in Payments, CreateRow(p)
      PROVE  GatewayInv'
  BY <1>1 DEF CreateRow
<1>2. ASSUME NEW p \in Payments, OpenTicket(p)
      PROVE  GatewayInv'
  BY <1>2 DEF OpenTicket
<1>3. ASSUME NEW p \in Payments, OpeningFails(p)
      PROVE  GatewayInv'
  BY <1>3 DEF OpeningFails
<1>4. ASSUME NEW p \in Payments, SaveCode(p)
      PROVE  GatewayInv'
  BY <1>4 DEF SaveCode
<1>5. ASSUME NEW p \in Payments, Charge(p)
      PROVE  GatewayInv'
  BY <1>5 DEF Charge
<1>6. ASSUME NEW c \in Callbacks, NEW p \in Payments, Arrive(c, p)
      PROVE  GatewayInv'
  BY <1>6 DEF Arrive
<1>7. ASSUME NEW c \in Callbacks, ReadRow(c)
      PROVE  GatewayInv'
  BY <1>7 DEF ReadRow, Settled
<1>8. ASSUME NEW c \in Callbacks, VerifyOk(c)
      PROVE  GatewayInv'
  BY <1>8 DEF VerifyOk, AmountMatches
<1>9. ASSUME NEW c \in Callbacks, VerifyUnusable(c)
      PROVE  GatewayInv'
  BY <1>9 DEF VerifyUnusable
<1>10. ASSUME NEW c \in Callbacks, VerifyFails(c)
      PROVE  GatewayInv'
  BY <1>10 DEF VerifyFails
<1>11. ASSUME NEW c \in Callbacks, ReverseOk(c)
      PROVE  GatewayInv'
  BY <1>11 DEF ReverseOk
<1>12. ASSUME NEW c \in Callbacks, ReverseFails(c)
      PROVE  GatewayInv'
  BY <1>12 DEF ReverseFails
<1>13. ASSUME NEW c \in Callbacks, WriteFailure(c)
      PROVE  GatewayInv'
  BY <1>13 DEF WriteFailure, RefundStatus
<1>14. ASSUME NEW c \in Callbacks, Complete(c)
      PROVE  GatewayInv'
  BY <1>14 DEF Complete
<1>15. ASSUME NEW c \in Callbacks, Report(c)
      PROVE  GatewayInv'
  BY <1>15 DEF Report
<1>16. ASSUME NEW c \in Callbacks, ShowPage(c)
      PROVE  GatewayInv'
  BY <1>16 DEF ShowPage
<1>17. CASE Crash
  BY <1>17 DEF Crash
<1>18. CASE UNCHANGED vars
  BY <1>18 DEF vars
<1>. QED
  BY <1>1, <1>2, <1>3, <1>4, <1>5, <1>6, <1>7, <1>8, <1>9, <1>10,
     <1>11, <1>12, <1>13, <1>14, <1>15, <1>16, <1>17, <1>18
     DEF Next
-----------------------------------------------------------------------------
(***************************************************************************)
(* The part about callbacks that do not overlap.                           *)
(***************************************************************************)
SingleInv == OverlapIsNoted /\ OneSettles /\ ReportedOnce

LEMMA NextSingle == TypeOK /\ SingleInv /\ [Next]_vars => SingleInv'
<1> SUFFICES ASSUME TypeOK, SingleInv, [Next]_vars
             PROVE  SingleInv'
  OBVIOUS
<1> USE PaymentAssumption
    DEF TypeOK, SingleInv, OverlapIsNoted, OneSettles, ReportedOnce,
        FailureSteps, rows, history, Goto, SetStatus, PaymentStatus, Steps,
        ReportCap
<1>1. ASSUME NEW p \in Payments, CreateRow(p)
      PROVE  SingleInv'
  BY <1>1 DEF CreateRow
<1>2. ASSUME NEW p \in Payments, OpenTicket(p)
      PROVE  SingleInv'
  BY <1>2 DEF OpenTicket
<1>3. ASSUME NEW p \in Payments, OpeningFails(p)
      PROVE  SingleInv'
  BY <1>3 DEF OpeningFails
<1>4. ASSUME NEW p \in Payments, SaveCode(p)
      PROVE  SingleInv'
  BY <1>4 DEF SaveCode
<1>5. ASSUME NEW p \in Payments, Charge(p)
      PROVE  SingleInv'
  BY <1>5 DEF Charge
<1>6. ASSUME NEW c \in Callbacks, NEW p \in Payments, Arrive(c, p)
      PROVE  SingleInv'
  BY <1>6 DEF Arrive
<1>7. ASSUME NEW c \in Callbacks, ReadRow(c)
      PROVE  SingleInv'
  BY <1>7 DEF ReadRow, Settled
<1>8. ASSUME NEW c \in Callbacks, VerifyOk(c)
      PROVE  SingleInv'
  BY <1>8 DEF VerifyOk, AmountMatches
<1>9. ASSUME NEW c \in Callbacks, VerifyUnusable(c)
      PROVE  SingleInv'
  BY <1>9 DEF VerifyUnusable
<1>10. ASSUME NEW c \in Callbacks, VerifyFails(c)
      PROVE  SingleInv'
  BY <1>10 DEF VerifyFails
<1>11. ASSUME NEW c \in Callbacks, ReverseOk(c)
      PROVE  SingleInv'
  BY <1>11 DEF ReverseOk
<1>12. ASSUME NEW c \in Callbacks, ReverseFails(c)
      PROVE  SingleInv'
  BY <1>12 DEF ReverseFails
<1>13. ASSUME NEW c \in Callbacks, WriteFailure(c)
      PROVE  SingleInv'
  BY <1>13 DEF WriteFailure, RefundStatus
<1>14. ASSUME NEW c \in Callbacks, Complete(c)
      PROVE  SingleInv'
  BY <1>14 DEF Complete
<1>15. ASSUME NEW c \in Callbacks, Report(c)
      PROVE  SingleInv'
  BY <1>15 DEF Report
<1>16. ASSUME NEW c \in Callbacks, ShowPage(c)
      PROVE  SingleInv'
  BY <1>16 DEF ShowPage
<1>17. CASE Crash
  BY <1>17 DEF Crash
<1>18. CASE UNCHANGED vars
  BY <1>18 DEF vars
<1>. QED
  BY <1>1, <1>2, <1>3, <1>4, <1>5, <1>6, <1>7, <1>8, <1>9, <1>10,
     <1>11, <1>12, <1>13, <1>14, <1>15, <1>16, <1>17, <1>18
     DEF Next
-----------------------------------------------------------------------------
LEMMA InitInv == Init => PaymentInv
<1> SUFFICES ASSUME Init PROVE PaymentInv
  OBVIOUS
<1>1. TypeOK
  BY InitTypeOK
<1>2. CompletedIsSettled /\ ReversedIsRefunded /\ StepsKnowGateway
  BY DEF Init, CompletedIsSettled, ReversedIsRefunded, StepsKnowGateway,
         SettledSteps, RefundSteps
<1>3. OverlapIsNoted /\ OneSettles /\ ReportedOnce
  BY PaymentAssumption
     DEF Init, OverlapIsNoted, OneSettles, ReportedOnce, FailureSteps
<1>. QED BY <1>1, <1>2, <1>3 DEF PaymentInv

LEMMA NextInv == PaymentInv /\ [Next]_vars => PaymentInv'
  BY NextTypeOK, NextGateway, NextSingle DEF PaymentInv, GatewayInv, SingleInv

(***************************************************************************)
(* The inductive invariant of the callbacks.                               *)
(***************************************************************************)
THEOREM PaymentInvariant == Spec => []PaymentInv
  BY InitInv, NextInv, PTL DEF Spec

(***************************************************************************)
(* A COMPLETED payment, or one shown as successful, is settled at the      *)
(* gateway with the ordered amount, however its callbacks overlap.         *)
(***************************************************************************)
THEOREM CompletedPaymentsAreSettled == Spec => []CompletedIsSettled
<1>1. PaymentInv => CompletedIsSettled
  BY DEF PaymentInv
<1>. QED BY <1>1, PaymentInvariant, PTL

(***************************************************************************)
(* A payment marked REVERSED was refunded by the gateway.                  *)
(***************************************************************************)
THEOREM ReversedPaymentsAreRefunded == Spec => []ReversedIsRefunded
<1>1. PaymentInv => ReversedIsRefunded
  BY DEF PaymentInv
<1>. QED BY <1>1, PaymentInvariant, PTL

(***************************************************************************)
(* The success of a payment whose callbacks never overlapped is reported   *)
(* at most once.                                                           *)
(***************************************************************************)
THEOREM SuccessReportedOnce == Spec => []ReportedOnce
<1>1. PaymentInv => ReportedOnce
  BY DEF PaymentInv
<1>. QED BY <1>1, PaymentInvariant, PTL

(***************************************************************************)
(* A COMPLETED payment whose callbacks never overlapped stays COMPLETED:   *)
(* only a failing callback would overwrite it, and none is left then.      *)
(***************************************************************************)
LEMMA CompletedStays ==
  ASSUME PaymentInv, [Next]_vars, NEW p \in Payments \ overlapped,
         status[p] = "COMPLETED"
  PROVE  status'[p] = "COMPLETED"
<1> USE DEF PaymentInv, TypeOK, rows, history, SetStatus
<1>1. ASSUME NEW q \in Payments, CreateRow(q)
      PROVE  status'[p] = "COMPLETED"
  BY <1>1 DEF CreateRow
<1>2. ASSUME NEW c \in Callbacks, WriteFailure(c)
      PROVE  status'[p] = "COMPLETED"
  <2>1. pay[c] # p
    BY <1>2 DEF WriteFailure, OneSettles, FailureSteps
  <2>. QED BY <1>2, <2>1 DEF WriteFailure
<1>3. ASSUME NEW c \in Callbacks, Complete(c)
      PROVE  status'[p] = "COMPLETED"
  BY <1>3 DEF Complete
<1>4. CASE UNCHANGED status
  BY <1>4
<1>. QED
  BY <1>1, <1>2, <1>3, <1>4
     DEF Next, vars, OpenTicket, OpeningFails, SaveCode, Charge, Arrive, ReadRow,
         VerifyOk, VerifyUnusable, VerifyFails, ReverseOk, ReverseFails, Report,
         ShowPage, Crash

THEOREM CompletedPaymentsStay == Spec => CompletedIsFinal
<1>1. PaymentInv /\ [Next]_vars =>
        [\A p \in Payments \ overlapped :
           status[p] = "COMPLETED" => status'[p] = "COMPLETED"]_vars
  BY CompletedStays
<1>. QED BY <1>1, PaymentInvariant, PTL DEF Spec, CompletedIsFinal
=============================================================================
