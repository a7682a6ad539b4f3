--------------------------- MODULE MCCapture_proofs ---------------------------
(***************************************************************************)
(* Proofs about the two components that MCCapture instantiates, for every  *)
(* value of their constants: OtpVerification, with any leads, calls and    *)
(* failures on either role; WebhookDispatch, with any leads and any number *)
(* of overlapping dispatches and retries.                                  *)
(***************************************************************************)
EXTENDS MCCapture, FiniteSetTheorems, TLAPS

(* The other requests stay where they are. *)
Others(c) == \A d \in Calls : d # c => call'[d] = call[d]
Paying    == {"open", "code"}

LEMMA CallTypes ==
  ASSUME TypeOK, NEW c \in Calls
  PROVE  /\ call[c] \in Call /\ call[c].at \in Steps /\ call[c].res \in Results
         /\ call[c].lead \in Leads \cup {NoLead} /\ call[c].form \in Form
         /\ call[c].bump \in {0, 1} /\ call[c].right \in BOOLEAN
         /\ call[c].won \in BOOLEAN
  BY DEF TypeOK, Call

LEMMA GotoFields ==
  ASSUME TypeOK, NEW c \in Calls, NEW step \in Steps, Goto(c, step)
  PROVE  /\ call' \in [Calls -> Call] /\ Others(c)
         /\ call'[c].at = step /\ call'[c].lead = call[c].lead
<1>1. [call[c] EXCEPT !.at = step] \in Call
  BY CallTypes DEF Call
<1>2. call' = [call EXCEPT ![c] = [call[c] EXCEPT !.at = step]]
  BY DEF Goto
<1>3. [call[c] EXCEPT !.at = step].at = step
  BY CallTypes DEF Call
<1>4. [call[c] EXCEPT !.at = step].lead = call[c].lead
  BY CallTypes DEF Call
<1>. QED
  BY <1>1, <1>2, <1>3, <1>4 DEF TypeOK, Others

LEMMA RespondFields ==
  ASSUME TypeOK, NEW c \in Calls, NEW r \in Results, Respond(c, r)
  PROVE  /\ call' \in [Calls -> Call] /\ Others(c)
         /\ call'[c].at = "answer" /\ call'[c].lead = call[c].lead
         /\ call'[c].res = r
<1> DEFINE x == [call[c] EXCEPT !.at = "answer", !.res = r]
<1>1. x \in Call /\ x.at = "answer" /\ x.lead = call[c].lead /\ x.res = r
  BY CallTypes DEF Call, Steps
<1>2. call' = [call EXCEPT ![c] = x]
  BY CallTypes DEF Respond, Call, TypeOK
<1> HIDE DEF x
<1>. QED
  BY <1>1, <1>2 DEF TypeOK, Others

LEMMA IdleType == Idle \in Call /\ Idle.at = "idle"
  BY DEF Idle, Call, Steps, Results, Form

LEMMA IdleFields ==
  ASSUME TypeOK, NEW c \in Calls, call' = [call EXCEPT ![c] = Idle]
  PROVE  call' \in [Calls -> Call] /\ Others(c) /\ call'[c].at = "idle"
  BY IdleType DEF TypeOK, Others

(* The steps that set more of a request than its place and its answer. *)
LEMMA ClickFields ==
  ASSUME TypeOK, NEW c \in Calls, ClickSubmit(c)
  PROVE  call' \in [Calls -> Call] /\ Others(c) /\ call'[c].at = "reqform"
<1>1. Goto(c, "reqform")
  BY DEF ClickSubmit, Goto
<1>. QED
  BY <1>1, GotoFields DEF Steps

LEMMA EnterFields ==
  ASSUME TypeOK, NEW c \in Calls, NEW right \in BOOLEAN, EnterCode(c, right)
  PROVE  /\ call' \in [Calls -> Call] /\ Others(c)
         /\ call'[c].at = "verform" /\ call'[c].lead \in Leads
<1> DEFINE x == [call[c] EXCEPT !.at = "verform", !.lead = page.pending, !.right = right]
<1>1. page.pending \in Leads
  BY DEF EnterCode, TypeOK
<1>2. x \in Call /\ x.at = "verform" /\ x.lead = page.pending
  BY <1>1, CallTypes DEF Call, Steps
<1>3. call' = [call EXCEPT ![c] = x]
  BY DEF EnterCode
<1> HIDE DEF x
<1>. QED
  BY <1>1, <1>2, <1>3 DEF TypeOK, Others

LEMMA FormFields ==
  ASSUME TypeOK, NEW c \in Calls, NEW step \in Steps,
         call' = [call EXCEPT ![c] = [@ EXCEPT !.at = step, !.form = form]]
  PROVE  /\ call' \in [Calls -> Call] /\ Others(c)
         /\ call'[c].at = step /\ call'[c].lead = call[c].lead
<1> DEFINE x == [call[c] EXCEPT !.at = step, !.form = form]
<1>1. form \in Form
  BY DEF TypeOK
<1>2. x \in Call /\ x.at = step /\ x.lead = call[c].lead
  BY <1>1, CallTypes DEF Call
<1>3. call' = [call EXCEPT ![c] = x]
  OBVIOUS
<1> HIDE DEF x
<1>. QED
  BY <1>2, <1>3 DEF TypeOK, Others

LEMMA CreateFields ==
  ASSUME TypeOK, NEW c \in Calls, NEW l \in Leads, CreateLead(c, l)
  PROVE  /\ call' \in [Calls -> Call] /\ Others(c)
         /\ call'[c].at = "sms" /\ call'[c].lead = l
<1> DEFINE x == [call[c] EXCEPT !.at = "sms", !.lead = l]
<1>1. x \in Call /\ x.at = "sms" /\ x.lead = l
  BY CallTypes DEF Call, Steps
<1>2. call' = [call EXCEPT ![c] = x]
  BY DEF CreateLead
<1> HIDE DEF x
<1>. QED
  BY <1>1, <1>2 DEF TypeOK, Others

LEMMA CountFields ==
  ASSUME TypeOK, NEW c \in Calls, CountAttempt(c)
  PROVE  /\ call' \in [Calls -> Call] /\ Others(c)
         /\ call'[c].at = "throw" /\ call'[c].lead = call[c].lead
<1> DEFINE x == [call[c] EXCEPT !.at = "throw", !.bump = 1]
<1>1. x \in Call /\ x.at = "throw" /\ x.lead = call[c].lead
  BY CallTypes DEF Call, Steps
<1>2. call' = [call EXCEPT ![c] = x]
  BY DEF CountAttempt
<1> HIDE DEF x
<1>. QED
  BY <1>1, <1>2 DEF TypeOK, Others

LEMMA ThrowFields ==
  ASSUME TypeOK, NEW c \in Calls, ThrowInvalid(c)
  PROVE  /\ call' \in [Calls -> Call] /\ Others(c)
         /\ call'[c].at = "answer" /\ call'[c].res = "error"
<1> DEFINE x == [call[c] EXCEPT !.at = "answer", !.bump = 0, !.res = "error"]
<1>1. x \in Call /\ x.at = "answer" /\ x.res = "error"
  BY CallTypes DEF Call, Steps, Results
<1>2. call' = [call EXCEPT ![c] = x]
  BY DEF ThrowInvalid
<1> HIDE DEF x
<1>. QED
  BY <1>1, <1>2 DEF TypeOK, Others

LEMMA CommitFields ==
  ASSUME TypeOK, NEW c \in Calls, Commit(c)
  PROVE  /\ call' \in [Calls -> Call] /\ Others(c)
         /\ call'[c].at \in {"product", "dispatch"} /\ call'[c].lead = call[c].lead
<1> DEFINE x == [call[c] EXCEPT !.won = TRUE, !.at = NextStep(c)]
<1>1. NextStep(c) \in {"product", "dispatch"}
  BY DEF NextStep
<1>2. x \in Call /\ x.at = NextStep(c) /\ x.lead = call[c].lead
  BY <1>1, CallTypes DEF Call, Steps
<1>3. call' = [call EXCEPT ![c] = x]
  BY DEF Commit
<1> HIDE DEF x
<1>. QED
  BY <1>1, <1>2, <1>3 DEF TypeOK, Others
-----------------------------------------------------------------------------
(***************************************************************************)
(* The inductive invariant.  A request about to write knows what it has    *)
(* read under the row's lock, the request with the right code is proved,   *)
(* and one that opens a payment is the only one of its lead.               *)
(***************************************************************************)
InLead == {"sms", "verform", "read", "count", "throw", "update", "commit",
           "product", "pay", "open", "code", "dispatch"}

CallInv(c) ==
  LET l == call[c].lead
  IN  /\ call[c].at \in InLead => l \in Leads
      /\ call[c].at = "answer" /\ call[c].res # "error" => l \in Leads
      /\ call[c].at \in {"update", "commit"} => l \in proved
      /\ call[c].at = "commit" => lock[l] = c /\ row[l] = [otp |-> "UNVERIFIED", ver |-> 1]
      /\ call[c].at \in {"product", "pay"} => row[l].otp = "VERIFIED"
      /\ call[c].at = "open" => payment[l] = "new" /\ opened[l] = 0
      /\ call[c].at = "code" => payment[l] = "new" /\ opened[l] = 1
      /\ call[c].at = "answer" /\ call[c].res = "paymentUrl" =>
           payment[l] = "coded" /\ opened[l] = 1

OnePays ==
  \A c, d \in Calls :
    call[c].at \in Paying /\ call[d].at \in Paying /\ call[c].lead = call[d].lead
      => c = d

RowShape ==
  \A l \in Leads :
    /\ row[l] \in {NoRow, [otp |-> "UNVERIFIED", ver |-> 1],
                   [otp |-> "VERIFIED", ver |-> 2]}
    /\ payment[l] = "none" => opened[l] = 0

CallsInv == (\A c \in Calls : CallInv(c)) /\ OnePays
OtpInv   == /\ CallsInv /\ RowShape /\ VerifiedByCode /\ VersionsQueuedOnce
            /\ OfferIsBacked
-----------------------------------------------------------------------------
Untyped == <<form, row, challenge, lock, queued, payment, page, expired, texted,
             opened, sentTo, proved, wrong, promised, thanked, faults, edits>>

LEMMA CountUp ==
  ASSUME NEW f \in [Leads -> Nat], NEW l \in Leads
  PROVE  [f EXCEPT ![l] = @ + 1] \in [Leads -> Nat]
  OBVIOUS

LEMMA InitTypeOK == Init => TypeOK
<1> SUFFICES ASSUME Init
             PROVE  TypeOK
  OBVIOUS
<1>1. form \in Form /\ row \in [Leads -> Row]
  BY DEF Init, Row
<1>2. challenge \in [Leads -> Challenge]
  BY DEF Init, Challenge
<1>3. queued \in [Leads -> Seq({1, 2})]
  BY DEF Init
<1>4. call \in [Calls -> Call]
  BY IdleType DEF Init
<1>. QED
  BY <1>1, <1>2, <1>3, <1>4 DEF Init, TypeOK

(* The steps that only move a request, with the world they may touch.      *)
LEMMA NextTypeOK == TypeOK /\ CallsInv /\ [Next]_vars => TypeOK'
<1> SUFFICES ASSUME TypeOK, CallsInv, [Next]_vars
             PROVE  TypeOK'
  OBVIOUS
<1> USE DEF store, world, history, bounds
<1>a. ASSUME call' \in [Calls -> Call], UNCHANGED Untyped
      PROVE  TypeOK'
  BY <1>a DEF Untyped, TypeOK
<1>1. ASSUME NEW c \in Calls, Step(c)
      PROVE  TypeOK'
  <2>a. call[c].at \in InLead => call[c].lead \in Leads
    BY DEF CallsInv, CallInv
  <2>1. CASE ClickSubmit(c)
    BY <2>1, <1>a, ClickFields DEF ClickSubmit, Untyped
  <2>2. ASSUME NEW right \in BOOLEAN, EnterCode(c, right)
        PROVE  TypeOK'
    BY <2>2, <1>a, EnterFields DEF EnterCode, Untyped
  <2>3. CASE Answer(c)
    <3>1. call' \in [Calls -> Call] /\ call[c].lead \in Leads \cup {NoLead}
      BY <2>3, IdleFields, CallTypes DEF Answer
    <3>2. page' \in [pending : Leads \cup {NoLead}, paying : Leads \cup {NoLead}]
      BY <2>3, <3>1 DEF Answer, TypeOK
    <3>3. call[c].res \in {"requested", "verified"} => call[c].lead \in Leads
      BY <2>3 DEF Answer, At, CallsInv, CallInv
    <3>4. promised' \subseteq Leads
      BY <2>3, <3>3 DEF Answer, TypeOK
    <3>5. thanked' \subseteq Leads
      BY <2>3, <3>3 DEF Answer, TypeOK
    <3>. QED
      BY <2>3, <3>1, <3>2, <3>4, <3>5 DEF Answer, TypeOK
  <2>4. CASE LoseAnswer(c)
    <3>1. call' \in [Calls -> Call]
      BY <2>4, IdleFields DEF LoseAnswer
    <3>2. faults' \in Nat
      BY <2>4 DEF LoseAnswer, Fails, TypeOK
    <3>. QED
      BY <2>4, <3>1, <3>2 DEF LoseAnswer, TypeOK
  <2>5. CASE RequestForm(c)
    BY <2>5, <1>a, FormFields, RespondFields DEF RequestForm, Untyped, Steps, Results
  <2>6. ASSUME NEW l \in Leads, CreateLead(c, l)
        PROVE  TypeOK'
    <3>1. [otp |-> "UNVERIFIED", ver |-> 1] \in Row
      BY DEF Row
    <3>2. <<1>> \in Seq({1, 2})
      OBVIOUS
    <3>. QED
      BY <2>6, <3>1, <3>2, CreateFields DEF CreateLead, TypeOK
  <2>7. ASSUME NEW took \in BOOLEAN, SendCode(c, took)
        PROVE  TypeOK'
    <3>1. call' \in [Calls -> Call]
      BY <2>7, RespondFields DEF SendCode, Results
    <3>2. texted' \subseteq Leads
      BY <2>7, <2>a DEF SendCode, At, InLead, TypeOK
    <3>3. sentTo' \in [Leads -> Nat]
      BY <2>7, <2>a, CountUp DEF SendCode, At, InLead, TypeOK
    <3>4. faults' \in Nat
      BY <2>7 DEF SendCode, Fails, TypeOK
    <3>. QED
      BY <2>7, <3>1, <3>2, <3>3, <3>4 DEF SendCode, TypeOK
  <2>8. CASE VerifyForm(c)
    BY <2>8, <1>a, FormFields, RespondFields DEF VerifyForm, Untyped, Steps, Results
  <2>9. CASE ReadChallenge(c)
    <3>1. call' \in [Calls -> Call]
      BY <2>9, GotoFields, RespondFields DEF ReadChallenge, Steps, Results
    <3>2. proved' \subseteq Leads
      BY <2>9, <2>a DEF ReadChallenge, At, InLead, TypeOK
    <3>3. wrong' \in [Leads -> Nat]
      <4>1. wrong' = wrong \/ wrong' = [wrong EXCEPT ![call[c].lead] = @ + 1]
        BY <2>9 DEF ReadChallenge
      <4>. QED
        BY <2>9, <2>a, <4>1, CountUp DEF ReadChallenge, At, InLead, TypeOK
    <3>. QED
      BY <2>9, <3>1, <3>2, <3>3 DEF ReadChallenge, TypeOK
  <2>10. CASE CountAttempt(c)
    BY <2>10, <1>a, CountFields DEF CountAttempt, Untyped
  <2>11. CASE ThrowInvalid(c)
    BY <2>11, <1>a, ThrowFields DEF ThrowInvalid, Untyped
  <2>12. CASE UpdateLead(c)
    <3>1. call' \in [Calls -> Call]
      BY <2>12, GotoFields DEF UpdateLead, Steps
    <3>. QED
      BY <2>12, <3>1 DEF UpdateLead, TypeOK
  <2>13. CASE Commit(c)
    <3>1. call' \in [Calls -> Call] /\ call[c].lead \in Leads
      BY <2>13, <2>a, CommitFields DEF Commit, At, InLead
    <3>2. row[call[c].lead].ver + 1 = 2
      BY <2>13 DEF Commit, At, CallsInv, CallInv
    <3>3. row' \in [Leads -> Row]
      <4>1. [otp |-> "VERIFIED", ver |-> 2] \in Row
        BY DEF Row
      <4>. QED
        BY <2>13, <3>2, <4>1 DEF Commit, TypeOK
    <3>4. challenge' \in [Leads -> Challenge]
      <4>1. call[c].bump \in Nat
        BY CallTypes
      <4>2. challenge[call[c].lead] \in Challenge
        BY <3>1 DEF TypeOK
      <4>3. [verified |-> TRUE,
             attempts |-> challenge[call[c].lead].attempts + call[c].bump] \in Challenge
        BY <4>1, <4>2 DEF Challenge
      <4>. QED
        BY <2>13, <4>3 DEF Commit, TypeOK
    <3>5. queued' \in [Leads -> Seq({1, 2})]
      <4>1. Append(queued[call[c].lead], 2) \in Seq({1, 2})
        BY <3>1 DEF TypeOK
      <4>. QED
        BY <2>13, <3>2, <4>1 DEF Commit, TypeOK
    <3>6. lock' \in [Leads -> Calls \cup {Nobody}]
      BY <2>13 DEF Commit, TypeOK
    <3>. QED
      BY <2>13, <3>1, <3>3, <3>4, <3>5, <3>6 DEF Commit, TypeOK
  <2>14. CASE Abort(c)
    <3>1. call' \in [Calls -> Call]
      BY <2>14, RespondFields DEF Abort, Results
    <3>2. lock' \in [Leads -> Calls \cup {Nobody}]
      BY <2>14 DEF Abort, TypeOK
    <3>3. faults' \in Nat
      BY <2>14 DEF Abort, Fails, TypeOK
    <3>. QED
      BY <2>14, <3>1, <3>2, <3>3 DEF Abort, TypeOK
  <2>15. CASE FindProduct(c)
    BY <2>15, <1>a, GotoFields DEF FindProduct, Untyped, Steps
  <2>16. CASE CreatePayment(c)
    BY <2>16, GotoFields, RespondFields DEF CreatePayment, Steps, Results, TypeOK
  <2>17. CASE OpenPayment(c)
    <3>1. call' \in [Calls -> Call]
      BY <2>17, GotoFields DEF OpenPayment, Steps
    <3>2. opened' \in [Leads -> Nat]
      BY <2>17, <2>a, CountUp DEF OpenPayment, At, InLead, TypeOK
    <3>. QED
      BY <2>17, <3>1, <3>2 DEF OpenPayment, TypeOK
  <2>18. ASSUME NEW done \in BOOLEAN, OpenFails(c, done)
         PROVE  TypeOK'
    <3>1. call' \in [Calls -> Call]
      BY <2>18, RespondFields DEF OpenFails, Results
    <3>2. opened' \in [Leads -> Nat]
      BY <2>18, <2>a, CountUp DEF OpenFails, At, InLead, TypeOK
    <3>3. faults' \in Nat
      BY <2>18 DEF OpenFails, Fails, TypeOK
    <3>. QED
      BY <2>18, <3>1, <3>2, <3>3 DEF OpenFails, TypeOK
  <2>19. CASE StoreCode(c)
    BY <2>19, RespondFields DEF StoreCode, Results, Coded, TypeOK
  <2>20. CASE CallFails(c)
    BY <2>20, RespondFields DEF CallFails, Fails, Results, TypeOK
  <2>21. CASE EndVerify(c)
    <3>1. call' \in [Calls -> Call]
      BY <2>21, RespondFields DEF EndVerify, Results
    <3>2. sentTo' \in [Leads -> Nat]
      BY <2>21, <2>a, CountUp DEF EndVerify, At, InLead, TypeOK
    <3>. QED
      BY <2>21, <3>1, <3>2 DEF EndVerify, TypeOK
  <2>. QED
    BY <1>1, <2>1, <2>2, <2>3, <2>4, <2>5, <2>6, <2>7, <2>8, <2>9, <2>10, <2>11,
       <2>12, <2>13, <2>14, <2>15, <2>16, <2>17, <2>18, <2>19, <2>20, <2>21
       DEF Step
<1>2. CASE Reload
  BY <1>2 DEF Reload, TypeOK
<1>3. CASE Restart
  BY <1>3, IdleType DEF Restart, Fails, TypeOK
<1>4. ASSUME NEW l \in Leads, Expire(l)
      PROVE  TypeOK'
  BY <1>4 DEF Expire, TypeOK
<1>5. ASSUME NEW f \in Form, EditForm(f)
      PROVE  TypeOK'
  BY <1>5 DEF EditForm, TypeOK
<1>6. CASE UNCHANGED vars
  BY <1>6 DEF vars, TypeOK
<1>. QED
  BY <1>1, <1>2, <1>3, <1>4, <1>5, <1>6 DEF Next
-----------------------------------------------------------------------------
World == <<row, challenge, lock, queued, payment, opened, page>>

LEMMA InitInv == Init => OtpInv
<1> SUFFICES ASSUME Init
             PROVE  OtpInv
  OBVIOUS
<1>1. CallsInv
  BY DEF Init, CallsInv, CallInv, OnePays, Paying, Idle, InLead
<1>2. RowShape /\ OfferIsBacked
  BY OtpAssumption DEF Init, RowShape, OfferIsBacked, NoRow
<1>3. VerifiedByCode
  BY DEF Init, VerifiedByCode, NoRow
<1>4. VersionsQueuedOnce
  BY DEF Init, VersionsQueuedOnce, NoRow
<1>. QED
  BY <1>1, <1>2, <1>3, <1>4 DEF OtpInv

(* A step that moves one request and leaves the world alone. *)
LEMMA Quiet ==
  ASSUME TypeOK, OtpInv, NEW c \in Calls, Others(c), UNCHANGED World,
         proved \subseteq proved', CallInv(c)', call'[c].at \notin Paying
  PROVE  OtpInv'
<1>1. ASSUME NEW d \in Calls
      PROVE  CallInv(d)'
  <2>1. CASE d # c
    <3>1. CallInv(d) /\ call'[d] = call[d]
      BY <2>1 DEF OtpInv, CallsInv, Others
    <3>. QED
      BY <3>1 DEF CallInv, World
  <2>. QED
    BY <2>1
<1>2. OnePays'
  BY DEF OtpInv, CallsInv, OnePays, Others
<1>3. (RowShape /\ VersionsQueuedOnce /\ OfferIsBacked)'
  BY DEF OtpInv, RowShape, VersionsQueuedOnce, OfferIsBacked, World
<1>4. VerifiedByCode'
  BY DEF OtpInv, VerifiedByCode, World
<1>. QED
  BY <1>1, <1>2, <1>3, <1>4 DEF OtpInv, CallsInv

LEMMA QuietSteps ==
  ASSUME TypeOK, OtpInv, NEW c \in Calls,
         \/ ClickSubmit(c) \/ EnterCode(c, TRUE) \/ EnterCode(c, FALSE)
         \/ LoseAnswer(c) \/ RequestForm(c)
         \/ SendCode(c, TRUE) \/ SendCode(c, FALSE)
         \/ VerifyForm(c) \/ ReadChallenge(c) \/ CountAttempt(c) \/ ThrowInvalid(c)
         \/ FindProduct(c) \/ CallFails(c) \/ EndVerify(c)
  PROVE  OtpInv'
<1> USE DEF store, world, history, bounds, World
<1>0. CallInv(c)
  BY DEF OtpInv, CallsInv
<1>1. CASE ClickSubmit(c)
  <2>1. CallInv(c)' /\ Others(c) /\ call'[c].at \notin Paying
    BY <1>1, ClickFields DEF CallInv, InLead, Paying
  <2>. QED
    BY <1>1, <2>1, Quiet DEF ClickSubmit
<1>2. ASSUME NEW right \in BOOLEAN, EnterCode(c, right)
      PROVE  OtpInv'
  <2>1. CallInv(c)' /\ Others(c) /\ call'[c].at \notin Paying
    BY <1>2, EnterFields DEF CallInv, InLead, Paying
  <2>. QED
    BY <1>2, <2>1, Quiet DEF EnterCode
<1>3. CASE LoseAnswer(c)
  <2>1. CallInv(c)' /\ Others(c) /\ call'[c].at \notin Paying
    BY <1>3, IdleFields DEF LoseAnswer, CallInv, InLead, Paying
  <2>. QED
    BY <1>3, <2>1, Quiet DEF LoseAnswer
<1>4. CASE RequestForm(c)
  <2>1. /\ Others(c)
        /\ call'[c].at = "create" \/ (call'[c].at = "answer" /\ call'[c].res = "error")
    BY <1>4, FormFields, RespondFields DEF RequestForm, Steps, Results
  <2>2. CallInv(c)' /\ call'[c].at \notin Paying
    BY <2>1 DEF CallInv, InLead, Paying
  <2>. QED
    BY <1>4, <2>1, <2>2, Quiet DEF RequestForm
<1>5. ASSUME NEW took \in BOOLEAN, SendCode(c, took)
      PROVE  OtpInv'
  <2>1. /\ Others(c) /\ call[c].lead \in Leads /\ call'[c].lead = call[c].lead
        /\ call'[c].at = "answer" /\ call'[c].res = "requested"
    BY <1>0, <1>5, RespondFields DEF SendCode, Results, At, CallInv, InLead
  <2>2. CallInv(c)' /\ call'[c].at \notin Paying
    BY <2>1 DEF CallInv, InLead, Paying
  <2>. QED
    BY <1>5, <2>1, <2>2, Quiet DEF SendCode
<1>6. CASE VerifyForm(c)
  <2>1. /\ Others(c) /\ call[c].lead \in Leads /\ call'[c].lead = call[c].lead
        /\ call'[c].at = "read" \/ (call'[c].at = "answer" /\ call'[c].res = "error")
    BY <1>0, <1>6, FormFields, RespondFields
       DEF VerifyForm, Steps, Results, At, CallInv, InLead
  <2>2. CallInv(c)' /\ call'[c].at \notin Paying
    BY <2>1 DEF CallInv, InLead, Paying
  <2>. QED
    BY <1>6, <2>1, <2>2, Quiet DEF VerifyForm
<1>7. CASE ReadChallenge(c)
  <2>1. /\ Others(c) /\ call[c].lead \in Leads /\ call'[c].lead = call[c].lead
        /\ \/ call'[c].at \in {"dispatch", "count"}
           \/ call'[c].at = "answer" /\ call'[c].res = "error"
           \/ call'[c].at = "update" /\ call[c].lead \in proved'
    <3>1. call[c].lead \in Leads
      BY <1>0, <1>7 DEF ReadChallenge, At, CallInv, InLead
    <3>2. Others(c) /\ call'[c].lead = call[c].lead
      BY <1>7, GotoFields, RespondFields DEF ReadChallenge, Steps, Results
    <3>3. CASE challenge[call[c].lead].verified \/ row[call[c].lead].otp = "VERIFIED"
      BY <1>7, <3>1, <3>2, <3>3, GotoFields DEF ReadChallenge, Steps
    <3>4. CASE /\ ~(challenge[call[c].lead].verified \/ row[call[c].lead].otp = "VERIFIED")
               /\ ~InTime(call[c].lead)
      BY <1>7, <3>1, <3>2, <3>4, RespondFields DEF ReadChallenge, Results
    <3>5. CASE /\ ~(challenge[call[c].lead].verified \/ row[call[c].lead].otp = "VERIFIED")
               /\ InTime(call[c].lead)
      <4>1. call'[c].at = IF Matches(c) THEN "update" ELSE "count"
        BY <1>7, <3>5, GotoFields DEF ReadChallenge, Steps
      <4>2. Matches(c) => call[c].lead \in proved'
        BY <1>7, <3>5 DEF ReadChallenge, Matches, InTime
      <4>. QED
        BY <3>1, <3>2, <4>1, <4>2
    <3>. QED
      BY <3>3, <3>4, <3>5
  <2>2. CallInv(c)' /\ call'[c].at \notin Paying
    BY <2>1 DEF CallInv, InLead, Paying
  <2>3. proved \subseteq proved' /\ UNCHANGED World
    BY <1>7 DEF ReadChallenge
  <2>. QED
    BY <2>1, <2>2, <2>3, Quiet
<1>8. CASE CountAttempt(c)
  <2>1. Others(c) /\ call[c].lead \in Leads /\ call'[c].lead = call[c].lead
        /\ call'[c].at = "throw"
    BY <1>0, <1>8, CountFields DEF CountAttempt, At, CallInv, InLead
  <2>2. CallInv(c)' /\ call'[c].at \notin Paying
    BY <2>1 DEF CallInv, InLead, Paying
  <2>. QED
    BY <1>8, <2>1, <2>2, Quiet DEF CountAttempt
<1>9. CASE ThrowInvalid(c)
  <2>1. CallInv(c)' /\ Others(c) /\ call'[c].at \notin Paying
    BY <1>9, ThrowFields DEF CallInv, InLead, Paying
  <2>. QED
    BY <1>9, <2>1, Quiet DEF ThrowInvalid
<1>10. CASE FindProduct(c)
  <2>1. /\ Others(c) /\ call[c].lead \in Leads /\ call'[c].lead = call[c].lead
        /\ call'[c].at \in {"pay", "dispatch"}
        /\ row[call[c].lead].otp = "VERIFIED"
    BY <1>0, <1>10, GotoFields DEF FindProduct, Steps, At, CallInv, InLead
  <2>2. CallInv(c)' /\ call'[c].at \notin Paying
    BY <1>10, <2>1 DEF FindProduct, CallInv, InLead, Paying
  <2>. QED
    BY <1>10, <2>1, <2>2, Quiet DEF FindProduct
<1>11. CASE CallFails(c)
  <2>1. Others(c) /\ call'[c].at = "answer" /\ call'[c].res = "error"
    BY <1>11, RespondFields DEF CallFails, Results
  <2>2. CallInv(c)' /\ call'[c].at \notin Paying
    BY <2>1 DEF CallInv, InLead, Paying
  <2>. QED
    BY <1>11, <2>1, <2>2, Quiet DEF CallFails
<1>12. CASE EndVerify(c)
  <2>1. /\ Others(c) /\ call[c].lead \in Leads /\ call'[c].lead = call[c].lead
        /\ call'[c].at = "answer" /\ call'[c].res = "verified"
    BY <1>0, <1>12, RespondFields DEF EndVerify, Results, At, CallInv, InLead
  <2>2. CallInv(c)' /\ call'[c].at \notin Paying
    BY <2>1 DEF CallInv, InLead, Paying
  <2>. QED
    BY <1>12, <2>1, <2>2, Quiet DEF EndVerify
<1>. QED
  BY <1>1, <1>2, <1>3, <1>4, <1>5, <1>6, <1>7, <1>8, <1>9, <1>10, <1>11, <1>12
-----------------------------------------------------------------------------
LEMMA CreateInv ==
  ASSUME TypeOK, OtpInv, NEW c \in Calls, NEW l \in Leads, CreateLead(c, l)
  PROVE  OtpInv'
<1> USE DEF store, world, history, bounds
<1>1. /\ row[l] = NoRow /\ row' = [row EXCEPT ![l] = [otp |-> "UNVERIFIED", ver |-> 1]]
      /\ queued' = [queued EXCEPT ![l] = IF IsEdge THEN <<1>> ELSE @]
      /\ UNCHANGED <<challenge, lock, payment, opened, proved, page>>
  BY DEF CreateLead
<1>2. row \in [Leads -> Row] /\ queued \in [Leads -> Seq({1, 2})]
  BY DEF TypeOK
<1>3. Others(c) /\ call'[c].at = "sms" /\ call'[c].lead = l
  BY CreateFields
<1>4. ASSUME NEW d \in Calls
      PROVE  CallInv(d)'
  <2>1. CASE d = c
    BY <1>3, <2>1 DEF CallInv, InLead
  <2>2. CASE d # c
    <3>1. CallInv(d) /\ call'[d] = call[d]
      BY <1>3, <2>2 DEF OtpInv, CallsInv, Others
    <3>2. call[d].at \in {"commit", "product", "pay"} => call[d].lead \in Leads \ {l}
      BY <1>1, <3>1 DEF CallInv, InLead, NoRow
    <3>3. call[d].at \in {"commit", "product", "pay"} => row'[call[d].lead] = row[call[d].lead]
      BY <1>1, <1>2, <3>2
    <3>. QED
      BY <1>1, <3>1, <3>3 DEF CallInv, InLead
  <2>. QED
    BY <2>1, <2>2
<1>5. OnePays'
  BY <1>3 DEF OtpInv, CallsInv, OnePays, Others, Paying
<1>6. RowShape'
  BY <1>1, <1>2 DEF OtpInv, RowShape
<1>7. VerifiedByCode'
  BY <1>1, <1>2 DEF OtpInv, VerifiedByCode, NoRow
<1>8. VersionsQueuedOnce'
  <2>1. Len(<<1>>) = 1 /\ <<1>>[1] = 1
    OBVIOUS
  <2>2. ASSUME NEW m \in Leads, m # l
        PROVE  row'[m] = row[m] /\ queued'[m] = queued[m]
    BY <1>1, <1>2, <2>2
  <2>3. row'[l].ver = 1 /\ queued'[l] = IF IsEdge THEN <<1>> ELSE queued[l]
    BY <1>1, <1>2
  <2>4. ~IsEdge => Len(queued[l]) = 0
    BY DEF OtpInv, VersionsQueuedOnce
  <2>5. Len(queued'[l]) = IF IsEdge THEN 1 ELSE 0
    BY <2>1, <2>3, <2>4
  <2>6. \A i \in 1..Len(queued'[l]) : queued'[l][i] = i
    <3>1. CASE IsEdge
      BY <2>1, <2>3, <3>1
    <3>2. CASE ~IsEdge
      BY <2>3, <2>4, <3>2
    <3>. QED
      BY <3>1, <3>2
  <2>7. ASSUME NEW m \in Leads
        PROVE  /\ row'[m].ver <= 2
               /\ Len(queued'[m]) = IF IsEdge THEN row'[m].ver ELSE 0
               /\ \A i \in 1..Len(queued'[m]) : queued'[m][i] = i
    <3>1. CASE m = l
      <4>1. row'[l].ver = 1
        BY <2>3
      <4>2. Len(queued'[l]) = IF IsEdge THEN row'[l].ver ELSE 0
        BY <2>5, <4>1
      <4>. QED
        BY <2>6, <3>1, <4>1, <4>2
    <3>2. CASE m # l
      BY <2>2, <3>2 DEF OtpInv, VersionsQueuedOnce
    <3>. QED
      BY <3>1, <3>2
  <2>. QED
    BY <2>7 DEF VersionsQueuedOnce
<1>9. OfferIsBacked'
  BY <1>1, <1>2 DEF OtpInv, OfferIsBacked, NoRow
<1>. QED
  BY <1>4, <1>5, <1>6, <1>7, <1>8, <1>9 DEF OtpInv, CallsInv

(* The lock changes hands only between transactions. *)
LEMMA LockInv ==
  ASSUME TypeOK, OtpInv, NEW c \in Calls, UpdateLead(c) \/ Abort(c)
  PROVE  OtpInv'
<1> USE DEF store, world, history, bounds
<1>0. CallInv(c)
  BY DEF OtpInv, CallsInv
<1>1. UNCHANGED <<row, challenge, queued, payment, opened, proved, page>>
  BY DEF UpdateLead, Abort
<1>2. /\ Others(c) /\ call'[c].lead = call[c].lead /\ call'[c].at \notin Paying
      /\ CallInv(c)'
  <2>1. CASE UpdateLead(c) /\ Updates(call[c].lead)
    <3>1. /\ call[c].lead \in Leads /\ call[c].lead \in proved
          /\ lock' = [lock EXCEPT ![call[c].lead] = c]
      BY <1>0, <2>1 DEF UpdateLead, At, CallInv, InLead
    <3>2. Others(c) /\ call'[c].at = "commit" /\ call'[c].lead = call[c].lead
      BY <2>1, GotoFields DEF UpdateLead, Steps
    <3>3. row[call[c].lead] = [otp |-> "UNVERIFIED", ver |-> 1]
      BY <2>1, <3>1 DEF Updates, OtpInv, RowShape, NoRow
    <3>4. lock'[call[c].lead] = c
      BY <3>1 DEF TypeOK
    <3>. QED
      BY <1>1, <3>1, <3>2, <3>3, <3>4 DEF CallInv, InLead, Paying
  <2>2. CASE UpdateLead(c) /\ ~Updates(call[c].lead)
    <3>1. call[c].lead \in Leads
      BY <1>0, <2>2 DEF UpdateLead, At, CallInv, InLead
    <3>2. Others(c) /\ call'[c].at = "dispatch" /\ call'[c].lead = call[c].lead
      BY <2>2, GotoFields DEF UpdateLead, Steps
    <3>. QED
      BY <3>1, <3>2 DEF CallInv, InLead, Paying
  <2>3. CASE Abort(c)
    <3>1. Others(c) /\ call'[c].at = "answer" /\ call'[c].lead = call[c].lead
          /\ call'[c].res = "error"
      BY <2>3, RespondFields DEF Abort, Results
    <3>. QED
      BY <3>1 DEF CallInv, InLead, Paying
  <2>. QED
    BY <2>1, <2>2, <2>3
<1>3. ASSUME NEW d \in Calls, d # c
      PROVE  CallInv(d)'
  <2>1. CallInv(d) /\ call'[d] = call[d]
    BY <1>2, <1>3 DEF OtpInv, CallsInv, Others
  <2>2. call[d].at = "commit" => lock'[call[d].lead] = lock[call[d].lead]
    <3>1. ASSUME call[d].at = "commit"
          PROVE  lock'[call[d].lead] = lock[call[d].lead]
      <4>1. call[d].lead \in Leads /\ lock[call[d].lead] = d
        BY <2>1, <3>1 DEF CallInv, InLead
      <4>2. \/ lock' = lock
            \/ /\ lock[call[c].lead] \in {Nobody, c}
               /\ \E x \in {Nobody, c} : lock' = [lock EXCEPT ![call[c].lead] = x]
        BY <1>0 DEF UpdateLead, Abort, At, CallInv
      <4>3. d # Nobody
        BY OtpAssumption
      <4>4. lock \in [Leads -> Calls \cup {Nobody}]
        BY DEF TypeOK
      <4>. QED
        BY <1>3, <4>1, <4>2, <4>3, <4>4
    <3>. QED
      BY <3>1
  <2>. QED
    BY <1>1, <2>1, <2>2 DEF CallInv
<1>4. OnePays'
  BY <1>2 DEF OtpInv, CallsInv, OnePays, Others
<1>5. (RowShape /\ VerifiedByCode /\ VersionsQueuedOnce /\ OfferIsBacked)'
  BY <1>1 DEF OtpInv, RowShape, VerifiedByCode, VersionsQueuedOnce, OfferIsBacked
<1>. QED
  BY <1>2, <1>3, <1>4, <1>5 DEF OtpInv, CallsInv

LEMMA CommitInv ==
  ASSUME TypeOK, OtpInv, NEW c \in Calls, Commit(c)
  PROVE  OtpInv'
<1> USE DEF store, world, history, bounds
<1> DEFINE l == call[c].lead
<1>0. CallInv(c)
  BY DEF OtpInv, CallsInv
<1>1. /\ l \in Leads /\ l \in proved /\ lock[l] = c
      /\ row[l] = [otp |-> "UNVERIFIED", ver |-> 1]
  BY <1>0 DEF Commit, At, CallInv, InLead
<1>2. /\ row' = [row EXCEPT ![l] = [otp |-> "VERIFIED", ver |-> 2]]
      /\ lock' = [lock EXCEPT ![l] = Nobody]
      /\ queued' = [queued EXCEPT ![l] = IF IsEdge THEN Append(@, 2) ELSE @]
      /\ UNCHANGED <<payment, opened, proved, page>>
  BY <1>1 DEF Commit
<1>3. /\ \A m \in Leads : m # l => challenge'[m] = challenge[m]
      /\ challenge'[l].verified = TRUE
  BY <1>1 DEF Commit, TypeOK
<1>4. /\ Others(c) /\ call'[c].lead = l
      /\ call'[c].at \in {"product", "dispatch"}
  BY CommitFields
<1>5. /\ row \in [Leads -> Row] /\ queued \in [Leads -> Seq({1, 2})]
      /\ lock \in [Leads -> Calls \cup {Nobody}]
  BY DEF TypeOK
<1>6. row'[l] = [otp |-> "VERIFIED", ver |-> 2]
  BY <1>1, <1>2, <1>5
<1>7. \A m \in Leads : m # l => /\ row'[m] = row[m] /\ lock'[m] = lock[m]
                                /\ queued'[m] = queued[m]
  BY <1>2, <1>5
<1> HIDE DEF l
<1>8. CallInv(c)'
  BY <1>1, <1>4, <1>6 DEF CallInv, InLead
<1>9. ASSUME NEW d \in Calls, d # c
      PROVE  CallInv(d)'
  <2>1. CallInv(d) /\ call'[d] = call[d]
    BY <1>4, <1>9 DEF OtpInv, CallsInv, Others
  <2>2. call[d].at = "commit" => call[d].lead \in Leads \ {l}
    BY <1>1, <1>9, <2>1 DEF CallInv, InLead
  <2>3. call[d].at \in {"product", "pay"} => call[d].lead \in Leads \ {l}
    BY <1>1, <2>1 DEF CallInv, InLead
  <2>. QED
    BY <1>2, <1>7, <2>1, <2>2, <2>3 DEF CallInv
<1>10. OnePays'
  BY <1>4 DEF OtpInv, CallsInv, OnePays, Others, Paying
<1>11. RowShape'
  BY <1>2, <1>6, <1>7 DEF OtpInv, RowShape
<1>12. VerifiedByCode'
  <2>1. row'[l].otp = "VERIFIED" /\ l \in proved'
    BY <1>1, <1>2, <1>6
  <2>2. challenge'[l].verified = (row'[l].otp = "VERIFIED")
    BY <1>3, <2>1
  <2>3. ASSUME NEW m \in Leads, m # l
        PROVE  /\ row'[m].otp = "VERIFIED" => m \in proved'
               /\ challenge'[m].verified = (row'[m].otp = "VERIFIED")
    <3>1. row'[m] = row[m] /\ challenge'[m] = challenge[m] /\ proved' = proved
      BY <1>2, <1>3, <1>7, <2>3 DEF l
    <3>. QED
      BY <3>1 DEF OtpInv, VerifiedByCode
  <2>. QED
    BY <2>1, <2>2, <2>3 DEF VerifiedByCode
<1>13. VersionsQueuedOnce'
  <2>1. /\ Len(queued[l]) = IF IsEdge THEN 1 ELSE 0
        /\ \A i \in 1..Len(queued[l]) : queued[l][i] = i
    BY <1>1 DEF OtpInv, VersionsQueuedOnce
  <2>2. queued'[l] = IF IsEdge THEN Append(queued[l], 2) ELSE queued[l]
    BY <1>1, <1>2, <1>5
  <2>3. queued[l] \in Seq({1, 2})
    BY <1>1, <1>5
  <2>4. Len(queued'[l]) = IF IsEdge THEN 2 ELSE 0
    BY <2>1, <2>2, <2>3
  <2>5. \A i \in 1..Len(queued'[l]) : queued'[l][i] = i
    <3>1. CASE ~IsEdge
      BY <2>1, <2>2, <3>1
    <3>2. CASE IsEdge
      <4>1. queued'[l][1] = queued[l][1] /\ queued'[l][2] = 2 /\ queued[l][1] = 1
        BY <2>1, <2>2, <2>3, <3>2
      <4>2. \A i \in 1..2 : i = 1 \/ i = 2
        OBVIOUS
      <4>. QED
        BY <2>4, <3>2, <4>1, <4>2
    <3>. QED
      BY <3>1, <3>2
  <2>. QED
    BY <1>6, <1>7, <2>4, <2>5 DEF OtpInv, VersionsQueuedOnce
<1>14. OfferIsBacked'
  BY <1>2, <1>6, <1>7 DEF OtpInv, OfferIsBacked
<1>. QED
  BY <1>8, <1>9, <1>10, <1>11, <1>12, <1>13, <1>14 DEF OtpInv, CallsInv
-----------------------------------------------------------------------------
Creates(c) == payment[call[c].lead] = "none" /\ form.product

LEMMA PayRefused ==
  ASSUME TypeOK, OtpInv, NEW c \in Calls, CreatePayment(c), ~Creates(c)
  PROVE  OtpInv'
<1>1. /\ payment' = payment /\ Respond(c, "error")
      /\ UNCHANGED <<row, challenge, lock, queued, opened, proved, page>>
  BY DEF CreatePayment, Creates, world, history
<1>2. Others(c) /\ call'[c].at = "answer" /\ call'[c].res = "error"
  BY <1>1, RespondFields DEF Results
<1>3. CallInv(c)' /\ call'[c].at \notin Paying
  BY <1>2 DEF CallInv, InLead, Paying
<1>. QED
  BY <1>1, <1>2, <1>3, Quiet DEF World

(* The steps of a payment: only one request of a lead is ever at them.     *)
LEMMA PayInv ==
  ASSUME TypeOK, OtpInv, NEW c \in Calls,
         \/ (CreatePayment(c) /\ Creates(c)) \/ OpenPayment(c)
         \/ OpenFails(c, TRUE) \/ OpenFails(c, FALSE) \/ StoreCode(c)
  PROVE  OtpInv'
<1> USE DEF store, world, history, bounds
<1> DEFINE l == call[c].lead
<1>0. CallInv(c)
  BY DEF OtpInv, CallsInv
<1>1. /\ l \in Leads
      /\ UNCHANGED <<row, challenge, lock, queued, proved, page>>
  BY <1>0 DEF CreatePayment, OpenPayment, OpenFails, StoreCode, At, CallInv, InLead
<1>2. payment \in [Leads -> {"none", "new", "coded"}] /\ opened \in [Leads -> Nat]
  BY DEF TypeOK
<1>3. RowShape /\ OfferIsBacked
  BY DEF OtpInv
(* What each step does, seen from its lead. *)
<1>4. /\ Others(c) /\ call'[c].lead = l
      /\ \A m \in Leads : m # l => payment'[m] = payment[m] /\ opened'[m] = opened[m]
      /\ \/ /\ call'[c].at = "open" /\ call[c].at = "pay"
            /\ payment[l] = "none" /\ payment'[l] = "new"
            /\ opened'[l] = opened[l]
         \/ /\ call'[c].at = "code" /\ call[c].at = "open"
            /\ payment'[l] = payment[l] /\ opened'[l] = opened[l] + 1
         \/ /\ call'[c].at = "answer" /\ call'[c].res = "error"
            /\ call[c].at = "open"
            /\ payment'[l] = payment[l] /\ opened'[l] \in {opened[l], opened[l] + 1}
         \/ /\ call'[c].at = "answer" /\ call'[c].res = "paymentUrl"
            /\ call[c].at = "code"
            /\ payment'[l] = "coded" /\ opened'[l] = opened[l]
  <2>1. CASE CreatePayment(c) /\ Creates(c)
    <3>1. /\ payment' = [payment EXCEPT ![l] = "new"] /\ Goto(c, "open")
          /\ opened' = opened /\ call[c].at = "pay" /\ payment[l] = "none"
      BY <2>1 DEF CreatePayment, Creates, At
    <3>. QED
      BY <1>1, <1>2, <3>1, GotoFields DEF Steps
  <2>2. CASE OpenPayment(c)
    <3>1. opened' = [opened EXCEPT ![l] = @ + 1] /\ Goto(c, "code")
          /\ payment' = payment /\ call[c].at = "open"
      BY <2>2 DEF OpenPayment, At
    <3>. QED
      BY <1>1, <1>2, <3>1, GotoFields DEF Steps
  <2>3. ASSUME NEW done \in BOOLEAN, OpenFails(c, done)
        PROVE  /\ Others(c) /\ call'[c].lead = l
               /\ \A m \in Leads : m # l => payment'[m] = payment[m]
                                            /\ opened'[m] = opened[m]
               /\ call'[c].at = "answer" /\ call'[c].res = "error"
               /\ call[c].at = "open"
               /\ payment'[l] = payment[l]
               /\ opened'[l] \in {opened[l], opened[l] + 1}
    <3>1. (opened' = [opened EXCEPT ![l] = @ + 1] \/ opened' = opened)
          /\ Respond(c, "error") /\ payment' = payment /\ call[c].at = "open"
      BY <2>3 DEF OpenFails, At
    <3>. QED
      BY <1>1, <1>2, <3>1, RespondFields DEF Results
  <2>4. CASE StoreCode(c)
    <3>1. payment' = [payment EXCEPT ![l] = "coded"] /\ Respond(c, "paymentUrl")
          /\ opened' = opened /\ call[c].at = "code"
      BY <2>4 DEF StoreCode, Coded, At
    <3>. QED
      BY <1>1, <1>2, <3>1, RespondFields DEF Results
  <2>. QED
    BY <2>1, <2>2, <2>3, <2>4
<1>5. opened[l] \in Nat
  BY <1>1, <1>2
<1>6. /\ payment[l] = "none" => opened[l] = 0
      /\ call[c].at = "pay" => row[l].otp = "VERIFIED"
      /\ call[c].at = "open" => payment[l] = "new" /\ opened[l] = 0
      /\ call[c].at = "code" => payment[l] = "new" /\ opened[l] = 1
      /\ payment[l] # "none" => row[l].otp = "VERIFIED"
      /\ opened[l] <= 1
      /\ page.paying = l => payment[l] = "coded" /\ opened[l] = 1
  BY <1>0, <1>1, <1>3 DEF CallInv, RowShape, OfferIsBacked
<1> HIDE DEF l
<1>7. CallInv(c)'
  BY <1>1, <1>4, <1>5, <1>6 DEF CallInv, InLead
<1>8. ASSUME NEW d \in Calls, d # c
      PROVE  CallInv(d)'
  <2>1. CallInv(d) /\ call'[d] = call[d]
    BY <1>4, <1>8 DEF OtpInv, CallsInv, Others
  <2>2. call[d].at \in Paying => call[d].lead \in Leads \ {l}
    <3>1. call[d].at \in Paying => payment[call[d].lead] = "new" /\ call[d].lead \in Leads
      BY <2>1 DEF CallInv, Paying, InLead
    <3>2. (call[c].at = "pay" /\ payment[l] = "none") \/ call[c].at \in Paying
      BY <1>4 DEF Paying
    <3>3. OnePays
      BY DEF OtpInv, CallsInv
    <3>4. call[c].at \in Paying /\ call[d].at \in Paying => call[d].lead # l
      BY <1>8, <3>3 DEF OnePays, l
    <3>. QED
      BY <3>1, <3>2, <3>4
  <2>3. call[d].at = "answer" /\ call[d].res = "paymentUrl" => call[d].lead \in Leads \ {l}
    <3>1. payment[l] # "coded"
      BY <1>4, <1>6
    <3>. QED
      BY <2>1, <3>1 DEF CallInv
  <2>. QED
    BY <1>1, <1>4, <2>1, <2>2, <2>3 DEF CallInv, Paying
<1>9. OnePays'
  <2>1. ASSUME NEW d \in Calls, d # c, call[d].at \in Paying, call'[c].at \in Paying
        PROVE  call[d].lead # l
    <3>1. (call[c].at = "pay" /\ payment[l] = "none") \/ call[c].at \in Paying
      BY <1>4 DEF Paying
    <3>2. CallInv(d)
      BY DEF OtpInv, CallsInv
    <3>3. payment[call[d].lead] = "new"
      BY <2>1, <3>2 DEF CallInv, Paying
    <3>4. call[c].at \in Paying => call[d].lead # l
      BY <2>1 DEF OtpInv, CallsInv, OnePays, l
    <3>. QED
      BY <3>1, <3>3, <3>4
  <2>. QED
    BY <1>4, <2>1 DEF OtpInv, CallsInv, OnePays, Others
<1>10. RowShape'
  <2>1. payment'[l] # "none"
    BY <1>4, <1>6
  <2>. QED
    BY <1>1, <1>3, <1>4, <2>1 DEF RowShape
<1>11. (VerifiedByCode /\ VersionsQueuedOnce)'
  BY <1>1 DEF OtpInv, VerifiedByCode, VersionsQueuedOnce
<1>12. OfferIsBacked'
  <2>1. row[l].otp = "VERIFIED" /\ page.paying # l
    BY <1>4, <1>6
  <2>2. opened'[l] <= 1
    BY <1>4, <1>5, <1>6
  <2>. QED
    BY <1>1, <1>3, <1>4, <2>1, <2>2 DEF OfferIsBacked
<1>. QED
  BY <1>7, <1>8, <1>9, <1>10, <1>11, <1>12 DEF OtpInv, CallsInv
-----------------------------------------------------------------------------
LEMMA PageInv ==
  ASSUME TypeOK, OtpInv, (\E c \in Calls : Answer(c)) \/ Reload \/ Restart
  PROVE  OtpInv'
<1> USE DEF store, world, history, bounds
<1>1. /\ UNCHANGED <<row, challenge, queued, payment, opened, proved>>
      /\ ~Restart => UNCHANGED lock
  BY DEF Answer, Reload, Restart
<1>2. \A d \in Calls : call'[d] = call[d] \/ call'[d].at = "idle"
  <2>1. ASSUME NEW c \in Calls, Answer(c)
        PROVE  \A d \in Calls : call'[d] = call[d] \/ call'[d].at = "idle"
    <3>1. Others(c) /\ call'[c].at = "idle"
      BY <2>1, IdleFields DEF Answer
    <3>. QED
      BY <3>1 DEF Others
  <2>2. CASE Reload
    BY <2>2 DEF Reload
  <2>3. CASE Restart
    BY <2>3 DEF Restart, Idle
  <2>. QED
    BY <2>1, <2>2, <2>3
<1>3. ASSUME NEW d \in Calls
      PROVE  CallInv(d)'
  <2>1. CASE call'[d].at = "idle"
    BY <2>1 DEF CallInv, InLead
  <2>2. CASE call'[d].at # "idle"
    <3>1. call'[d] = call[d] /\ CallInv(d)
      BY <1>2, <2>2 DEF OtpInv, CallsInv
    <3>2. UNCHANGED lock
      BY <1>1, <2>2 DEF Restart, Idle
    <3>. QED
      BY <1>1, <3>1, <3>2 DEF CallInv
  <2>. QED
    BY <2>1, <2>2
<1>4. OnePays'
  BY <1>2 DEF OtpInv, CallsInv, OnePays, Paying
<1>5. (RowShape /\ VerifiedByCode /\ VersionsQueuedOnce)'
  BY <1>1 DEF OtpInv, RowShape, VerifiedByCode, VersionsQueuedOnce
<1>6. OfferIsBacked'
  <2>1. ASSUME NEW c \in Calls, Answer(c)
        PROVE  \A m \in Leads : page'.paying = m =>
                 page.paying = m \/ (payment[m] = "coded" /\ opened[m] = 1)
    <3>1. CallInv(c)
      BY DEF OtpInv, CallsInv
    <3>2. page \in [pending : Leads \cup {NoLead}, paying : Leads \cup {NoLead}]
      BY DEF TypeOK
    <3>3. \/ page'.paying = page.paying
          \/ call[c].res = "paymentUrl" /\ page'.paying = call[c].lead
      BY <2>1, <3>2 DEF Answer
    <3>. QED
      BY <2>1, <3>1, <3>3 DEF Answer, At, CallInv
  <2>2. CASE Reload
    <3>1. page'.paying = page.paying
      BY <2>2 DEF Reload, TypeOK
    <3>. QED
      BY <1>1, <3>1 DEF OtpInv, OfferIsBacked
  <2>3. CASE Restart
    BY <1>1, <2>3 DEF Restart, OtpInv, OfferIsBacked
  <2>. QED
    BY <1>1, <2>1, <2>2, <2>3 DEF OtpInv, OfferIsBacked
<1>. QED
  BY <1>3, <1>4, <1>5, <1>6 DEF OtpInv, CallsInv

LEMMA NextInv == TypeOK /\ OtpInv /\ [Next]_vars => OtpInv'
<1> SUFFICES ASSUME TypeOK, OtpInv, [Next]_vars
             PROVE  OtpInv'
  OBVIOUS
<1> USE DEF store, world, history, bounds
<1>a. ASSUME UNCHANGED <<row, challenge, lock, queued, payment, opened, page, call, proved>>
      PROVE  OtpInv'
  BY <1>a DEF OtpInv, CallsInv, CallInv, OnePays, RowShape, VerifiedByCode,
     VersionsQueuedOnce, OfferIsBacked
<1>1. ASSUME NEW c \in Calls, Step(c)
      PROVE  OtpInv'
  BY <1>1, QuietSteps, CreateInv, LockInv, CommitInv, PayRefused, PayInv, PageInv
     DEF Step
<1>2. CASE Reload \/ Restart
  BY <1>2, PageInv
<1>3. ASSUME NEW l \in Leads, Expire(l)
      PROVE  OtpInv'
  BY <1>3, <1>a DEF Expire
<1>4. ASSUME NEW f \in Form, EditForm(f)
      PROVE  OtpInv'
  BY <1>4, <1>a DEF EditForm
<1>5. CASE UNCHANGED vars
  BY <1>5, <1>a DEF vars
<1>. QED
  BY <1>1, <1>2, <1>3, <1>4, <1>5 DEF Next

LEMMA Invariance == Spec => [](TypeOK /\ OtpInv)
<1>1. Init => TypeOK /\ OtpInv
  BY InitTypeOK, InitInv
<1>2. OtpInv => CallsInv
  BY DEF OtpInv
<1>3. (TypeOK /\ OtpInv) /\ [Next]_vars => (TypeOK /\ OtpInv)'
  BY <1>2, NextTypeOK, NextInv
<1>. QED
  BY <1>1, <1>3, PTL DEF Spec

(***************************************************************************)
(* The rows, requests and pages of the one-time code keep their types.     *)
(***************************************************************************)
THEOREM OtpTypeCorrect == Spec => []TypeOK
  BY Invariance, PTL

(***************************************************************************)
(* A lead is VERIFIED only if its code was entered in time, and its        *)
(* challenge is used up exactly with it, however many requests overlap,    *)
(* fail or are cut off.                                                    *)
(***************************************************************************)
THEOREM CodeVerifies == Spec => []VerifiedByCode
<1>1. TypeOK /\ OtpInv => VerifiedByCode
  BY DEF OtpInv
<1>. QED
  BY <1>1, Invariance, PTL

(***************************************************************************)
(* An edge queues each version of a lead once and in order, and no two     *)
(* requests that accept the code make two versions.                        *)
(***************************************************************************)
THEOREM VersionsOnce == Spec => []VersionsQueuedOnce
<1>1. TypeOK /\ OtpInv => VersionsQueuedOnce
  BY DEF OtpInv
<1>. QED
  BY <1>1, Invariance, PTL

(***************************************************************************)
(* The gateway opens at most one payment of a lead, for a verified lead,   *)
(* and the visitor sent there has a payment whose code is stored.          *)
(***************************************************************************)
THEOREM OfferBacked == Spec => []OfferIsBacked
<1>1. TypeOK /\ OtpInv => OfferIsBacked
  BY DEF OtpInv
<1>. QED
  BY <1>1, Invariance, PTL
-----------------------------------------------------------------------------
(***************************************************************************)
(* WebhookDispatch.  What a run knows of its lead: it succeeded only if    *)
(* the receiver took the lead, and it posts again only while it has heard  *)
(* of no success.                                                          *)
(***************************************************************************)
\* The runs of a lead that may still hear of a success.
Hoping(l) ==
  {r \in Runs : lead[r] = l /\ \/ pc[r] \in {"post", "wait", "read", "mark", "repost"}
                               \/ pc[r] = "record" /\ ~good[r]}

HookTypes ==
  /\ status \in [HookLeads -> Hook!Status]
  /\ count \in [HookLeads -> Nat]
  /\ pc \in [Runs -> Hook!Steps]
  /\ lead \in [Runs -> HookLeads \cup {Nobody}]
  /\ good \in [Runs -> BOOLEAN]
  /\ tries \in [Runs -> Nat]
  /\ accepted \in [HookLeads -> Nat] /\ lost \in [HookLeads -> Nat]
  /\ started \in [HookLeads -> Nat]
  /\ \A r \in Runs : (pc[r] = "idle") = (lead[r] = Nobody)

\* A success was one of the receiver's.
GoodIsAccepted ==
  \A r \in Runs : good[r] => lead[r] # Nobody /\ accepted[lead[r]] > 0

\* Every success a run heard of, and every run that still hopes for one, is
\* another run that was started.
RunsAreCounted ==
  \A l \in HookLeads :
    /\ IsFiniteSet(Hoping(l))
    /\ accepted[l] + Cardinality(Hoping(l)) <= started[l] + lost[l]

\* Whoever may still write the status of a lead that was never taken is a run
\* of it, and writes FAILED.
UnlistedIsActive ==
  \A l \in HookLeads :
    started[l] > 0 /\ accepted[l] = 0 /\ l \notin disturbed =>
      status[l] = "FAILED" \/ Hook!Active(l)

HookInv == /\ HookTypes /\ GoodIsAccepted /\ UnlistedIsActive
           /\ Hook!SentIsAccepted

LEMMA InitHook == Hook!Init => HookInv /\ RunsAreCounted
<1> SUFFICES ASSUME Hook!Init
             PROVE  HookInv /\ RunsAreCounted
  OBVIOUS
<1>1. HookTypes
  BY DEF Hook!Init, HookTypes, Hook!Status, Hook!Steps
<1>2. GoodIsAccepted /\ UnlistedIsActive /\ Hook!SentIsAccepted
  BY DEF Hook!Init, GoodIsAccepted, UnlistedIsActive, Hook!SentIsAccepted
<1>3. \A l \in HookLeads : Hoping(l) = {}
  BY HookAssumption DEF Hook!Init, Hoping, Hook!DispatchAssumption
<1>4. RunsAreCounted
  <2> SUFFICES ASSUME NEW l \in HookLeads
               PROVE  /\ IsFiniteSet(Hoping(l))
                      /\ accepted[l] + Cardinality(Hoping(l)) <= started[l] + lost[l]
    BY DEF RunsAreCounted
  <2>1. IsFiniteSet(Hoping(l)) /\ Cardinality(Hoping(l)) = 0
    BY <1>3, FS_EmptySet
  <2>. QED BY <2>1 DEF Hook!Init
<1>. QED BY <1>1, <1>2, <1>4 DEF HookInv

\* A lead of which no run has begun to hope is as well accounted for as it was.
LEMMA StillCounted ==
  ASSUME HookTypes, NEW l \in HookLeads, IsFiniteSet(Hoping(l)),
         accepted[l] + Cardinality(Hoping(l)) <= started[l] + lost[l],
         Hoping(l)' \subseteq Hoping(l), UNCHANGED <<accepted, started, lost>>
  PROVE  /\ IsFiniteSet(Hoping(l)')
         /\ accepted'[l] + Cardinality(Hoping(l)') <= started'[l] + lost'[l]
<1>1. /\ IsFiniteSet(Hoping(l)') /\ Cardinality(Hoping(l)') <= Cardinality(Hoping(l))
      /\ Cardinality(Hoping(l)') \in Nat /\ Cardinality(Hoping(l)) \in Nat
  BY FS_Subset, FS_CardinalityType
<1>. QED BY <1>1 DEF HookTypes

LEMMA StartHook ==
  ASSUME HookInv, NEW r \in Runs, NEW l \in HookLeads, Hook!Dispatch(r, l) \/ Hook!Retry(r, l)
  PROVE  HookInv' /\ (RunsAreCounted => RunsAreCounted')
<1>1. PICK s \in {"post", "read"} : Hook!Start(r, l, s)
  BY DEF Hook!Dispatch, Hook!Retry
<1>2. /\ pc[r] = "idle" /\ lead[r] = Nobody
      /\ pc' = [pc EXCEPT ![r] = s] /\ lead' = [lead EXCEPT ![r] = l]
      /\ started' = [started EXCEPT ![l] = started[l] + 1]
      /\ UNCHANGED <<status, count, tries, good, accepted, lost, disturbed>>
  BY <1>1 DEF HookInv, HookTypes, Hook!Start, Hook!Goto, Hook!row, Hook!receiver
<1>3. Nobody \notin HookLeads
  BY HookAssumption DEF Hook!DispatchAssumption
<1>4. ~good[r]
  BY <1>2 DEF HookInv, GoodIsAccepted
<1>5. /\ pc' \in [Runs -> Hook!Steps] /\ lead' \in [Runs -> HookLeads \cup {Nobody}]
      /\ started' \in [HookLeads -> Nat]
      /\ pc'[r] = s /\ lead'[r] = l /\ started'[l] = started[l] + 1
      /\ \A q \in Runs : q # r => pc'[q] = pc[q] /\ lead'[q] = lead[q]
      /\ \A k \in HookLeads : k # l => started'[k] = started[k]
  BY <1>2 DEF HookInv, HookTypes, Hook!Steps
<1>6. HookTypes'
  BY <1>2, <1>3, <1>5 DEF HookInv, HookTypes
<1>7. GoodIsAccepted' /\ Hook!SentIsAccepted'
  BY <1>2, <1>4, <1>5 DEF HookInv, GoodIsAccepted, Hook!SentIsAccepted
<1>8. UnlistedIsActive'
  BY <1>2, <1>3, <1>5 DEF HookInv, UnlistedIsActive, Hook!Active
<1>9. ASSUME RunsAreCounted, NEW k \in HookLeads
      PROVE  /\ IsFiniteSet(Hoping(k)')
             /\ accepted'[k] + Cardinality(Hoping(k)') <= started'[k] + lost'[k]
  <2>0. IsFiniteSet(Hoping(k)) /\ accepted[k] + Cardinality(Hoping(k)) <= started[k] + lost[k]
    BY <1>9 DEF RunsAreCounted
  <2>1. CASE k = l
    <3>1. Hoping(l)' = Hoping(l) \cup {r} /\ r \notin Hoping(l)
      BY <1>2, <1>3, <1>5 DEF Hoping
    <3>2. IsFiniteSet(Hoping(l)') /\ Cardinality(Hoping(l)') = Cardinality(Hoping(l)) + 1
      BY <2>0, <2>1, <3>1, FS_AddElement
    <3>3. Cardinality(Hoping(l)) \in Nat
      BY <2>0, <2>1, FS_CardinalityType
    <3>. QED BY <1>2, <1>5, <2>0, <2>1, <3>2, <3>3 DEF HookInv, HookTypes
  <2>2. CASE k # l
    <3>1. Hoping(k)' = Hoping(k)
      BY <1>2, <1>3, <1>5, <2>2 DEF Hoping
    <3>. QED BY <1>2, <1>5, <2>0, <2>2, <3>1
  <2>. QED BY <2>1, <2>2
<1>. QED BY <1>6, <1>7, <1>8, <1>9 DEF HookInv, RunsAreCounted

\* What a step of one run leaves of the runs, when it keeps its lead.
LEMMA RunAfter ==
  ASSUME HookTypes, NEW r \in Runs, NEW s \in Hook!Steps, s # "idle", pc[r] # "idle",
         pc' = [pc EXCEPT ![r] = s], UNCHANGED lead
  PROVE  /\ pc' \in [Runs -> Hook!Steps] /\ pc'[r] = s
         /\ \A q \in Runs : q # r => pc'[q] = pc[q]
         /\ lead[r] \in HookLeads
         /\ \A q \in Runs : (pc'[q] = "idle") = (lead'[q] = Nobody)
         /\ \A l \in HookLeads : Hook!Active(l)' = Hook!Active(l)
  BY DEF HookTypes, Hook!Active

\* The steps of a run that neither post nor end it: it hopes no more than before.
LEMMA QuietRun ==
  ASSUME HookInv, NEW r \in Runs,
         Hook!ReadRow(r) \/ Hook!MarkPending(r) \/ Hook!Record(r) \/ Hook!WaitEnds(r)
  PROVE  HookInv' /\ (RunsAreCounted => RunsAreCounted')
<1>0. HookTypes
  BY DEF HookInv
<1>1. /\ UNCHANGED <<lead, good, accepted, lost, started, disturbed>> /\ pc[r] # "idle"
      /\ \E s \in {"mark", "repost", "post", "update", "wait", "reupdate"} :
           /\ pc' = [pc EXCEPT ![r] = s]
           /\ s \in {"mark", "repost", "post"} => pc[r] \in {"read", "mark", "wait"}
           /\ s = "wait" => pc[r] = "record" /\ ~good[r]
  BY DEF Hook!ReadRow, Hook!MarkPending, Hook!Record, Hook!WaitEnds, Hook!AfterRecord,
         Hook!NextStep, Hook!Goto, Hook!receiver, Hook!history, Hook!row
<1>2. PICK s \in Hook!Steps :
        /\ s # "idle" /\ pc' = [pc EXCEPT ![r] = s]
        /\ s \in {"mark", "repost", "post"} => pc[r] \in {"read", "mark", "wait"}
        /\ s = "wait" => pc[r] = "record" /\ ~good[r]
        /\ s \notin {"read", "record"}
  BY <1>1 DEF Hook!Steps
<1>3. /\ pc' \in [Runs -> Hook!Steps] /\ pc'[r] = s
      /\ \A q \in Runs : q # r => pc'[q] = pc[q]
      /\ lead[r] \in HookLeads
      /\ \A q \in Runs : (pc'[q] = "idle") = (lead'[q] = Nobody)
      /\ \A l \in HookLeads : Hook!Active(l)' = Hook!Active(l)
  BY <1>0, <1>1, <1>2, RunAfter
<1>4. count[lead[r]] \in Nat /\ tries' \in [Runs -> Nat]
  BY <1>0, <1>3 DEF HookTypes, Hook!ReadRow, Hook!MarkPending, Hook!Record, Hook!WaitEnds,
                    Hook!AttemptNumber
<1>5. \/ UNCHANGED <<status, count>>
      \/ /\ status' = [status EXCEPT ![lead[r]] = "PENDING"]
         /\ count' = [count EXCEPT ![lead[r]] = count[lead[r]] + 1]
  BY DEF Hook!ReadRow, Hook!MarkPending, Hook!Record, Hook!WaitEnds, Hook!SetStatus,
         Hook!row
<1>6. /\ status' \in [HookLeads -> Hook!Status] /\ count' \in [HookLeads -> Nat]
      /\ \A l \in HookLeads :
           \/ status'[l] = status[l] /\ count'[l] = count[l]
           \/ l = lead[r] /\ status'[l] = "PENDING"
  <2>1. CASE UNCHANGED <<status, count>>
    BY <1>0, <2>1 DEF HookTypes
  <2>2. CASE /\ status' = [status EXCEPT ![lead[r]] = "PENDING"]
             /\ count' = [count EXCEPT ![lead[r]] = count[lead[r]] + 1]
    BY <1>0, <1>3, <1>4, <2>2 DEF HookTypes, Hook!Status
  <2>. QED BY <1>5, <2>1, <2>2
<1>7. HookTypes'
  BY <1>0, <1>1, <1>3, <1>4, <1>6 DEF HookTypes
<1>8. GoodIsAccepted' /\ Hook!SentIsAccepted'
  BY <1>1, <1>6 DEF HookInv, GoodIsAccepted, Hook!SentIsAccepted
<1>9. UnlistedIsActive'
  <2>1. Hook!Active(lead[r])
    BY DEF Hook!Active
  <2>. QED BY <1>1, <1>3, <1>6, <2>1 DEF HookInv, UnlistedIsActive
<1>10. \A l \in HookLeads : Hoping(l)' \subseteq Hoping(l)
  BY <1>1, <1>2, <1>3 DEF Hoping
<1>11. RunsAreCounted => RunsAreCounted'
  BY <1>0, <1>1, <1>10, StillCounted DEF RunsAreCounted
<1>. QED BY <1>7, <1>8, <1>9, <1>11 DEF HookInv

LEMMA PostHook ==
  ASSUME HookInv, NEW r \in Runs, NEW ok \in BOOLEAN, NEW heard \in BOOLEAN,
         Hook!Post(r, ok, heard)
  PROVE  HookInv' /\ (RunsAreCounted => RunsAreCounted')
<1> DEFINE k == lead[r]
<1>0. HookTypes /\ pc[r] \in {"post", "repost"} /\ (heard => ok)
  BY DEF HookInv, Hook!Post
<1>1. /\ UNCHANGED <<status, count, lead, started, disturbed>>
      /\ good' = [good EXCEPT ![r] = heard]
      /\ accepted' = [accepted EXCEPT ![k] = IF ok THEN accepted[k] + 1 ELSE accepted[k]]
      /\ lost' = [lost EXCEPT ![k] = IF ok /\ ~heard THEN lost[k] + 1 ELSE lost[k]]
      /\ tries' \in [Runs -> Nat]
  <2>1. /\ UNCHANGED <<status, count, lead, started, disturbed>>
        /\ good' = [good EXCEPT ![r] = heard]
    BY DEF Hook!Post, Hook!row, Hook!history
  <2>2. /\ accepted' = [accepted EXCEPT ![k] = IF ok THEN accepted[k] + 1 ELSE accepted[k]]
        /\ lost' = [lost EXCEPT ![k] = IF ok /\ ~heard THEN lost[k] + 1 ELSE lost[k]]
    BY <1>0 DEF Hook!Post, HookTypes
  <2>3. tries' \in [Runs -> Nat]
    <3>1. tries' = [tries EXCEPT ![r] = tries[r] + 1] \/ tries' = tries
      BY DEF Hook!Post
    <3>. QED BY <1>0, <3>1 DEF HookTypes
  <2>. QED BY <2>1, <2>2, <2>3
<1>2. PICK s \in Hook!Steps :
        s = (IF pc[r] = "post" THEN "record" ELSE "rerecord") /\ pc' = [pc EXCEPT ![r] = s]
  BY DEF Hook!Post, Hook!Goto, Hook!Steps
<1>3. /\ pc' \in [Runs -> Hook!Steps] /\ pc'[r] = s
      /\ \A q \in Runs : q # r => pc'[q] = pc[q]
      /\ k \in HookLeads
      /\ \A q \in Runs : (pc'[q] = "idle") = (lead'[q] = Nobody)
      /\ \A l \in HookLeads : Hook!Active(l)' = Hook!Active(l)
  BY <1>0, <1>1, <1>2, RunAfter
<1>4. /\ good' \in [Runs -> BOOLEAN] /\ good'[r] = heard
      /\ \A q \in Runs : q # r => good'[q] = good[q]
      /\ accepted' \in [HookLeads -> Nat] /\ lost' \in [HookLeads -> Nat]
      /\ accepted'[k] = (IF ok THEN accepted[k] + 1 ELSE accepted[k])
      /\ lost'[k] = (IF ok /\ ~heard THEN lost[k] + 1 ELSE lost[k])
      /\ \A l \in HookLeads : l # k => accepted'[l] = accepted[l] /\ lost'[l] = lost[l]
  BY <1>0, <1>1, <1>3 DEF HookTypes
<1>5. HookTypes'
  BY <1>0, <1>1, <1>3, <1>4 DEF HookTypes
<1>6. \A l \in HookLeads : accepted[l] \in Nat /\ accepted'[l] >= accepted[l]
  BY <1>0, <1>3, <1>4 DEF HookTypes
<1>7. GoodIsAccepted'
  BY <1>0, <1>1, <1>3, <1>4, <1>6 DEF HookInv, GoodIsAccepted, HookTypes
<1>8. Hook!SentIsAccepted'
  BY <1>1, <1>6 DEF HookInv, Hook!SentIsAccepted
<1>9. UnlistedIsActive'
  BY <1>1, <1>3, <1>4, <1>6 DEF HookInv, UnlistedIsActive
<1>10. ASSUME RunsAreCounted, NEW l \in HookLeads
       PROVE  /\ IsFiniteSet(Hoping(l)')
              /\ accepted'[l] + Cardinality(Hoping(l)') <= started'[l] + lost'[l]
  <2>0. IsFiniteSet(Hoping(l)) /\ accepted[l] + Cardinality(Hoping(l)) <= started[l] + lost[l]
        /\ Cardinality(Hoping(l)) \in Nat
    BY <1>10, FS_CardinalityType DEF RunsAreCounted
  <2>1. Hoping(l)' \subseteq Hoping(l)
    BY <1>0, <1>1, <1>2, <1>3, <1>4 DEF Hoping
  <2>2. /\ IsFiniteSet(Hoping(l)') /\ Cardinality(Hoping(l)') <= Cardinality(Hoping(l))
        /\ Cardinality(Hoping(l)') \in Nat
    BY <2>0, <2>1, FS_Subset, FS_CardinalityType
  <2>3. CASE l = k /\ heard
    <3>1. r \in Hoping(k) /\ Hoping(k)' = Hoping(k) \ {r}
      BY <1>0, <1>1, <1>2, <1>3, <1>4, <2>3 DEF Hoping
    <3>2. Cardinality(Hoping(k)') = Cardinality(Hoping(k)) - 1
      BY <2>0, <2>3, <3>1, FS_RemoveElement
    <3>. QED BY <1>0, <1>1, <1>4, <2>0, <2>2, <2>3, <3>2 DEF HookTypes
  <2>4. CASE l # k \/ ~heard
    <3>1. /\ accepted[l] \in Nat /\ lost[l] \in Nat /\ started[l] \in Nat
          /\ started'[l] = started[l]
          /\ \/ accepted'[l] = accepted[l] /\ lost'[l] = lost[l]
             \/ accepted'[l] = accepted[l] + 1 /\ lost'[l] = lost[l] + 1
      BY <1>0, <1>1, <1>4, <2>4 DEF HookTypes
    <3>. QED BY <2>0, <2>2, <3>1
  <2>. QED BY <2>3, <2>4
<1>. QED BY <1>5, <1>7, <1>8, <1>9, <1>10 DEF HookInv, RunsAreCounted

\* A run that ends: by a write of the status, or by an error that is noted.
LEMMA EndedRun ==
  ASSUME HookInv, NEW r \in Runs, pc[r] # "idle", Hook!Finish(r)
  PROVE  /\ pc' \in [Runs -> Hook!Steps] /\ lead' \in [Runs -> HookLeads \cup {Nobody}]
         /\ tries' \in [Runs -> Nat] /\ good' \in [Runs -> BOOLEAN]
         /\ \A q \in Runs : (pc'[q] = "idle") = (lead'[q] = Nobody)
         /\ lead[r] \in HookLeads /\ ~good'[r]
         /\ \A q \in Runs : q # r => pc'[q] = pc[q] /\ lead'[q] = lead[q] /\ good'[q] = good[q]
         /\ \A l \in HookLeads : Hoping(l)' \subseteq Hoping(l)
         /\ \A l \in HookLeads : l # lead[r] /\ Hook!Active(l) => Hook!Active(l)'
<1>1. /\ pc' = [pc EXCEPT ![r] = "idle"] /\ lead' = [lead EXCEPT ![r] = Nobody]
      /\ tries' = [tries EXCEPT ![r] = 0] /\ good' = [good EXCEPT ![r] = FALSE]
  BY DEF Hook!Finish, Hook!Goto
<1>2. Nobody \notin HookLeads /\ HookTypes
  BY HookAssumption DEF HookInv, Hook!DispatchAssumption
<1>3. /\ pc' \in [Runs -> Hook!Steps] /\ lead' \in [Runs -> HookLeads \cup {Nobody}]
      /\ tries' \in [Runs -> Nat] /\ good' \in [Runs -> BOOLEAN]
      /\ pc'[r] = "idle" /\ lead'[r] = Nobody /\ ~good'[r] /\ lead[r] \in HookLeads
      /\ \A q \in Runs : q # r => pc'[q] = pc[q] /\ lead'[q] = lead[q] /\ good'[q] = good[q]
  BY <1>1, <1>2 DEF HookTypes, Hook!Steps
<1>4. \A q \in Runs : (pc'[q] = "idle") = (lead'[q] = Nobody)
  BY <1>2, <1>3 DEF HookTypes
<1>5. \A l \in HookLeads : Hoping(l)' \subseteq Hoping(l)
  BY <1>2, <1>3 DEF Hoping
<1>6. \A l \in HookLeads : l # lead[r] /\ Hook!Active(l) => Hook!Active(l)'
  BY <1>3 DEF Hook!Active
<1>. QED BY <1>3, <1>4, <1>5, <1>6

LEMMA EndHook ==
  ASSUME HookInv, NEW r \in Runs, Hook!Update(r) \/ Hook!UpdateRetry(r)
  PROVE  HookInv' /\ (RunsAreCounted => RunsAreCounted')
<1> DEFINE k == lead[r]
           s == Hook!Outcome(r)
<1>1. /\ UNCHANGED <<accepted, lost, started, disturbed>> /\ pc[r] # "idle"
      /\ Hook!Finish(r) /\ status' = [status EXCEPT ![k] = s]
      /\ count' = [count EXCEPT ![k] = tries[r]] \/ UNCHANGED count
  BY DEF Hook!Update, Hook!UpdateRetry, Hook!SetStatus, Hook!receiver, Hook!history
<1>2. /\ pc' \in [Runs -> Hook!Steps] /\ lead' \in [Runs -> HookLeads \cup {Nobody}]
      /\ tries' \in [Runs -> Nat] /\ good' \in [Runs -> BOOLEAN]
      /\ \A q \in Runs : (pc'[q] = "idle") = (lead'[q] = Nobody)
      /\ k \in HookLeads /\ ~good'[r]
      /\ \A q \in Runs : q # r => pc'[q] = pc[q] /\ lead'[q] = lead[q] /\ good'[q] = good[q]
      /\ \A l \in HookLeads : Hoping(l)' \subseteq Hoping(l)
      /\ \A l \in HookLeads : l # k /\ Hook!Active(l) => Hook!Active(l)'
  BY <1>1, EndedRun
<1>3. /\ s \in Hook!Status
      /\ s = "SENT" => accepted[k] > 0
      /\ accepted[k] = 0 => s = "FAILED"
  BY <1>2 DEF Hook!Outcome, Hook!Status, HookInv, GoodIsAccepted, HookTypes
<1> HIDE DEF s
<1>4. /\ status' \in [HookLeads -> Hook!Status] /\ count' \in [HookLeads -> Nat]
      /\ status'[k] = s
      /\ \A l \in HookLeads : l # k => status'[l] = status[l] /\ count'[l] = count[l]
  BY <1>1, <1>2, <1>3 DEF HookInv, HookTypes
<1>5. HookTypes'
  BY <1>1, <1>2, <1>4 DEF HookInv, HookTypes
<1>6. GoodIsAccepted'
  BY <1>1, <1>2 DEF HookInv, GoodIsAccepted
<1>7. Hook!SentIsAccepted'
  BY <1>1, <1>2, <1>3, <1>4 DEF HookInv, Hook!SentIsAccepted
<1>8. UnlistedIsActive'
  BY <1>1, <1>2, <1>3, <1>4 DEF HookInv, UnlistedIsActive
<1>9. RunsAreCounted => RunsAreCounted'
  BY <1>1, <1>2, StillCounted DEF RunsAreCounted, HookInv
<1>. QED BY <1>5, <1>6, <1>7, <1>8, <1>9 DEF HookInv

LEMMA DbErrorHook ==
  ASSUME HookInv, NEW r \in Runs, Hook!DbError(r)
  PROVE  HookInv' /\ (RunsAreCounted => RunsAreCounted')
<1>0. /\ UNCHANGED <<status, count, accepted, lost, started>> /\ pc[r] # "idle"
      /\ disturbed' = disturbed \cup {lead[r]} /\ HookTypes
  BY DEF Hook!DbError, Hook!receiver, Hook!history, Hook!row, HookInv
<1>1. CASE Hook!Finish(r)
  <2>1. /\ pc' \in [Runs -> Hook!Steps] /\ lead' \in [Runs -> HookLeads \cup {Nobody}]
        /\ tries' \in [Runs -> Nat] /\ good' \in [Runs -> BOOLEAN]
        /\ \A q \in Runs : (pc'[q] = "idle") = (lead'[q] = Nobody)
        /\ lead[r] \in HookLeads /\ ~good'[r]
        /\ \A q \in Runs : q # r => pc'[q] = pc[q] /\ lead'[q] = lead[q] /\ good'[q] = good[q]
        /\ \A l \in HookLeads : Hoping(l)' \subseteq Hoping(l)
        /\ \A l \in HookLeads : l # lead[r] /\ Hook!Active(l) => Hook!Active(l)'
    BY <1>0, <1>1, EndedRun
  <2>2. HookTypes'
    BY <1>0, <2>1 DEF HookTypes
  <2>3. GoodIsAccepted' /\ Hook!SentIsAccepted' /\ UnlistedIsActive'
    BY <1>0, <2>1 DEF HookInv, GoodIsAccepted, Hook!SentIsAccepted, UnlistedIsActive
  <2>4. RunsAreCounted => RunsAreCounted'
    BY <1>0, <2>1, StillCounted DEF RunsAreCounted
  <2>. QED BY <2>2, <2>3, <2>4 DEF HookInv
<1>2. CASE ~Hook!Finish(r)
  <2>1. /\ UNCHANGED <<lead, tries>> /\ good' \in [Runs -> BOOLEAN]
        /\ \A q \in Runs : good'[q] => good[q]
        /\ \E s \in {"wait", "update", "reupdate", "rerecord"} :
             /\ pc' = [pc EXCEPT ![r] = s]
             /\ s = "wait" => pc[r] = "record" /\ ~good[r]
    BY <1>0, <1>2 DEF Hook!DbError, Hook!AfterRecord, Hook!NextStep, Hook!Goto, HookTypes
  <2>2. PICK s \in Hook!Steps :
          /\ s \notin {"idle", "post", "read", "mark", "repost", "record"}
          /\ pc' = [pc EXCEPT ![r] = s]
          /\ s = "wait" => pc[r] = "record" /\ ~good[r]
    BY <2>1 DEF Hook!Steps
  <2>3. /\ pc' \in [Runs -> Hook!Steps] /\ pc'[r] = s
        /\ \A q \in Runs : q # r => pc'[q] = pc[q]
        /\ \A q \in Runs : (pc'[q] = "idle") = (lead'[q] = Nobody)
        /\ \A l \in HookLeads : Hook!Active(l)' = Hook!Active(l)
    BY <1>0, <2>1, <2>2, RunAfter
  <2>4. HookTypes'
    BY <1>0, <2>1, <2>3 DEF HookTypes
  <2>5. GoodIsAccepted' /\ Hook!SentIsAccepted' /\ UnlistedIsActive'
    BY <1>0, <2>1, <2>3 DEF HookInv, GoodIsAccepted, Hook!SentIsAccepted, UnlistedIsActive
  <2>6. \A q \in Runs : q # r => good'[q] = good[q]
    BY <1>0, <1>2 DEF Hook!DbError, HookTypes
  <2>7. \A l \in HookLeads : Hoping(l)' \subseteq Hoping(l)
    BY <2>1, <2>2, <2>3, <2>6 DEF Hoping
  <2>8. RunsAreCounted => RunsAreCounted'
    BY <1>0, <2>7, StillCounted DEF RunsAreCounted
  <2>. QED BY <2>4, <2>5, <2>8 DEF HookInv
<1>. QED BY <1>1, <1>2

LEMMA RestartHook ==
  ASSUME HookInv, Hook!Restart
  PROVE  HookInv' /\ (RunsAreCounted => RunsAreCounted')
<1>1. /\ UNCHANGED <<status, count, accepted, lost, started>> /\ HookTypes
      /\ disturbed' = disturbed \cup {l \in HookLeads : Hook!Active(l)}
      /\ pc' = [r \in Runs |-> "idle"] /\ lead' = [r \in Runs |-> Nobody]
      /\ tries' = [r \in Runs |-> 0] /\ good' = [r \in Runs |-> FALSE]
  BY DEF Hook!Restart, Hook!receiver, Hook!history, Hook!row, HookInv
<1>2. HookTypes'
  BY <1>1 DEF HookTypes, Hook!Steps
<1>3. GoodIsAccepted' /\ Hook!SentIsAccepted' /\ UnlistedIsActive'
  BY <1>1 DEF HookInv, GoodIsAccepted, Hook!SentIsAccepted, UnlistedIsActive
<1>4. \A l \in HookLeads : Hoping(l)' \subseteq Hoping(l)
  BY <1>1, HookAssumption DEF Hoping, Hook!DispatchAssumption
<1>5. RunsAreCounted => RunsAreCounted'
  BY <1>1, <1>4, StillCounted DEF RunsAreCounted
<1>. QED BY <1>2, <1>3, <1>5 DEF HookInv

LEMMA NextHook ==
  HookInv /\ RunsAreCounted /\ [Hook!Next]_hookVars => HookInv' /\ RunsAreCounted'
<1> SUFFICES ASSUME HookInv, RunsAreCounted, [Hook!Next]_hookVars
             PROVE  HookInv' /\ RunsAreCounted'
  OBVIOUS
<1>1. CASE UNCHANGED hookVars
  BY <1>1 DEF hookVars, HookInv, HookTypes, GoodIsAccepted, UnlistedIsActive, RunsAreCounted,
              Hoping, Hook!SentIsAccepted, Hook!Active
<1>2. CASE \E r \in Runs, l \in HookLeads : Hook!Dispatch(r, l) \/ Hook!Retry(r, l)
  BY <1>2, StartHook
<1>3. ASSUME NEW r \in Runs, Hook!RunStep(r)
      PROVE  HookInv' /\ RunsAreCounted'
  BY <1>3, QuietRun, PostHook, EndHook DEF Hook!RunStep
<1>. QED BY <1>1, <1>2, <1>3, DbErrorHook, RestartHook DEF Hook!Next

LEMMA HookInvariance == PartSpec => [](HookInv /\ RunsAreCounted)
<1>1. PartInit => HookInv /\ RunsAreCounted
  BY InitHook DEF PartInit
<1>2. HookInv /\ RunsAreCounted /\ [PartNext]_<<part, vars, hookVars>>
        => (HookInv /\ RunsAreCounted)'
  BY NextHook DEF PartNext, OtpPart, WebhookPart
<1>. QED BY <1>1, <1>2, PTL DEF PartSpec

(***************************************************************************)
(* The receiver gets a lead more often than runs were started for it only  *)
(* if answers of its were lost, however dispatches and retries overlap and *)
(* the process restarts.                                                   *)
(***************************************************************************)
THEOREM RepeatsAccounted == PartSpec => []HookRepeatsAreAccounted
<1>1. HookInv /\ RunsAreCounted => HookRepeatsAreAccounted
  <2> SUFFICES ASSUME HookInv, RunsAreCounted, NEW l \in HookLeads
               PROVE  accepted[l] <= started[l] + lost[l]
    BY DEF HookRepeatsAreAccounted, Hook!RepeatsAreAccounted
  <2>1. Cardinality(Hoping(l)) \in Nat
    BY FS_CardinalityType DEF RunsAreCounted
  <2>. QED BY <2>1 DEF RunsAreCounted, HookInv, HookTypes
<1>. QED BY <1>1, HookInvariance, PTL

(***************************************************************************)
(* A lead that the receiver never took is listed as failed once its runs   *)
(* are over, in whatever order they wrote; unless one was cut by a restart *)
(* or by a database error.                                                 *)
(***************************************************************************)
THEOREM UndeliveredListed == PartSpec => []HookUndeliveredIsListed
<1>1. HookInv => HookUndeliveredIsListed
  BY DEF HookInv, UnlistedIsActive, HookUndeliveredIsListed, Hook!UndeliveredIsListed,
         Hook!Listed
<1>. QED BY <1>1, HookInvariance, PTL

(***************************************************************************)
(* A row that counts an attempt says SENT only of a lead the receiver has, *)
(* whatever overlaps, fails or is cut.                                     *)
(***************************************************************************)
THEOREM SentAccepted == PartSpec => [](Hook!SentIsAccepted)
<1>1. HookInv => Hook!SentIsAccepted
  BY DEF HookInv
<1>. QED BY <1>1, HookInvariance, PTL
=============================================================================
