---------------------------- MODULE OtpVerification ----------------------------
(***************************************************************************)
(* A form with a one-time code: the page script the panel generates        *)
(* (buildLandingFormScript) and FormEngineService's requestOtp and         *)
(* verifyOtp, on an edge or on the master.  The page's submit handler does *)
(* not wait for itself: a second click starts a second call.  A call takes *)
(* a step per database or gateway call.  Transactions are PostgreSQL's     *)
(* (READ COMMITTED): a call's writes show when it commits, and an update   *)
(* of a row waits for the transaction that has written it.  The SMS and    *)
(* payment gateways are external.                                          *)
(***************************************************************************)
EXTENDS Naturals, Sequences

CONSTANTS
  IsEdge,     \* the role of the installation
  Leads,      \* submission ids
  NoLead,     \* null
  Calls,      \* identities of the running requests
  Nobody,     \* no call
  Faults,     \* which of "gateway", "lost", "sms", "db", "restart" may happen
  MaxFaults,  \* bound: how many of them
  MaxEdits,   \* bound: changes of the form and deletions of its product
  MaxWrong    \* bound: wrong codes entered for a lead

ASSUME OtpAssumption ==
  /\ IsEdge \in BOOLEAN
  /\ NoLead \notin Leads /\ Nobody \notin Calls
  /\ MaxFaults \in Nat /\ MaxEdits \in Nat /\ MaxWrong \in Nat

VARIABLES
  form,       \* the form's switches, and whether its product exists
  row,        \* otpStatus and syncVersion of each FormSubmission
  challenge,  \* its OtpChallenge: verifiedAt is set, attempts
  lock,       \* the call whose open transaction has written the lead's row
  queued,     \* the versions of each lead in OutboxEvent, in order
  payment,    \* its Payment row: "none", "new" (no payCode), "coded"
  call,       \* the requests being handled
  page,       \* pendingOtpSubmissionId, and the lead whose payment it went to
  expired,    \* the leads whose expiresAt is past
  texted,     \* the leads whose code the SMS gateway took
  opened,     \* how many payments the gateway opened for each lead
  sentTo,     \* how often each lead was dispatched to the webhook
  proved,     \* history: the leads whose code was entered in time
  wrong,      \* history: the wrong codes entered in time for each lead
  promised,   \* history: the leads whose visitor was told a code is on its way
  thanked,    \* history: the leads whose visitor was told all is done
  faults, edits

store    == <<row, challenge, lock, queued, payment>>
world    == <<texted, opened, sentTo>>
history  == <<proved, wrong, promised, thanked>>
bounds   == <<faults, edits>>
vars     == <<form, store, call, page, expired, world, history, bounds>>

Form      == [otp : BOOLEAN, pay : BOOLEAN, product : BOOLEAN]
NoRow     == [otp |-> "NONE", ver |-> 0]
Row       == [otp : {"UNVERIFIED", "VERIFIED"}, ver : {1, 2}] \cup {NoRow}
Challenge == [verified : BOOLEAN, attempts : Nat]
Steps     == {"idle", "reqform", "create", "sms", "verform", "read", "count",
              "throw", "update", "commit", "product", "pay", "open", "code",
              "dispatch", "answer"}
Results   == {"none", "requested", "verified", "paymentUrl", "error"}
Idle      == [at |-> "idle", lead |-> NoLead, form |-> [otp |-> FALSE,
              pay |-> FALSE, product |-> FALSE], right |-> FALSE, bump |-> 0,
              won |-> FALSE, res |-> "none"]
Call      == [at : Steps, lead : Leads \cup {NoLead}, form : Form,
              right : BOOLEAN, bump : {0, 1}, won : BOOLEAN, res : Results]

TypeOK ==
  /\ form \in Form
  /\ row \in [Leads -> Row]
  /\ challenge \in [Leads -> Challenge]
  /\ lock \in [Leads -> Calls \cup {Nobody}]
  /\ queued \in [Leads -> Seq({1, 2})]
  /\ payment \in [Leads -> {"none", "new", "coded"}]
  /\ call \in [Calls -> Call]
  /\ page \in [pending : Leads \cup {NoLead}, paying : Leads \cup {NoLead}]
  /\ expired \subseteq Leads /\ texted \subseteq Leads
  /\ opened \in [Leads -> Nat] /\ sentTo \in [Leads -> Nat]
  /\ proved \subseteq Leads /\ wrong \in [Leads -> Nat]
  /\ promised \subseteq Leads /\ thanked \subseteq Leads
  /\ faults \in Nat /\ edits \in Nat

Init ==
  /\ form \in {f \in Form : f.otp /\ f.product}
  /\ row = [l \in Leads |-> NoRow]
  /\ challenge = [l \in Leads |-> [verified |-> FALSE, attempts |-> 0]]
  /\ lock = [l \in Leads |-> Nobody]
  /\ queued = [l \in Leads |-> <<>>]
  /\ payment = [l \in Leads |-> "none"]
  /\ call = [c \in Calls |-> Idle]
  /\ page = [pending |-> NoLead, paying |-> NoLead]
  /\ expired = {} /\ texted = {}
  /\ opened = [l \in Leads |-> 0] /\ sentTo = [l \in Leads |-> 0]
  /\ proved = {} /\ wrong = [l \in Leads |-> 0]
  /\ promised = {} /\ thanked = {}
  /\ faults = 0 /\ edits = 0

At(c, step)   == call[c].at = step
Goto(c, step) == call' = [call EXCEPT ![c].at = step]
Respond(c, r) == call' = [call EXCEPT ![c].at = "answer", ![c].res = r]
Fails(kind)   == /\ kind \in Faults /\ faults < MaxFaults
                 /\ faults' = faults + 1
-----------------------------------------------------------------------------
(* The page.  Without a pending submission a click asks for a code, ...    *)
ClickSubmit(c) ==
  /\ At(c, "idle") /\ page.paying = NoLead /\ page.pending = NoLead
  /\ call' = [call EXCEPT ![c].at = "reqform"]
  /\ UNCHANGED <<form, store, page, expired, world, history, bounds>>

(* ... with one it prompts for the code, which only a message can tell.    *)
EnterCode(c, right) ==
  LET l == page.pending
  IN  /\ At(c, "idle") /\ page.paying = NoLead /\ l # NoLead
      /\ right => l \in texted
      /\ ~right => wrong[l] < MaxWrong
      /\ call' = [call EXCEPT ![c] = [@ EXCEPT !.at = "verform", !.lead = l,
                                               !.right = right]]
      /\ UNCHANGED <<form, store, page, expired, world, history, bounds>>

(* A reload while a call is running is a lost answer and this. *)
Reload ==
  /\ page.paying = NoLead /\ page.pending # NoLead
  /\ \A c \in Calls : At(c, "idle")
  /\ page' = [page EXCEPT !.pending = NoLead]
  /\ UNCHANGED <<form, store, call, expired, world, history, bounds>>

(* The answer arrives.  A page that has gone to the gateway ignores it.    *)
Answer(c) ==
  LET l == call[c].lead
      r == call[c].res
      here == page.paying = NoLead
  IN  /\ At(c, "answer")
      /\ call' = [call EXCEPT ![c] = Idle]
      /\ page' = IF ~here \/ r = "error" THEN page
                 ELSE IF r = "requested" THEN [page EXCEPT !.pending = l]
                 ELSE IF r = "paymentUrl" THEN [page EXCEPT !.paying = l]
                 ELSE [page EXCEPT !.pending = NoLead]
      /\ promised' = promised \cup {x \in {l} : here /\ r = "requested"}
      /\ thanked' = thanked \cup {x \in {l} : here /\ r = "verified"}
      /\ UNCHANGED <<form, store, expired, world, proved, wrong, bounds>>

LoseAnswer(c) ==
  /\ At(c, "answer") /\ call[c].res # "error"
  /\ Fails("lost")
  /\ call' = [call EXCEPT ![c] = Idle]
  /\ UNCHANGED <<form, store, page, expired, world, history, edits>>
-----------------------------------------------------------------------------
(* requestOtp: getByKey, ... *)
RequestForm(c) ==
  /\ At(c, "reqform")
  /\ IF form.otp
       THEN call' = [call EXCEPT ![c] = [@ EXCEPT !.at = "create", !.form = form]]
       ELSE Respond(c, "error")
  /\ UNCHANGED <<form, store, page, expired, world, history, bounds>>

(* ... the transaction that creates lead, challenge and outbox row, ...    *)
CreateLead(c, l) ==
  /\ At(c, "create") /\ row[l] = NoRow
  /\ row' = [row EXCEPT ![l] = [otp |-> "UNVERIFIED", ver |-> 1]]
  /\ queued' = [queued EXCEPT ![l] = IF IsEdge THEN <<1>> ELSE @]
  /\ call' = [call EXCEPT ![c] = [@ EXCEPT !.at = "sms", !.lead = l]]
  /\ UNCHANGED <<form, challenge, lock, payment, page, expired, world, history,
                 bounds>>

(* ... sendLookupOtp, whose result nobody reads, and, on the master,       *)
(* dispatchSubmission.                                                     *)
DispatchRequested(l) == ~IsEdge

SendCode(c, took) ==
  LET l == call[c].lead
  IN  /\ At(c, "sms")
      /\ IF took THEN faults' = faults ELSE Fails("sms")
      /\ texted' = IF took THEN texted \cup {l} ELSE texted
      /\ sentTo' = IF DispatchRequested(l) THEN [sentTo EXCEPT ![l] = @ + 1]
                                           ELSE sentTo
      /\ Respond(c, "requested")
      /\ UNCHANGED <<form, store, page, expired, opened, history, edits>>
-----------------------------------------------------------------------------
(* verifyOtp: getByKey, ... *)
VerifyForm(c) ==
  /\ At(c, "verform")
  /\ IF form.otp
       THEN call' = [call EXCEPT ![c] = [@ EXCEPT !.at = "read", !.form = form]]
       ELSE Respond(c, "error")
  /\ UNCHANGED <<form, store, page, expired, world, history, bounds>>

\* wrong InTime, for mutation: expiresAt is not read
InTimeAlways(l) == TRUE

InTime(l)  == l \notin expired
Matches(c) == call[c].right

(* ... the challenge in a transaction, ... *)
ReadChallenge(c) ==
  LET l == call[c].lead
  IN  /\ At(c, "read")
      /\ IF challenge[l].verified \/ row[l].otp = "VERIFIED"
           THEN Goto(c, "dispatch")
         ELSE IF ~InTime(l) THEN Respond(c, "error")
         ELSE Goto(c, IF Matches(c) THEN "update" ELSE "count")
      /\ LET tried == ~challenge[l].verified /\ l \notin expired
         IN  /\ proved' = IF tried /\ call[c].right THEN proved \cup {l}
                                                    ELSE proved
             /\ wrong' = IF tried /\ ~call[c].right
                           THEN [wrong EXCEPT ![l] = @ + 1] ELSE wrong
      /\ UNCHANGED <<form, store, page, expired, world, promised, thanked, bounds>>

(* ... for a wrong code an increment of attempts, a write of the open      *)
(* transaction, ...                                                        *)
CountAttempt(c) ==
  /\ At(c, "count")
  /\ call' = [call EXCEPT ![c] = [@ EXCEPT !.at = "throw", !.bump = 1]]
  /\ UNCHANGED <<form, store, page, expired, world, history, bounds>>

(* ... that the exception rolls back; *)
ThrowInvalid(c) ==
  /\ At(c, "throw")
  /\ call' = [call EXCEPT ![c] = [@ EXCEPT !.at = "answer", !.bump = 0,
                                           !.res = "error"]]
  /\ UNCHANGED <<form, store, page, expired, world, history, bounds>>

\* wrong version of Updates, for the mutation runs: by id alone
UpdatesAnyway(l) == TRUE
Updates(l) == row[l].otp = "UNVERIFIED"

(* updateMany with otpStatus in its condition, after a transaction that    *)
(* holds the row has ended, ...                                            *)
UpdateLead(c) ==
  LET l == call[c].lead
  IN  /\ At(c, "update") /\ lock[l] = Nobody
      /\ IF Updates(l)
           THEN lock' = [lock EXCEPT ![l] = c] /\ Goto(c, "commit")
           ELSE lock' = lock /\ Goto(c, "dispatch")
      /\ UNCHANGED <<form, row, challenge, queued, payment, page, expired,
                     world, history, bounds>>

NextStep(c) == IF call[c].form.pay THEN "product" ELSE "dispatch"

(* ... the challenge and the outbox row, and the end of the transaction.   *)
Commit(c) ==
  LET l == call[c].lead
      ver == row[l].ver + 1
  IN  /\ At(c, "commit")
      /\ row' = [row EXCEPT ![l] = [otp |-> "VERIFIED", ver |-> ver]]
      /\ challenge' = [challenge EXCEPT
                         ![l] = [verified |-> TRUE,
                                 attempts |-> @.attempts + call[c].bump]]
      /\ queued' = [queued EXCEPT ![l] = IF IsEdge THEN Append(@, ver) ELSE @]
      /\ lock' = [lock EXCEPT ![l] = Nobody]
      /\ call' = [call EXCEPT ![c] = [@ EXCEPT !.won = TRUE, !.at = NextStep(c)]]
      /\ UNCHANGED <<form, payment, page, expired, world, history, bounds>>

(* The transaction runs into its time limit or the database fails.         *)
Abort(c) ==
  LET l == call[c].lead
  IN  /\ call[c].at \in {"create", "read", "count", "update", "commit"}
      /\ Fails("db")
      /\ lock' = IF At(c, "commit") THEN [lock EXCEPT ![l] = Nobody] ELSE lock
      /\ Respond(c, "error")
      /\ UNCHANGED <<form, row, challenge, queued, payment, page, expired,
                     world, history, edits>>
-----------------------------------------------------------------------------
(* The payment, of the call that won: product.findUnique, ... *)
FindProduct(c) ==
  /\ At(c, "product")
  /\ Goto(c, IF form.product THEN "pay" ELSE "dispatch")
  /\ UNCHANGED <<form, store, page, expired, world, history, bounds>>

(* ... payment.create (submissionId is unique), ... *)
CreatePayment(c) ==
  LET l == call[c].lead
  IN  /\ At(c, "pay")
      /\ IF payment[l] = "none" /\ form.product
           THEN payment' = [payment EXCEPT ![l] = "new"] /\ Goto(c, "open")
           ELSE payment' = payment /\ Respond(c, "error")
      /\ UNCHANGED <<form, row, challenge, lock, queued, page, expired, world,
                     history, bounds>>

(* ... the gateway's payment, ... *)
OpenPayment(c) ==
  /\ At(c, "open")
  /\ opened' = [opened EXCEPT ![call[c].lead] = @ + 1]
  /\ Goto(c, "code")
  /\ UNCHANGED <<form, store, page, expired, texted, sentTo, history, bounds>>

(* (which may be refused, or opened without the answer arriving) ... *)
OpenFails(c, done) ==
  /\ At(c, "open")
  /\ Fails("gateway")
  /\ opened' = IF done THEN [opened EXCEPT ![call[c].lead] = @ + 1] ELSE opened
  /\ Respond(c, "error")
  /\ UNCHANGED <<form, store, page, expired, texted, sentTo, history, edits>>

\* wrong Coded, for mutation: payCode is not stored
Uncoded == "new"
Coded == "coded"

(* ... and payment.update with its code. *)
StoreCode(c) ==
  /\ At(c, "code")
  /\ payment' = [payment EXCEPT ![call[c].lead] = Coded]
  /\ Respond(c, "paymentUrl")
  /\ UNCHANGED <<form, row, challenge, lock, queued, page, expired, world,
                 history, bounds>>

CallFails(c) ==
  /\ call[c].at \in {"product", "pay", "code"}
  /\ Fails("db")
  /\ Respond(c, "error")
  /\ UNCHANGED <<form, store, page, expired, world, history, edits>>

\* wrong version of DispatchVerified, for the mutation runs
DispatchEach(c) == ~IsEdge /\ ~call[c].form.pay
DispatchVerified(c) == call[c].won /\ ~IsEdge /\ ~call[c].form.pay

(* Without a payment: the webhook, and an answer without a paymentUrl.     *)
EndVerify(c) ==
  LET l == call[c].lead
  IN  /\ At(c, "dispatch")
      /\ sentTo' = IF DispatchVerified(c) THEN [sentTo EXCEPT ![l] = @ + 1]
                                          ELSE sentTo
      /\ Respond(c, "verified")
      /\ UNCHANGED <<form, store, page, expired, texted, opened, history, bounds>>
-----------------------------------------------------------------------------
(* The environment: two minutes pass, the form is edited (the master's     *)
(* panel, or a form event on an edge), its product is deleted, the process *)
(* stops and its transactions roll back.                                   *)
Expire(l) ==
  /\ row[l] # NoRow /\ l \notin expired
  /\ expired' = expired \cup {l}
  /\ UNCHANGED <<form, store, call, page, world, history, bounds>>

EditForm(f) ==
  /\ edits < MaxEdits /\ f # form
  /\ f.product => form.product
  /\ form' = f /\ edits' = edits + 1
  /\ UNCHANGED <<store, call, page, expired, world, history, faults>>

Restart ==
  /\ \E c \in Calls : ~At(c, "idle")
  /\ Fails("restart")
  /\ call' = [c \in Calls |-> Idle]
  /\ lock' = [l \in Leads |-> Nobody]
  /\ UNCHANGED <<form, row, challenge, queued, payment, page, expired, world,
                 history, edits>>
-----------------------------------------------------------------------------
Step(c) ==
  \/ ClickSubmit(c) \/ EnterCode(c, TRUE) \/ EnterCode(c, FALSE)
  \/ Answer(c) \/ LoseAnswer(c)
  \/ RequestForm(c) \/ \E l \in Leads : CreateLead(c, l)
  \/ SendCode(c, TRUE) \/ SendCode(c, FALSE)
  \/ VerifyForm(c) \/ ReadChallenge(c) \/ CountAttempt(c) \/ ThrowInvalid(c)
  \/ UpdateLead(c) \/ Commit(c) \/ Abort(c)
  \/ FindProduct(c) \/ CreatePayment(c) \/ OpenPayment(c)
  \/ OpenFails(c, TRUE) \/ OpenFails(c, FALSE) \/ StoreCode(c) \/ CallFails(c)
  \/ EndVerify(c)

Next ==
  \/ \E c \in Calls : Step(c)
  \/ Reload \/ Restart
  \/ \E l \in Leads : Expire(l)
  \/ \E f \in Form : EditForm(f)

Spec == Init /\ [][Next]_vars
-----------------------------------------------------------------------------
(* Whatever calls overlap, abort or are cut off, a lead is VERIFIED only   *)
(* if its code was entered in time (verifyOtp's checks precede its         *)
(* update), and its challenge is used up exactly with it.                  *)
VerifiedByCode ==
  \A l \in Leads :
    /\ row[l].otp = "VERIFIED" => l \in proved
    /\ challenge[l].verified = (row[l].otp = "VERIFIED")

(* The edge queues every version of a lead once and in order, and two      *)
(* calls that both accept the code make one version of it: updateMany's    *)
(* condition decides.                                                      *)
VersionsQueuedOnce ==
  \A l \in Leads :
    /\ row[l].ver <= 2
    /\ Len(queued[l]) = IF IsEdge THEN row[l].ver ELSE 0
    /\ \A i \in 1..Len(queued[l]) : queued[l][i] = i

(* A payment belongs to a verified lead, the gateway opens at most one for *)
(* it, and a visitor sent there comes back with the code its row knows     *)
(* (payment.update precedes the answer).                                   *)
OfferIsBacked ==
  \A l \in Leads :
    /\ payment[l] # "none" => row[l].otp = "VERIFIED"
    /\ opened[l] <= 1
    /\ page.paying = l => payment[l] = "coded" /\ opened[l] = 1

(* The webhook hears of a lead of the master at most once per version,     *)
(* whatever is repeated, and of a lead of an edge never from the edge.     *)
OneDispatchPerVersion ==
  \A l \in Leads : sentTo[l] <= IF IsEdge THEN 0 ELSE row[l].ver

(* sync-consumer.controller.ts:469: a form with payment is dispatched only *)
(* after a successful payment; verifyOtp keeps to it, requestOtp does not. *)
UnpaidIsNotDispatched ==
  form.pay => \A l \in Leads : sentTo[l] = 0

(* form-editor.hbs:279: after the form is registered, its user is sent to  *)
(* the gateway.  Once no call is running, a visitor of a paid form who was *)
(* told that all is done has been there.                                   *)
ThankedIsOffered ==
  form.pay /\ (\A c \in Calls : At(c, "idle"))
    => \A l \in thanked : page.paying = l

(* admin.js:1005: the visitor who is told a code was sent is sent one.     *)
PromisedIsTexted == promised \subseteq texted

(* form-engine.service.ts:369: every wrong code counts.                    *)
WrongCodesAreCounted ==
  (\A c \in Calls : At(c, "idle"))
    => \A l \in Leads : challenge[l].attempts = wrong[l]
=============================================================================
