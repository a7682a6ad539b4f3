---------------------------- MODULE WebhookDispatch ----------------------------
(***************************************************************************)
(* Sending a lead to the form's webhook on the master: WebhookService's    *)
(* dispatch, with its three attempts minutes apart, and the panel's        *)
(* retryFailedWebhook.  A run is one call of either; several may run for   *)
(* one lead (requestOtp, verifyOtp and handlePaymentSuccess each start a   *)
(* dispatch without waiting for it, and the panel's button can be pressed  *)
(* twice).  The receiver is external: it accepts a POST or not, and its    *)
(* answer may be lost.  The Google Sheet call neither waits nor writes.    *)
(***************************************************************************)
EXTENDS Naturals, Sequences, SequencesExt

CONSTANTS
  Leads,       \* submissions of a form with a webhookUrl
  Runs,        \* identities of the running calls
  Nobody,      \* the lead of a run that does not run
  MaxRuns,     \* bound: the calls for one lead
  MaxDbErrors, \* bound: the database calls that fail
  MaxRestarts  \* bound: the restarts of the process

DispatchAssumption ==
  /\ Nobody \notin Leads
  /\ MaxRuns \in Nat /\ MaxDbErrors \in Nat /\ MaxRestarts \in Nat

VARIABLES
  status,      \* webhookStatus of each lead's row
  count,       \* its webhookAttempts
  log,         \* its WebhookInvocation rows, in order
  pc,          \* the step each run is about to take
  lead,        \* its lead
  tries,       \* `attempts` of a dispatch, `attempt` of a retry
  good,        \* whether its last POST succeeded
  accepted,    \* how often the receiver accepted each lead
  lost,        \* how many of those answers never arrived
  started,     \* history: how many runs each lead had
  overlapped,  \* history: the leads of which two runs overlapped
  disturbed,   \* history: the leads of which a run was cut or a write failed
  dbErrors, restarts

row      == <<status, count, log>>
local    == <<pc, lead, tries, good>>
receiver == <<accepted, lost>>
history  == <<started, overlapped>>
bounds   == <<dbErrors, restarts>>
vars     == <<row, local, receiver, history, disturbed, bounds>>

MaxRetries == 3
Status   == {"SENT", "FAILED", "PENDING"}
Steps    == {"idle", "post", "record", "wait", "update",
             "read", "mark", "repost", "rerecord", "reupdate"}
Retrying == {"read", "mark", "repost", "rerecord", "reupdate"}
Entry    == [attempt : Nat, ok : BOOLEAN]

TypeOK ==
  /\ status \in [Leads -> Status]
  /\ count \in [Leads -> Nat]
  /\ \A l \in Leads : log[l] \in Seq(Entry)
  /\ pc \in [Runs -> Steps]
  /\ lead \in [Runs -> Leads \cup {Nobody}]
  /\ tries \in [Runs -> 0..MaxRetries + MaxRuns]
  /\ good \in [Runs -> BOOLEAN]
  /\ accepted \in [Leads -> Nat] /\ lost \in [Leads -> Nat]
  /\ started \in [Leads -> 0..MaxRuns]
  /\ overlapped \subseteq Leads /\ disturbed \subseteq Leads
  /\ \A r \in Runs : (pc[r] = "idle") = (lead[r] = Nobody)

(* The rows are created with the column's default, SENT. *)
Init ==
  /\ status = [l \in Leads |-> "SENT"]
  /\ count = [l \in Leads |-> 0]
  /\ log = [l \in Leads |-> <<>>]
  /\ pc = [r \in Runs |-> "idle"]
  /\ lead = [r \in Runs |-> Nobody]
  /\ tries = [r \in Runs |-> 0]
  /\ good = [r \in Runs |-> FALSE]
  /\ accepted = [l \in Leads |-> 0] /\ lost = [l \in Leads |-> 0]
  /\ started = [l \in Leads |-> 0]
  /\ overlapped = {} /\ disturbed = {}
  /\ dbErrors = 0 /\ restarts = 0

Active(l) == \E r \in Runs : lead[r] = l
Goto(r, step) == pc' = [pc EXCEPT ![r] = step]
Finish(r) == /\ Goto(r, "idle")
             /\ lead' = [lead EXCEPT ![r] = Nobody]
             /\ tries' = [tries EXCEPT ![r] = 0]
             /\ good' = [good EXCEPT ![r] = FALSE]
SetStatus(r, s) == status' = [status EXCEPT ![lead[r]] = s]
-----------------------------------------------------------------------------
Start(r, l, step) ==
  /\ pc[r] = "idle" /\ started[l] < MaxRuns
  /\ Goto(r, step)
  /\ lead' = [lead EXCEPT ![r] = l]
  /\ started' = [started EXCEPT ![l] = @ + 1]
  /\ overlapped' = IF Active(l) THEN overlapped \cup {l} ELSE overlapped
  /\ UNCHANGED <<row, tries, good, receiver, disturbed, bounds>>

Dispatch(r, l) == Start(r, l, "post")

(* listFailedWebhooks: the rows the panel shows with a retry button. *)
Listed(l) == status[l] = "FAILED"

(* A second click comes before the page reloads. *)
Retry(r, l) ==
  /\ Listed(l) \/ \E q \in Runs : lead[q] = l /\ pc[q] \in Retrying
  /\ Start(r, l, "read")

\* wrong AttemptNumber, for mutation: a retry starts counting again
FirstAttempt(l) == 1
AttemptNumber(l) == count[l] + 1

(* retryFailedWebhook reads the row, *)
ReadRow(r) ==
  /\ pc[r] = "read"
  /\ tries' = [tries EXCEPT ![r] = AttemptNumber(lead[r])]
  /\ Goto(r, "mark")
  /\ UNCHANGED <<row, lead, good, receiver, history, disturbed, bounds>>

(* and marks it. *)
MarkPending(r) ==
  /\ pc[r] = "mark"
  /\ SetStatus(r, "PENDING")
  /\ count' = [count EXCEPT ![lead[r]] = @ + 1]
  /\ Goto(r, "repost")
  /\ UNCHANGED <<log, lead, tries, good, receiver, history, disturbed, bounds>>

(* sendWebhook answers: ok says whether the receiver took the POST, heard   *)
(* whether a 2xx answer came back within the ten seconds.                   *)
Post(r, ok, heard) ==
  LET l == lead[r]
  IN  /\ pc[r] \in {"post", "repost"} /\ (heard => ok)
      /\ tries' = IF pc[r] = "post" THEN [tries EXCEPT ![r] = @ + 1] ELSE tries
      /\ good' = [good EXCEPT ![r] = heard]
      /\ accepted' = IF ok THEN [accepted EXCEPT ![l] = @ + 1] ELSE accepted
      /\ lost' = IF ok /\ ~heard THEN [lost EXCEPT ![l] = @ + 1] ELSE lost
      /\ Goto(r, IF pc[r] = "post" THEN "record" ELSE "rerecord")
      /\ UNCHANGED <<row, lead, history, disturbed, bounds>>

\* wrong NextStep, for mutation: the loop does not stop at a success
NeverStops(r) == IF tries[r] < MaxRetries THEN "wait" ELSE "update"
\* wrong NextStep, for mutation: the loop never gives up
NeverGivesUp(r) == IF good[r] THEN "update" ELSE "wait"
(* Where the loop of dispatch goes after an attempt. *)
NextStep(r) == IF good[r] \/ tries[r] = MaxRetries THEN "update" ELSE "wait"

AfterRecord(r) == IF pc[r] = "record" THEN NextStep(r) ELSE "reupdate"

(* recordInvocation *)
Record(r) ==
  /\ pc[r] \in {"record", "rerecord"}
  /\ log' = [log EXCEPT ![lead[r]] = Append(@, [attempt |-> tries[r], ok |-> good[r]])]
  /\ Goto(r, AfterRecord(r))
  /\ UNCHANGED <<status, count, lead, tries, good, receiver, history, disturbed, bounds>>

(* The wait of one or two minutes ends. *)
WaitEnds(r) ==
  /\ pc[r] = "wait"
  /\ Goto(r, "post")
  /\ UNCHANGED <<row, lead, tries, good, receiver, history, disturbed, bounds>>

\* wrong Outcome, for mutation: the last attempt's failure is not noticed
AlwaysGood(r) == "SENT"
Outcome(r) == IF good[r] THEN "SENT" ELSE "FAILED"

(* dispatch writes the outcome and its own number of attempts. *)
Update(r) ==
  /\ pc[r] = "update"
  /\ SetStatus(r, Outcome(r))
  /\ count' = [count EXCEPT ![lead[r]] = tries[r]]
  /\ Finish(r)
  /\ UNCHANGED <<log, receiver, history, disturbed, bounds>>

(* retryFailedWebhook writes the outcome. *)
UpdateRetry(r) ==
  /\ pc[r] = "reupdate"
  /\ SetStatus(r, Outcome(r))
  /\ Finish(r)
  /\ UNCHANGED <<count, log, receiver, history, disturbed, bounds>>

(* A database call fails.  A failed record or final write of dispatch is    *)
(* logged and forgotten.  In a retry, a failed write of SENT is taken for a *)
(* failure of the webhook, recorded and written as FAILED; any other ends   *)
(* the request.                                                             *)
DbError(r) ==
  /\ pc[r] \in Steps \ {"idle", "post", "repost", "wait"} /\ dbErrors < MaxDbErrors
  /\ dbErrors' = dbErrors + 1
  /\ disturbed' = disturbed \cup {lead[r]}
  /\ CASE pc[r] \in {"record", "rerecord"} ->
            Goto(r, AfterRecord(r)) /\ UNCHANGED <<lead, tries, good>>
       [] pc[r] = "reupdate" /\ good[r] ->
            /\ Goto(r, "rerecord")
            /\ good' = [good EXCEPT ![r] = FALSE]
            /\ UNCHANGED <<lead, tries>>
       [] OTHER -> Finish(r)
  /\ UNCHANGED <<row, receiver, history, restarts>>

(* The process restarts: its runs, and their timers, are gone. *)
Restart ==
  /\ restarts < MaxRestarts
  /\ restarts' = restarts + 1
  /\ disturbed' = disturbed \cup {l \in Leads : Active(l)}
  /\ pc' = [r \in Runs |-> "idle"]
  /\ lead' = [r \in Runs |-> Nobody]
  /\ tries' = [r \in Runs |-> 0]
  /\ good' = [r \in Runs |-> FALSE]
  /\ UNCHANGED <<row, receiver, history, dbErrors>>

RunStep(r) ==
  \/ ReadRow(r) \/ MarkPending(r) \/ Record(r) \/ WaitEnds(r)
  \/ Update(r) \/ UpdateRetry(r)
  \/ \E ok, heard \in BOOLEAN : Post(r, ok, heard)

Next ==
  \/ \E r \in Runs, l \in Leads : Dispatch(r, l) \/ Retry(r, l)
  \/ \E r \in Runs : RunStep(r) \/ DbError(r)
  \/ Restart

(* The receiver answers or the request times out, the database answers, and *)
(* timers fire.                                                             *)
Spec == Init /\ [][Next]_vars /\ \A r \in Runs : WF_vars(RunStep(r))
-----------------------------------------------------------------------------
(* A row that counts an attempt says SENT only of a lead the receiver has,  *)
(* however many dispatches and retries of it overlap, fail or are cut.      *)
SentIsAccepted ==
  \A l \in Leads : status[l] = "SENT" /\ count[l] > 0 => accepted[l] > 0

(* The receiver gets a lead more than once per run only if its answer was   *)
(* lost: a run posts nothing after a success it heard of.                   *)
RepeatsAreAccounted == \A l \in Leads : accepted[l] <= started[l] + lost[l]

(* A lead that the receiver never took is FAILED, and so listed, when its   *)
(* runs are over, in whatever order they wrote; unless a run was cut by a   *)
(* restart or a write failed.                                               *)
UndeliveredIsListed ==
  \A l \in Leads :
    started[l] > 0 /\ ~Active(l) /\ accepted[l] = 0 /\ l \notin disturbed
      => Listed(l)

(* The row of a lead whose runs came one after the other agrees with the    *)
(* last invocation: its status with the outcome, its count with the number. *)
RowIsLastInvocation ==
  \A l \in Leads :
    ~Active(l) /\ log[l] # <<>> /\ l \notin overlapped \cup disturbed
      => LET e == Last(log[l])
         IN  count[l] = e.attempt /\ status[l] = (IF e.ok THEN "SENT" ELSE "FAILED")

(* Every run ends: a lead handed to the webhook is in the end accepted or   *)
(* listed, unless a run was cut or a write failed.                          *)
DispatchSettles ==
  \A l \in Leads :
    started[l] > 0 ~> accepted[l] > 0 \/ Listed(l) \/ l \in disturbed

(* The panel's page of failed webhooks holds every lead whose sending       *)
(* failed: none that was never accepted is missing when nothing runs.       *)
FailuresAreListed ==
  \A l \in Leads :
    log[l] # <<>> /\ ~Active(l) /\ accepted[l] = 0 => Listed(l)
=============================================================================
