---------------------------- MODULE MasterIngest ----------------------------
(***************************************************************************)
(* The master's side of the lead synchronisation: the handler of           *)
(* form.submission.sync (SyncConsumerController.handleFormSubmissionSync)  *)
(* and its HTTP twin (SyncHttpController.processSubmission).  They run the *)
(* same steps on the same tables, and nothing holds the steps together:    *)
(* no transaction and no lock.  A worker is one running handler; a step is *)
(* one database call, after which any other worker may run.                *)
(*                                                                         *)
(* Here any snapshot of any lead may be delivered at any time, again, and  *)
(* out of order; SubmissionSync restricts the deliveries to what the       *)
(* edge's outbox and the transports really do.                             *)
(***************************************************************************)
EXTENDS LeadPayload

CONSTANTS
  Workers,      \* the handlers that may run at the same time
  NoPayload     \* the payload of a handler that is not running

ASSUME NoPayloadAssumption == NoPayload \notin Payload

VARIABLES
  masterForms,  \* keys in the master's Form table
  masterLead,   \* the master's FormSubmission row of each lead
  masterPay,    \* the status in the master's Payment row of each lead
  processed,    \* keys in the master's ProcessedEvent table
  notified,     \* how often the webhook was called for each key
  pc,           \* the step each handler is about to take
  msg,          \* the payload it handles
  seen          \* the syncVersion of `existing`, 0 when there was no row

tables   == <<masterForms, masterLead, masterPay, processed>>
handlers == <<pc, msg, seen>>
ingestVars == <<masterForms, masterLead, masterPay, processed, notified,
                pc, msg, seen>>

NoRow == [ver |-> 0, otp |-> "NONE"]
Row   == [ver : Versions, otp : OtpStatus] \cup {NoRow}

Finished == {"accepted", "duplicate", "failed"}
Steps    == {"idle", "check", "form", "read", "store", "pay", "mark",
             "dispatch"} \cup Finished

IngestTypeOK ==
  /\ masterForms \subseteq Forms
  /\ masterLead \in [Leads -> Row]
  /\ masterPay \in [Leads -> PayStatus]
  /\ processed \subseteq Keys
  /\ notified \in [Keys -> Nat]
  /\ pc \in [Workers -> Steps]
  /\ msg \in [Workers -> Payload \cup {NoPayload}]
  /\ seen \in [Workers -> Nat]
  /\ \A w \in Workers : pc[w] # "idle" => msg[w] \in Payload

IngestInit ==
  /\ masterForms = Forms
  /\ masterLead = [l \in Leads |-> NoRow]
  /\ masterPay = [l \in Leads |-> "NONE"]
  /\ processed = {}
  /\ notified = [k \in Keys |-> 0]
  /\ pc = [w \in Workers |-> "idle"]
  /\ msg = [w \in Workers |-> NoPayload]
  /\ seen = [w \in Workers |-> 0]
-----------------------------------------------------------------------------
(***************************************************************************)
(* Decisions of the handler.  Before some of them stand wrong versions a   *)
(* plausible slip would give; only the mutation runs use those.            *)
(***************************************************************************)
AlwaysNewer(p, sn)    == TRUE
NewerThanRow(p, sn)   == sn # 0 /\ p.ver > sn
IsNewer(p, sn)        == sn = 0 \/ p.ver > sn

DispatchNewer(p, sn)  == IF IsPaid(p.lead) THEN p.pay = "COMPLETED"
                                           ELSE IsNewer(p, sn)
DispatchUnpaid(p, sn) == sn = 0
DispatchPaid(p, sn)   == p.pay = "COMPLETED"
ShouldDispatch(p, sn) == IF IsPaid(p.lead) THEN p.pay = "COMPLETED"
                                           ELSE sn = 0

NeverConflicts(p)  == FALSE
UniqueConflict(p)  == Key(p) \in processed

Goto(w, step) == pc' = [pc EXCEPT ![w] = step]
-----------------------------------------------------------------------------
(* A delivery starts a handler. *)
Deliver(w, p) ==
  /\ pc[w] = "idle"
  /\ Goto(w, "check")
  /\ msg' = [msg EXCEPT ![w] = p]
  /\ UNCHANGED <<tables, notified, seen>>

(* alreadyProcessed: a known key ends the handler. *)
CheckProcessed(w) ==
  /\ pc[w] = "check"
  /\ Goto(w, IF Key(msg[w]) \in processed THEN "duplicate" ELSE "form")
  /\ UNCHANGED <<tables, notified, msg, seen>>

(* form.findUnique; a form the master does not have fails the handler. *)
FindForm(w) ==
  /\ pc[w] = "form"
  /\ Goto(w, IF FormOf[msg[w].lead] \in masterForms THEN "read" ELSE "failed")
  /\ UNCHANGED <<tables, notified, msg, seen>>

(* formSubmission.findUnique: what `existing` and `isNewer` are taken from. *)
ReadExisting(w) ==
  /\ pc[w] = "read"
  /\ LET sn == masterLead[msg[w].lead].ver
     IN  /\ seen' = [seen EXCEPT ![w] = sn]
         /\ Goto(w, IF IsNewer(msg[w], sn) THEN "store" ELSE "mark")
  /\ UNCHANGED <<tables, notified, msg>>

(***************************************************************************)
(* formSubmission.upsert, by what was read before: it overwrites whatever  *)
(* another worker stored since.  Without the form row the foreign key      *)
(* refuses the write.                                                      *)
(***************************************************************************)
UpsertLead(w) ==
  LET p == msg[w]
  IN  /\ pc[w] = "store"
      /\ IF FormOf[p.lead] \in masterForms
         THEN /\ masterLead' = [masterLead EXCEPT ![p.lead] =
                                  [ver |-> p.ver, otp |-> p.otp]]
              /\ Goto(w, IF p.pay = "NONE" THEN "mark" ELSE "pay")
         ELSE /\ Goto(w, "failed")
              /\ UNCHANGED masterLead
      /\ UNCHANGED <<masterForms, masterPay, processed, notified, msg, seen>>

(* payment.upsert; the foreign key needs the submission row. *)
UpsertPayment(w) ==
  LET p == msg[w]
  IN  /\ pc[w] = "pay"
      /\ IF masterLead[p.lead] # NoRow
         THEN /\ masterPay' = [masterPay EXCEPT ![p.lead] = p.pay]
              /\ Goto(w, "mark")
         ELSE /\ Goto(w, "failed")
              /\ UNCHANGED masterPay
      /\ UNCHANGED <<masterForms, masterLead, processed, notified, msg, seen>>

(* markProcessed creates the key: its uniqueness fails all but one worker. *)
MarkProcessed(w) ==
  LET p == msg[w]
  IN  /\ pc[w] = "mark"
      /\ IF UniqueConflict(p)
         THEN Goto(w, "failed") /\ UNCHANGED processed
         ELSE /\ processed' = processed \cup {Key(p)}
              /\ Goto(w, IF ShouldDispatch(p, seen[w]) THEN "dispatch"
                                                       ELSE "accepted")
      /\ UNCHANGED <<masterForms, masterLead, masterPay, notified, msg, seen>>

(* webhook.dispatch is awaited and does not throw: its own retries are one *)
(* call here.                                                              *)
Dispatch(w) ==
  /\ pc[w] = "dispatch"
  /\ notified' = [notified EXCEPT ![Key(msg[w])] = @ + 1]
  /\ Goto(w, "accepted")
  /\ UNCHANGED <<tables, msg, seen>>

(* The outcome is answered (ack, nack, HTTP response): the handler ends. *)
Finish(w) ==
  /\ pc[w] \in Finished
  /\ Goto(w, "idle")
  /\ msg' = [msg EXCEPT ![w] = NoPayload]
  /\ seen' = [seen EXCEPT ![w] = 0]
  /\ UNCHANGED <<tables, notified>>

(* FormEngineService.remove on the master: its leads and their payments go *)
(* with the form (onDelete: Cascade).                                      *)
DeleteForm(f) ==
  /\ f \in masterForms
  /\ masterForms' = masterForms \ {f}
  /\ masterLead' = [l \in Leads |-> IF FormOf[l] = f THEN NoRow
                                                     ELSE masterLead[l]]
  /\ masterPay' = [l \in Leads |-> IF FormOf[l] = f THEN "NONE"
                                                    ELSE masterPay[l]]
  /\ UNCHANGED <<processed, notified, handlers>>

(* The master stops and restarts: the handlers are gone, the tables stay. *)
Crash ==
  /\ \E w \in Workers : pc[w] # "idle"
  /\ pc' = [w \in Workers |-> "idle"]
  /\ msg' = [w \in Workers |-> NoPayload]
  /\ seen' = [w \in Workers |-> 0]
  /\ UNCHANGED <<tables, notified>>

WorkerStep(w) ==
  \/ CheckProcessed(w) \/ FindForm(w) \/ ReadExisting(w)
  \/ UpsertLead(w) \/ UpsertPayment(w) \/ MarkProcessed(w) \/ Dispatch(w)

IngestNext ==
  \/ \E w \in Workers :
        \/ \E l \in Leads : \E p \in Snapshots(l) : Deliver(w, p)
        \/ WorkerStep(w)
        \/ Finish(w)
  \/ \E f \in Forms : DeleteForm(f)
  \/ Crash

IngestSpec == IngestInit /\ [][IngestNext]_ingestVars
-----------------------------------------------------------------------------
(***************************************************************************)
(* Whatever the handlers interleave, restart or repeat, the webhook is     *)
(* called at most once for a key.                                          *)
(***************************************************************************)
NotifiedOnce == \A k \in Keys : notified[k] <= 1

(***************************************************************************)
(* A key is never recorded as processed unless the master holds the lead   *)
(* (or its form was deleted meanwhile): the edge drops a lead once the     *)
(* master calls it processed or a duplicate, so the reverse would lose it. *)
(***************************************************************************)
ProcessedIsStored ==
  \A k \in processed : FormOf[k[1]] \in masterForms => masterLead[k[1]] # NoRow

(***************************************************************************)
(* Why the webhook is called once: only the handler that created a key     *)
(* goes on to dispatch it, and it has not done so yet.                     *)
(***************************************************************************)
OneDispatcher ==
  /\ \A w \in Workers : pc[w] = "dispatch" =>
       Key(msg[w]) \in processed /\ notified[Key(msg[w])] = 0
  /\ \A v, w \in Workers :
       pc[v] = "dispatch" /\ pc[w] = "dispatch" /\ v # w =>
         Key(msg[v]) # Key(msg[w])
  /\ \A k \in Keys : notified[k] > 0 => k \in processed

(* Why a processed lead is stored: a handler stores, or has seen stored,   *)
(* the lead before it records the key.                                     *)
StoredBeforeMark ==
  \A w \in Workers :
    pc[w] \in {"pay", "mark"} /\ FormOf[msg[w].lead] \in masterForms =>
      masterLead[msg[w].lead] # NoRow

(***************************************************************************)
(* The inductive invariant of the handlers.                                *)
(***************************************************************************)
IngestInv ==
  /\ IngestTypeOK
  /\ NotifiedOnce
  /\ OneDispatcher
  /\ ProcessedIsStored
  /\ StoredBeforeMark

Inbox == INSTANCE IdempotentInbox WITH accepted <- processed,
                                       effects <- notified

(***************************************************************************)
(* The handlers, however many overlap, implement the idempotent inbox.     *)
(***************************************************************************)
ImplementsInbox == Inbox!Spec
=============================================================================
