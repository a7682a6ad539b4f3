----------------------- MODULE SubmissionSync_proofs -----------------------
(***************************************************************************)
(* Proofs about the path of a lead, for any leads, forms, number of        *)
(* handlers, batch size, tries and failures, and either SYNC_MODE: first   *)
(* of its end at the master (MasterIngest, and handlers that overlap in    *)
(* MasterIngestOverlap), then of the composed path (SubmissionSync).       *)
(***************************************************************************)
EXTENDS SubmissionSync, MasterIngestOverlap, TLAPS

LEMMA SnapshotIsPayload ==
  ASSUME NEW l \in Leads, NEW p \in Snapshots(l)
  PROVE  p \in Payload
<1> USE DEF Payload, Versions, OtpStatus, PayStatus
<1>1. Captured(l) \in Payload
  BY DEF Captured
<1>2. Verified(l) \in Payload
  BY <1>1 DEF Verified
<1>3. Paid(l) \in Payload
  <2>1. \A q \in Payload : [q EXCEPT !.pay = "COMPLETED"] \in Payload
    OBVIOUS
  <2>. QED BY <1>1, <1>2, <2>1 DEF Paid
<1>. QED BY <1>1, <1>2, <1>3 DEF Snapshots

LEMMA KeyOfPayload ==
  ASSUME NEW p \in Payload
  PROVE  /\ p.lead \in Leads
         /\ p.ver \in Versions
         /\ p.otp \in OtpStatus
         /\ p.pay \in PayStatus
         /\ Key(p) \in Keys
         /\ Key(p)[1] = p.lead
         /\ FormOf[p.lead] \in Forms
  BY FormsAssumption DEF Payload, Key, Keys

LEMMA RowIsRow ==
  ASSUME NEW v \in Versions, NEW o \in OtpStatus
  PROVE  /\ [ver |-> v, otp |-> o] \in Row
         /\ [ver |-> v, otp |-> o] # NoRow
         /\ NoRow \in Row
         /\ NoRow.ver = 0
  BY DEF Row, NoRow, Versions

(* A row that is not the missing row has a positive version. *)
LEMMA RowVersion ==
  ASSUME NEW r \in Row
  PROVE  /\ r.ver \in Nat
         /\ r.ver # 0 => r # NoRow
  BY DEF Row, NoRow, Versions

(***************************************************************************)
(* Type correctness: the initial state and every step.                     *)
(***************************************************************************)
LEMMA InitTypeOK == IngestInit => IngestTypeOK
  BY DEF IngestInit, IngestTypeOK, Steps, Row, PayStatus, Keys

LEMMA NextTypeOK == IngestTypeOK /\ [IngestNext]_ingestVars => IngestTypeOK'
<1> SUFFICES ASSUME IngestTypeOK, [IngestNext]_ingestVars
             PROVE  IngestTypeOK'
  OBVIOUS
<1> USE DEF IngestTypeOK, tables, handlers, Goto, Steps, Finished
<1>1. ASSUME NEW w \in Workers, NEW l \in Leads, NEW p \in Snapshots(l),
             Deliver(w, p)
      PROVE  IngestTypeOK'
  BY <1>1, SnapshotIsPayload DEF Deliver
<1>2. ASSUME NEW w \in Workers, CheckProcessed(w)
      PROVE  IngestTypeOK'
  BY <1>2 DEF CheckProcessed
<1>3. ASSUME NEW w \in Workers, FindForm(w)
      PROVE  IngestTypeOK'
  BY <1>3 DEF FindForm
<1>4. ASSUME NEW w \in Workers, ReadExisting(w)
      PROVE  IngestTypeOK'
  <2>1. msg[w] \in Payload /\ msg[w].lead \in Leads
    BY <1>4, KeyOfPayload DEF ReadExisting
  <2>2. masterLead[msg[w].lead].ver \in Nat
    BY <2>1, RowVersion
  <2>. QED BY <1>4, <2>1, <2>2 DEF ReadExisting
<1>5. ASSUME NEW w \in Workers, UpsertLead(w)
      PROVE  IngestTypeOK'
  <2>1. msg[w] \in Payload
    BY <1>5 DEF UpsertLead
  <2>2. [ver |-> msg[w].ver, otp |-> msg[w].otp] \in Row
    BY <2>1, KeyOfPayload, RowIsRow
  <2>. QED BY <1>5, <2>1, <2>2, KeyOfPayload DEF UpsertLead
<1>6. ASSUME NEW w \in Workers, UpsertPayment(w)
      PROVE  IngestTypeOK'
  <2>1. msg[w] \in Payload
    BY <1>6 DEF UpsertPayment
  <2>. QED BY <1>6, <2>1, KeyOfPayload DEF UpsertPayment
<1>7. ASSUME NEW w \in Workers, MarkProcessed(w)
      PROVE  IngestTypeOK'
  <2>1. msg[w] \in Payload /\ Key(msg[w]) \in Keys
    BY <1>7, KeyOfPayload DEF MarkProcessed
  <2>. QED BY <1>7, <2>1 DEF MarkProcessed
<1>8. ASSUME NEW w \in Workers, Dispatch(w)
      PROVE  IngestTypeOK'
  <2>1. msg[w] \in Payload /\ Key(msg[w]) \in Keys
    BY <1>8, KeyOfPayload DEF Dispatch
  <2>. QED BY <1>8, <2>1 DEF Dispatch
<1>9. ASSUME NEW w \in Workers, Finish(w)
      PROVE  IngestTypeOK'
  BY <1>9 DEF Finish
<1>10. ASSUME NEW f \in Forms, DeleteForm(f)
       PROVE  IngestTypeOK'
  BY <1>10 DEF DeleteForm, Row, PayStatus
<1>11. CASE Crash
  BY <1>11 DEF Crash
<1>12. CASE UNCHANGED ingestVars
  BY <1>12 DEF ingestVars
<1>. QED
  BY <1>1, <1>2, <1>3, <1>4, <1>5, <1>6, <1>7, <1>8, <1>9, <1>10, <1>11, <1>12
     DEF IngestNext, WorkerStep

(***************************************************************************)
(* The state variables of the master's handlers keep their types.          *)
(***************************************************************************)
THEOREM IngestTypeCorrect == IngestSpec => []IngestTypeOK
  BY InitTypeOK, NextTypeOK, PTL DEF IngestSpec
-----------------------------------------------------------------------------
(***************************************************************************)
(* The invariant: one lemma per group of steps, one case per conjunct.     *)
(***************************************************************************)
LEMMA InitInv == IngestInit => IngestInv
<1> SUFFICES ASSUME IngestInit PROVE IngestInv
  OBVIOUS
<1>1. IngestTypeOK
  BY InitTypeOK
<1>2. NotifiedOnce
  BY DEF IngestInit, NotifiedOnce
<1>3. OneDispatcher /\ ProcessedIsStored /\ StoredBeforeMark
  BY DEF IngestInit, OneDispatcher, ProcessedIsStored, StoredBeforeMark
<1>. QED BY <1>1, <1>2, <1>3 DEF IngestInv

(* Steps that change no table and start no dispatch. *)
LEMMA QuietStep ==
  ASSUME IngestInv, IngestTypeOK', NEW w \in Workers,
         UNCHANGED <<masterForms, masterLead, masterPay, processed, notified>>,
         \A v \in Workers \ {w} : pc'[v] = pc[v] /\ msg'[v] = msg[v],
         pc'[w] # "dispatch",
         pc'[w] \in {"pay", "mark"} => masterLead[msg'[w].lead] # NoRow
  PROVE  IngestInv'
<1> USE DEF IngestInv
<1>1. NotifiedOnce'
  BY DEF NotifiedOnce
<1>2. OneDispatcher'
  BY DEF OneDispatcher
<1>3. ProcessedIsStored'
  BY DEF ProcessedIsStored
<1>4. StoredBeforeMark'
  BY DEF StoredBeforeMark
<1>. QED BY <1>1, <1>2, <1>3, <1>4

LEMMA StoreStep ==
  ASSUME IngestInv, IngestTypeOK', NEW w \in Workers, UpsertLead(w)
  PROVE  IngestInv'
<1> DEFINE p == msg[w]
<1> USE DEF IngestInv
<1>1. p \in Payload /\ p.lead \in Leads
  BY KeyOfPayload DEF UpsertLead, IngestTypeOK
<1>2. CASE FormOf[p.lead] \in masterForms
  <2>1. [ver |-> p.ver, otp |-> p.otp] # NoRow
    BY <1>1, KeyOfPayload, RowIsRow
  <2>2. \A l \in Leads : masterLead[l] # NoRow => masterLead'[l] # NoRow
    BY <1>1, <1>2, <2>1 DEF UpsertLead, IngestTypeOK
  <2>3. masterLead'[p.lead] # NoRow
    BY <1>1, <1>2, <2>1 DEF UpsertLead, IngestTypeOK
  <2>4. /\ pc'[w] \in {"pay", "mark"}
        /\ \A v \in Workers \ {w} : pc'[v] = pc[v]
        /\ UNCHANGED <<masterForms, processed, notified, msg>>
    BY <1>2 DEF UpsertLead, Goto, IngestTypeOK
  <2>5. NotifiedOnce' /\ OneDispatcher'
    BY <2>4 DEF NotifiedOnce, OneDispatcher
  <2>6. ProcessedIsStored'
    BY <2>2, <2>4 DEF ProcessedIsStored, IngestTypeOK, Keys
  <2>7. StoredBeforeMark'
    <3>1. \A v \in Workers : pc[v] \in {"pay", "mark"} => msg[v].lead \in Leads
      BY KeyOfPayload DEF IngestTypeOK
    <3>. QED BY <2>2, <2>3, <2>4, <3>1 DEF StoredBeforeMark
  <2>. QED BY <2>5, <2>6, <2>7
<1>3. CASE FormOf[p.lead] \notin masterForms
  BY <1>3, QuietStep DEF UpsertLead, Goto, IngestTypeOK
<1>. QED BY <1>2, <1>3

LEMMA PayStep ==
  ASSUME IngestInv, IngestTypeOK', NEW w \in Workers, UpsertPayment(w)
  PROVE  IngestInv'
<1> USE DEF IngestInv
<1>1. /\ UNCHANGED <<masterForms, masterLead, processed, notified, msg>>
      /\ \A v \in Workers \ {w} : pc'[v] = pc[v]
      /\ pc'[w] = "mark" \/ pc'[w] = "failed"
      /\ pc'[w] = "mark" => masterLead[msg[w].lead] # NoRow
  BY DEF UpsertPayment, Goto, IngestTypeOK
<1>2. NotifiedOnce' /\ OneDispatcher' /\ ProcessedIsStored'
  BY <1>1 DEF NotifiedOnce, OneDispatcher, ProcessedIsStored
<1>3. StoredBeforeMark'
  BY <1>1 DEF StoredBeforeMark
<1>. QED BY <1>2, <1>3

LEMMA MarkStep ==
  ASSUME IngestInv, IngestTypeOK', NEW w \in Workers, MarkProcessed(w)
  PROVE  IngestInv'
<1> DEFINE k == Key(msg[w])
<1> USE DEF IngestInv
<1>1. /\ msg[w] \in Payload
      /\ k \in Keys
      /\ k[1] = msg[w].lead
      /\ pc[w] = "mark"
  BY KeyOfPayload DEF MarkProcessed, IngestTypeOK
<1>2. /\ UNCHANGED <<masterForms, masterLead, masterPay, notified, msg>>
      /\ \A v \in Workers \ {w} : pc'[v] = pc[v]
  BY DEF MarkProcessed, Goto, IngestTypeOK
<1>3. CASE k \in processed
  <2>1. pc'[w] = "failed" /\ processed' = processed
    BY <1>3 DEF MarkProcessed, UniqueConflict, Goto, IngestTypeOK
  <2>. QED BY <1>2, <2>1, QuietStep
<1>4. CASE k \notin processed
  <2>1. /\ processed' = processed \cup {k}
        /\ pc'[w] \in {"dispatch", "accepted"}
    BY <1>4 DEF MarkProcessed, UniqueConflict, Goto, IngestTypeOK
  <2>2. notified[k] = 0
    BY <1>1, <1>4 DEF OneDispatcher, IngestTypeOK
  <2>3. NotifiedOnce'
    BY <1>2 DEF NotifiedOnce
  <2>4. OneDispatcher'
    <3>1. \A v \in Workers \ {w} : pc[v] = "dispatch" => Key(msg[v]) # k
      BY <1>4 DEF OneDispatcher
    <3>. QED BY <1>2, <2>1, <2>2, <3>1 DEF OneDispatcher
  <2>5. ProcessedIsStored'
    <3>1. FormOf[k[1]] \in masterForms => masterLead[k[1]] # NoRow
      BY <1>1 DEF StoredBeforeMark
    <3>. QED BY <1>2, <2>1, <3>1 DEF ProcessedIsStored
  <2>6. StoredBeforeMark'
    BY <1>2, <2>1 DEF StoredBeforeMark
  <2>. QED BY <2>3, <2>4, <2>5, <2>6
<1>. QED BY <1>3, <1>4

LEMMA DispatchStep ==
  ASSUME IngestInv, IngestTypeOK', NEW w \in Workers, Dispatch(w)
  PROVE  IngestInv'
<1> DEFINE k == Key(msg[w])
<1> USE DEF IngestInv
<1>1. /\ k \in Keys /\ k \in processed /\ notified[k] = 0
      /\ pc[w] = "dispatch"
  BY KeyOfPayload DEF Dispatch, IngestTypeOK, OneDispatcher
<1>2. /\ UNCHANGED <<masterForms, masterLead, masterPay, processed, msg>>
      /\ \A v \in Workers \ {w} : pc'[v] = pc[v]
      /\ pc'[w] = "accepted"
      /\ notified'[k] = 1
      /\ \A j \in Keys \ {k} : notified'[j] = notified[j]
  BY <1>1 DEF Dispatch, tables, Goto, IngestTypeOK
<1>3. NotifiedOnce'
  BY <1>1, <1>2 DEF NotifiedOnce
<1>4. OneDispatcher'
  <2>1. \A v \in Workers \ {w} : pc[v] = "dispatch" =>
           Key(msg[v]) \in Keys \ {k}
    BY <1>1, KeyOfPayload DEF OneDispatcher, IngestTypeOK
  <2>2. \A j \in Keys : notified'[j] > 0 => j \in processed'
    BY <1>1, <1>2 DEF OneDispatcher
  <2>. QED BY <1>1, <1>2, <2>1, <2>2 DEF OneDispatcher
<1>5. ProcessedIsStored' /\ StoredBeforeMark'
  BY <1>2 DEF ProcessedIsStored, StoredBeforeMark
<1>. QED BY <1>3, <1>4, <1>5

LEMMA DeleteStep ==
  ASSUME IngestInv, IngestTypeOK', NEW f \in Forms, DeleteForm(f)
  PROVE  IngestInv'
<1> USE DEF IngestInv
<1>1. /\ UNCHANGED <<processed, notified, pc, msg>>
      /\ \A l \in Leads : FormOf[l] \in masterForms' =>
            FormOf[l] \in masterForms /\ masterLead'[l] = masterLead[l]
  BY DEF DeleteForm, handlers
<1>2. NotifiedOnce' /\ OneDispatcher'
  BY <1>1 DEF NotifiedOnce, OneDispatcher
<1>3. ProcessedIsStored'
  BY <1>1 DEF ProcessedIsStored, IngestTypeOK, Keys
<1>4. StoredBeforeMark'
  <2>1. \A v \in Workers : pc[v] \in {"pay", "mark"} => msg[v].lead \in Leads
    BY KeyOfPayload DEF IngestTypeOK
  <2>. QED BY <1>1, <2>1 DEF StoredBeforeMark
<1>. QED BY <1>2, <1>3, <1>4

LEMMA NextInv == IngestInv /\ [IngestNext]_ingestVars => IngestInv'
<1> SUFFICES ASSUME IngestInv, [IngestNext]_ingestVars
             PROVE  IngestInv'
  OBVIOUS
<1>0. IngestTypeOK /\ IngestTypeOK'
  BY NextTypeOK DEF IngestInv
<1>1. ASSUME NEW w \in Workers, NEW l \in Leads, NEW p \in Snapshots(l),
             Deliver(w, p)
      PROVE  IngestInv'
  BY <1>0, <1>1, QuietStep DEF Deliver, tables, Goto, IngestTypeOK
<1>2. ASSUME NEW w \in Workers, CheckProcessed(w)
      PROVE  IngestInv'
  BY <1>0, <1>2, QuietStep DEF CheckProcessed, tables, Goto, IngestTypeOK
<1>3. ASSUME NEW w \in Workers, FindForm(w)
      PROVE  IngestInv'
  BY <1>0, <1>3, QuietStep DEF FindForm, tables, Goto, IngestTypeOK
<1>4. ASSUME NEW w \in Workers, ReadExisting(w)
      PROVE  IngestInv'
  <2>1. msg[w] \in Payload /\ msg[w].lead \in Leads
    BY <1>0, <1>4, KeyOfPayload DEF ReadExisting, IngestTypeOK
  <2>2. pc'[w] = "mark" => masterLead[msg[w].lead] # NoRow
    BY <1>0, <1>4, <2>1, RowVersion DEF ReadExisting, IsNewer, Goto, IngestTypeOK
  <2>. QED
    BY <1>0, <1>4, <2>2, QuietStep DEF ReadExisting, tables, Goto, IngestTypeOK
<1>5. ASSUME NEW w \in Workers, UpsertLead(w)
      PROVE  IngestInv'
  BY <1>0, <1>5, StoreStep
<1>6. ASSUME NEW w \in Workers, UpsertPayment(w)
      PROVE  IngestInv'
  BY <1>0, <1>6, PayStep
<1>7. ASSUME NEW w \in Workers, MarkProcessed(w)
      PROVE  IngestInv'
  BY <1>0, <1>7, MarkStep
<1>8. ASSUME NEW w \in Workers, Dispatch(w)
      PROVE  IngestInv'
  BY <1>0, <1>8, DispatchStep
<1>9. ASSUME NEW w \in Workers, Finish(w)
      PROVE  IngestInv'
  BY <1>0, <1>9, QuietStep DEF Finish, tables, Goto, IngestTypeOK
<1>10. ASSUME NEW f \in Forms, DeleteForm(f)
       PROVE  IngestInv'
  BY <1>0, <1>10, DeleteStep
<1>11. CASE Crash
  BY <1>0, <1>11
     DEF Crash, tables, IngestInv, NotifiedOnce, OneDispatcher,
         ProcessedIsStored, StoredBeforeMark
<1>12. CASE UNCHANGED ingestVars
  BY <1>0, <1>12
     DEF ingestVars, IngestInv, NotifiedOnce, OneDispatcher,
         ProcessedIsStored, StoredBeforeMark
<1>. QED
  BY <1>1, <1>2, <1>3, <1>4, <1>5, <1>6, <1>7, <1>8, <1>9, <1>10, <1>11, <1>12
     DEF IngestNext, WorkerStep

(***************************************************************************)
(* The invariant of the handlers holds throughout.                         *)
(***************************************************************************)
THEOREM IngestInvariant == IngestSpec => []IngestInv
  BY InitInv, NextInv, PTL DEF IngestSpec

(***************************************************************************)
(* The webhook is called at most once for a key.                           *)
(***************************************************************************)
THEOREM WebhookOncePerKey == IngestSpec => []NotifiedOnce
<1>1. IngestInv => NotifiedOnce
  BY DEF IngestInv
<1>. QED BY <1>1, IngestInvariant, PTL

(***************************************************************************)
(* What the master calls processed it has stored.                          *)
(***************************************************************************)
THEOREM ProcessedLeadsAreStored == IngestSpec => []ProcessedIsStored
<1>1. IngestInv => ProcessedIsStored
  BY DEF IngestInv
<1>. QED BY <1>1, IngestInvariant, PTL
-----------------------------------------------------------------------------
(***************************************************************************)
(* Refinement: marking a key accepts it, dispatching it performs its       *)
(* effect, every other step stutters.                                      *)
(***************************************************************************)
LEMMA InitInbox == IngestInit => Inbox!Init
  BY DEF IngestInit, Inbox!Init

LEMMA StepInbox ==
  IngestInv /\ [IngestNext]_ingestVars => [Inbox!Next]_Inbox!vars
<1> SUFFICES ASSUME IngestInv, [IngestNext]_ingestVars
             PROVE  [Inbox!Next]_Inbox!vars
  OBVIOUS
<1> USE DEF Inbox!vars
<1>1. ASSUME NEW w \in Workers, MarkProcessed(w)
      PROVE  [Inbox!Next]_Inbox!vars
  <2>1. msg[w] \in Payload /\ Key(msg[w]) \in Keys
    BY <1>1, KeyOfPayload DEF MarkProcessed, IngestInv, IngestTypeOK
  <2>2. \/ UNCHANGED <<processed, notified>>
        \/ Inbox!Accept(Key(msg[w]))
    BY <1>1 DEF MarkProcessed, UniqueConflict, Inbox!Accept
  <2>. QED BY <2>1, <2>2 DEF Inbox!Next
<1>2. ASSUME NEW w \in Workers, Dispatch(w)
      PROVE  [Inbox!Next]_Inbox!vars
  <2>1. /\ Key(msg[w]) \in Keys
        /\ Key(msg[w]) \in processed
        /\ notified[Key(msg[w])] = 0
    BY <1>2, KeyOfPayload DEF Dispatch, IngestInv, IngestTypeOK, OneDispatcher
  <2>2. Inbox!Perform(Key(msg[w]))
    BY <1>2, <2>1 DEF Dispatch, tables, Inbox!Perform, IngestInv, IngestTypeOK
  <2>. QED BY <2>1, <2>2 DEF Inbox!Next
<1>3. ASSUME NEW w \in Workers,
             \/ CheckProcessed(w) \/ FindForm(w) \/ ReadExisting(w)
             \/ UpsertLead(w) \/ UpsertPayment(w) \/ Finish(w)
             \/ \E l \in Leads : \E p \in Snapshots(l) : Deliver(w, p)
      PROVE  UNCHANGED <<processed, notified>>
  BY <1>3 DEF CheckProcessed, FindForm, ReadExisting, UpsertLead,
              UpsertPayment, Finish, Deliver, tables
<1>4. ASSUME NEW f \in Forms, DeleteForm(f)
      PROVE  UNCHANGED <<processed, notified>>
  BY <1>4 DEF DeleteForm
<1>5. CASE Crash \/ UNCHANGED ingestVars
  BY <1>5 DEF Crash, tables, ingestVars
<1>. QED BY <1>1, <1>2, <1>3, <1>4, <1>5 DEF IngestNext, WorkerStep

(***************************************************************************)
(* The handlers implement the idempotent inbox.                            *)
(***************************************************************************)
THEOREM IngestImplementsInbox == IngestSpec => ImplementsInbox
  BY InitInbox, StepInbox, IngestInvariant, PTL
     DEF IngestSpec, ImplementsInbox, Inbox!Spec
-----------------------------------------------------------------------------
(* The handlers of one lead at a time. *)

LEMMA OverlapInitInv == OverlapInit => OverlapInv
<1> SUFFICES ASSUME OverlapInit PROVE OverlapInv
  OBVIOUS
<1>1. IngestInv /\ IngestInit /\ raced = {}
  BY InitInv DEF OverlapInit
<1>2. \A w \in Workers : ReadIsCurrent(w) /\ FirstNotifies(w)
  BY <1>1 DEF IngestInit, ReadIsCurrent, FirstNotifies
<1>3. OneHandler /\ ProcessedIsCurrent
  BY <1>1 DEF IngestInit, OneHandler, ProcessedIsCurrent
<1>4. NotifiedHasRow /\ LeadNotifiedOnce
  BY <1>1 DEF IngestInit, NotifiedHasRow, LeadNotifiedOnce, Silent, Keys, Versions
<1>. QED BY <1>1, <1>2, <1>3, <1>4 DEF OverlapInv

(* The handlers that overlap after a step are in raced after it. *)
LEMMA OverlapIsNoted ==
  ASSUME OverlapInv, IngestInv', OverlapNext
  PROVE  OneHandler' /\ raced \subseteq raced' /\ (raced \subseteq Leads)'
<1>1. \A v \in Workers : pc'[v] # "idle" => msg'[v].lead \in Leads
  BY KeyOfPayload DEF IngestInv, IngestTypeOK
<1>. QED BY <1>1 DEF OneHandler, OverlapNext, Running, OverlapInv

(***************************************************************************)
(* A worker keeps its facts when a step leaves its own state alone and     *)
(* changes no row and no notification of its lead.                         *)
(***************************************************************************)
LEMMA BystanderStep ==
  ASSUME OverlapInv, raced \subseteq raced', masterForms' \subseteq masterForms,
         NEW v \in Workers, pc'[v] = pc[v], msg'[v] = msg[v], seen'[v] = seen[v],
         pc[v] # "idle" /\ msg[v].lead \notin raced' =>
           /\ FormOf[msg[v].lead] \in masterForms' =>
                masterLead'[msg[v].lead] = masterLead[msg[v].lead]
           /\ Silent(msg[v].lead) => Silent(msg[v].lead)'
  PROVE  ReadIsCurrent(v)' /\ FirstNotifies(v)'
<1>1. ReadIsCurrent(v) /\ FirstNotifies(v)
  BY DEF OverlapInv
<1>2. ReadIsCurrent(v)'
  BY <1>1 DEF ReadIsCurrent, IsNewer
<1>3. FirstNotifies(v)'
  <2>1. Silent(msg[v].lead)' <=> Silent(msg[v].lead)'
    BY DEF Silent
  <2>. QED BY <1>1, <2>1 DEF FirstNotifies
<1>. QED BY <1>2, <1>3

(* A step of w that changes no row, key or notification. *)
LEMMA QuietOverlap ==
  ASSUME OverlapInv, IngestInv', OverlapNext, NEW w \in Workers,
         UNCHANGED <<masterForms, masterLead, processed, notified>>,
         \A v \in Workers \ {w} :
           pc'[v] = pc[v] /\ msg'[v] = msg[v] /\ seen'[v] = seen[v],
         ReadIsCurrent(w)', FirstNotifies(w)'
  PROVE  OverlapInv'
<1>1. OneHandler' /\ raced \subseteq raced' /\ (raced \subseteq Leads)'
  BY OverlapIsNoted
<1>2. \A l : Silent(l)' <=> Silent(l)
  BY DEF Silent
<1>3. \A v \in Workers : ReadIsCurrent(v)' /\ FirstNotifies(v)'
  <2> SUFFICES ASSUME NEW v \in Workers \ {w}
               PROVE  ReadIsCurrent(v)' /\ FirstNotifies(v)'
    OBVIOUS
  <2>. QED BY <1>1, <1>2, BystanderStep
<1>4. NotifiedHasRow'
  BY <1>1, <1>2 DEF NotifiedHasRow, OverlapInv
<1>5. ProcessedIsCurrent' /\ LeadNotifiedOnce'
  BY <1>1 DEF ProcessedIsCurrent, LeadNotifiedOnce, OverlapInv
<1>. QED BY <1>1, <1>3, <1>4, <1>5 DEF OverlapInv

(* Where a handler is none of the steps that carry a fact. *)
LEMMA CarriesNothing ==
  ASSUME NEW w \in Workers, pc'[w] \notin Past \cup {"store", "dispatch"}
  PROVE  ReadIsCurrent(w)' /\ FirstNotifies(w)'
  BY DEF ReadIsCurrent, FirstNotifies

LEMMA ReadOverlap ==
  ASSUME OverlapInv, IngestInv', OverlapNext, NEW w \in Workers, ReadExisting(w)
  PROVE  OverlapInv'
<1> DEFINE l == msg[w].lead
           sn == masterLead[l].ver
<1>1. IngestTypeOK /\ msg[w] \in Payload /\ l \in Leads /\ msg[w].ver \in Versions
  BY KeyOfPayload DEF ReadExisting, OverlapInv, IngestInv, IngestTypeOK
<1>2. masterLead[l] \in Row /\ sn \in Nat
  BY <1>1, RowVersion DEF IngestTypeOK
<1>3. /\ UNCHANGED <<masterForms, masterLead, processed, notified, msg>>
      /\ \A v \in Workers \ {w} : pc'[v] = pc[v] /\ seen'[v] = seen[v]
      /\ seen'[w] = sn
      /\ pc'[w] = IF IsNewer(msg[w], sn) THEN "store" ELSE "mark"
  BY <1>1 DEF ReadExisting, tables, Goto, IngestTypeOK
<1>4. raced \subseteq raced'
  BY OverlapIsNoted
<1>5. ReadIsCurrent(w)'
  <2>1. ~IsNewer(msg[w], sn) => sn >= msg[w].ver
    BY <1>1, <1>2 DEF IsNewer, Versions
  <2>. QED BY <1>3, <2>1 DEF ReadIsCurrent, Past, IsNewer
<1>6. FirstNotifies(w)'
  <2>1. sn = 0 => masterLead[l] = NoRow
    BY <1>2 DEF Row, Versions
  <2>2. sn = 0 => pc'[w] = "store"
    BY <1>3 DEF IsNewer
  <2>3. l \notin raced' /\ ~IsPaid(l) /\ FormOf[l] \in masterForms
          /\ masterLead[l] = NoRow => Silent(l)
    BY <1>1, <1>4 DEF OverlapInv, NotifiedHasRow
  <2>4. Silent(msg[w].lead)' <=> Silent(l)
    BY <1>3 DEF Silent
  <2>. QED BY <1>3, <2>1, <2>2, <2>3, <2>4 DEF FirstNotifies, Past
<1>. QED BY <1>3, <1>5, <1>6, QuietOverlap

(* The others are at work on other leads. *)
LEMMA OthersElsewhere ==
  ASSUME OverlapInv, OneHandler', NEW w \in Workers, pc[w] # "idle", pc'[w] # "idle",
         UNCHANGED msg,
         NEW v \in Workers \ {w}, pc'[v] = pc[v], pc[v] # "idle",
         msg[v].lead \notin raced'
  PROVE  msg[v].lead # msg[w].lead
  BY DEF OneHandler

LEMMA StoreOverlap ==
  ASSUME OverlapInv, IngestInv', OverlapNext, NEW w \in Workers, UpsertLead(w),
         FormOf[msg[w].lead] \in masterForms
  PROVE  OverlapInv'
<1> DEFINE p == msg[w]
           l == p.lead
<1>1. IngestTypeOK /\ p \in Payload /\ l \in Leads /\ p.ver \in Versions
  BY KeyOfPayload DEF UpsertLead, OverlapInv, IngestInv, IngestTypeOK
<1>2. /\ UNCHANGED <<masterForms, processed, notified, msg, seen>>
      /\ pc[w] = "store"
      /\ pc'[w] \in Past
      /\ \A v \in Workers \ {w} : pc'[v] = pc[v]
      /\ masterLead'[l] = [ver |-> p.ver, otp |-> p.otp]
      /\ \A m \in Leads \ {l} : masterLead'[m] = masterLead[m]
  BY <1>1 DEF UpsertLead, Goto, IngestTypeOK, Past
<1>3. OneHandler' /\ raced \subseteq raced' /\ (raced \subseteq Leads)'
  BY OverlapIsNoted
<1>4. \A m : Silent(m)' <=> Silent(m)
  BY <1>2 DEF Silent
<1>5. ReadIsCurrent(w) /\ FirstNotifies(w)
  BY DEF OverlapInv
<1>6. \A v \in Workers \ {w} : ReadIsCurrent(v)' /\ FirstNotifies(v)'
  <2> SUFFICES ASSUME NEW v \in Workers \ {w}
               PROVE  ReadIsCurrent(v)' /\ FirstNotifies(v)'
    OBVIOUS
  <2>1. pc[v] # "idle" /\ msg[v].lead \notin raced' => msg[v].lead \in Leads \ {l}
    BY <1>1, <1>2, <1>3, OthersElsewhere, KeyOfPayload DEF IngestTypeOK, Past
  <2>. QED BY <1>2, <1>3, <1>4, <2>1, BystanderStep
<1>7. ReadIsCurrent(w)'
  <2>1. masterLead'[l].ver >= p.ver
    BY <1>1, <1>2 DEF Versions
  <2>. QED BY <1>2, <2>1 DEF ReadIsCurrent, Past
<1>8. FirstNotifies(w)'
  <2>1. l \notin raced' /\ ~IsPaid(l) /\ seen[w] = 0 => Silent(l)
    BY <1>2, <1>3, <1>5 DEF FirstNotifies
  <2>2. Silent(msg[w].lead)' <=> Silent(l)
    BY <1>2 DEF Silent
  <2>. QED BY <1>2, <2>1, <2>2 DEF FirstNotifies, Past
<1>9. NotifiedHasRow'
  <2>1. masterLead'[l] # NoRow
    BY <1>1, <1>2 DEF NoRow, Versions
  <2>. QED BY <1>2, <1>3, <1>4, <2>1 DEF NotifiedHasRow, OverlapInv
<1>10. l \notin raced => masterLead'[l].ver >= masterLead[l].ver
  <2>1. masterLead[l].ver \in Nat /\ p.ver \in Nat
    BY <1>1, RowVersion DEF IngestTypeOK, Versions
  <2>2. l \notin raced => seen[w] = masterLead[l].ver /\ IsNewer(p, seen[w])
    BY <1>2, <1>5 DEF ReadIsCurrent
  <2>. QED BY <1>2, <2>1, <2>2 DEF IsNewer
<1>11. ProcessedIsCurrent'
  <2> SUFFICES ASSUME NEW k \in processed, FormOf[k[1]] \in masterForms,
                      k[1] \notin raced'
               PROVE  masterLead'[k[1]].ver >= k[2]
    BY <1>2 DEF ProcessedIsCurrent
  <2>1. masterLead[k[1]].ver >= k[2]
    BY <1>3 DEF ProcessedIsCurrent, OverlapInv
  <2>2. k[1] \in Leads /\ k[2] \in Nat
    BY <1>1 DEF IngestTypeOK, Keys, Versions
  <2>3. masterLead[k[1]].ver \in Nat /\ masterLead'[k[1]].ver \in Nat
    BY <1>1, <2>2, RowVersion DEF IngestTypeOK, IngestInv
  <2>4. masterLead'[k[1]].ver >= masterLead[k[1]].ver
    BY <1>2, <1>3, <1>10, <2>2, <2>3
  <2>. QED BY <2>1, <2>2, <2>3, <2>4
<1>12. LeadNotifiedOnce'
  BY <1>2, <1>3 DEF LeadNotifiedOnce, OverlapInv
<1>. QED BY <1>3, <1>6, <1>7, <1>8, <1>9, <1>11, <1>12 DEF OverlapInv

LEMMA PayOverlap ==
  ASSUME OverlapInv, IngestInv', OverlapNext, NEW w \in Workers, UpsertPayment(w)
  PROVE  OverlapInv'
<1>1. IngestTypeOK
  BY DEF OverlapInv, IngestInv
<1>2. /\ UNCHANGED <<masterForms, masterLead, processed, notified, msg, seen>>
      /\ pc[w] = "pay"
      /\ pc'[w] \in {"mark", "failed"}
      /\ \A v \in Workers \ {w} : pc'[v] = pc[v]
  BY <1>1 DEF UpsertPayment, Goto, IngestTypeOK
<1>3. raced \subseteq raced' /\ ReadIsCurrent(w) /\ FirstNotifies(w)
  BY OverlapIsNoted DEF OverlapInv
<1>4. ReadIsCurrent(w)'
  BY <1>2, <1>3 DEF ReadIsCurrent, Past
<1>5. FirstNotifies(w)'
  <2>1. Silent(msg[w].lead)' <=> Silent(msg[w].lead)
    BY <1>2 DEF Silent
  <2>. QED BY <1>2, <1>3, <2>1 DEF FirstNotifies, Past
<1>. QED BY <1>2, <1>4, <1>5, QuietOverlap

LEMMA MarkOverlap ==
  ASSUME OverlapInv, IngestInv', OverlapNext, NEW w \in Workers, MarkProcessed(w)
  PROVE  OverlapInv'
<1> DEFINE p == msg[w]
           l == p.lead
<1>1. IngestTypeOK /\ p \in Payload /\ l \in Leads /\ Key(p) = <<l, p.ver>>
  BY KeyOfPayload DEF MarkProcessed, OverlapInv, IngestInv, IngestTypeOK, Key
<1>2. /\ UNCHANGED <<masterForms, masterLead, notified, msg, seen>>
      /\ pc[w] = "mark"
      /\ pc'[w] \in {"failed", "dispatch", "accepted"}
      /\ pc'[w] = "dispatch" => ShouldDispatch(p, seen[w])
      /\ processed' \subseteq processed \cup {Key(p)}
      /\ \A v \in Workers \ {w} : pc'[v] = pc[v]
  BY <1>1 DEF MarkProcessed, Goto, IngestTypeOK
<1>3. OneHandler' /\ raced \subseteq raced' /\ (raced \subseteq Leads)'
  BY OverlapIsNoted
<1>4. \A m : Silent(m)' <=> Silent(m)
  BY <1>2 DEF Silent
<1>5. ReadIsCurrent(w) /\ FirstNotifies(w)
  BY DEF OverlapInv
<1>6. \A v \in Workers \ {w} : ReadIsCurrent(v)' /\ FirstNotifies(v)'
  BY <1>2, <1>3, <1>4, BystanderStep
<1>7. ReadIsCurrent(w)'
  BY <1>2 DEF ReadIsCurrent, Past
<1>8. FirstNotifies(w)'
  <2>1. l \notin raced' /\ ~IsPaid(l) /\ seen[w] = 0 => Silent(l)
    BY <1>2, <1>3, <1>5 DEF FirstNotifies, Past
  <2>2. ~IsPaid(l) /\ pc'[w] = "dispatch" => seen[w] = 0
    BY <1>2 DEF ShouldDispatch
  <2>3. Silent(msg[w].lead)' <=> Silent(l)
    BY <1>2 DEF Silent
  <2>. QED BY <1>2, <2>1, <2>2, <2>3 DEF FirstNotifies, Past
<1>9. NotifiedHasRow' /\ LeadNotifiedOnce'
  BY <1>2, <1>3, <1>4 DEF NotifiedHasRow, LeadNotifiedOnce, OverlapInv
<1>10. ProcessedIsCurrent'
  <2>1. l \notin raced /\ FormOf[l] \in masterForms => masterLead[l].ver >= p.ver
    BY <1>2, <1>5 DEF ReadIsCurrent, Past
  <2>2. Key(p)[1] = l /\ Key(p)[2] = p.ver
    BY <1>1
  <2>. QED BY <1>2, <1>3, <2>1, <2>2 DEF ProcessedIsCurrent, OverlapInv
<1>. QED BY <1>3, <1>6, <1>7, <1>8, <1>9, <1>10 DEF OverlapInv

LEMMA DispatchOverlap ==
  ASSUME OverlapInv, IngestInv', OverlapNext, NEW w \in Workers, Dispatch(w)
  PROVE  OverlapInv'
<1> DEFINE p == msg[w]
           l == p.lead
<1>1. /\ IngestTypeOK /\ p \in Payload /\ l \in Leads /\ Key(p) = <<l, p.ver>>
      /\ p.ver \in Versions /\ Key(p) \in Keys
  BY KeyOfPayload DEF Dispatch, OverlapInv, IngestInv, IngestTypeOK, Key
<1>2. /\ UNCHANGED <<masterForms, masterLead, processed, msg, seen>>
      /\ pc[w] = "dispatch"
      /\ pc'[w] = "accepted"
      /\ \A v \in Workers \ {w} : pc'[v] = pc[v]
      /\ \A k \in Keys \ {Key(p)} : notified'[k] = notified[k]
      /\ notified'[Key(p)] = notified[Key(p)] + 1
  BY <1>1 DEF Dispatch, tables, Goto, IngestTypeOK
<1>3. OneHandler' /\ raced \subseteq raced' /\ (raced \subseteq Leads)'
  BY OverlapIsNoted
<1>4. \A m \in Leads \ {l} : \A u \in Versions :
        notified'[<<m, u>>] = notified[<<m, u>>]
  BY <1>1, <1>2 DEF Keys
<1>5. \A m \in Leads \ {l} : Silent(m) => Silent(m)'
  BY <1>4 DEF Silent
<1>6. \A v \in Workers \ {w} : ReadIsCurrent(v)' /\ FirstNotifies(v)'
  <2> SUFFICES ASSUME NEW v \in Workers \ {w}
               PROVE  ReadIsCurrent(v)' /\ FirstNotifies(v)'
    OBVIOUS
  <2>1. pc[v] # "idle" /\ msg[v].lead \notin raced' => msg[v].lead \in Leads \ {l}
    BY <1>1, <1>2, <1>3, OthersElsewhere, KeyOfPayload DEF IngestTypeOK
  <2>. QED BY <1>2, <1>3, <1>5, <2>1, BystanderStep
<1>7. ReadIsCurrent(w)' /\ FirstNotifies(w)'
  BY <1>2, CarriesNothing DEF Past
<1>8. NotifiedHasRow'
  <2>1. FormOf[l] \in masterForms => masterLead[l] # NoRow
    <3>1. Key(p) \in processed /\ Key(p)[1] = l
      BY <1>1, <1>2 DEF OverlapInv, IngestInv, OneDispatcher
    <3>. QED BY <3>1 DEF OverlapInv, IngestInv, ProcessedIsStored
  <2>. QED BY <1>2, <1>3, <1>5, <2>1 DEF NotifiedHasRow, OverlapInv
<1>9. LeadNotifiedOnce'
  <2> SUFFICES ASSUME NEW m \in Leads \ raced', ~IsPaid(m)
               PROVE  notified'[<<m, 1>>] + notified'[<<m, 2>>] <= 1
    BY DEF LeadNotifiedOnce, IsPaid
  <2>1. CASE m # l
    BY <1>3, <1>4, <2>1 DEF LeadNotifiedOnce, OverlapInv, Versions
  <2>2. CASE m = l
    <3>1. Silent(l)
      BY <1>2, <1>3, <2>2 DEF OverlapInv, FirstNotifies
    <3>2. notified[<<l, 1>>] = 0 /\ notified[<<l, 2>>] = 0
      BY <3>1 DEF Silent, Versions
    <3>3. <<l, 1>> \in Keys /\ <<l, 2>> \in Keys
      BY <1>1 DEF Keys, Versions
    <3>4. CASE p.ver = 1
      <4>1. Key(p) = <<l, 1>> /\ <<l, 2>> # Key(p)
        BY <1>1, <3>4
      <4>. QED BY <1>2, <2>2, <3>2, <3>3, <4>1
    <3>5. CASE p.ver = 2
      <4>1. Key(p) = <<l, 2>> /\ <<l, 1>> # Key(p)
        BY <1>1, <3>5
      <4>. QED BY <1>2, <2>2, <3>2, <3>3, <4>1
    <3>. QED BY <1>1, <3>4, <3>5 DEF Versions
  <2>. QED BY <2>1, <2>2
<1>10. ProcessedIsCurrent'
  BY <1>2, <1>3 DEF ProcessedIsCurrent, OverlapInv
<1>. QED BY <1>3, <1>6, <1>7, <1>8, <1>9, <1>10 DEF OverlapInv

LEMMA DeleteOverlap ==
  ASSUME OverlapInv, IngestInv', OverlapNext, NEW f \in Forms, DeleteForm(f)
  PROVE  OverlapInv'
<1>1. /\ UNCHANGED <<processed, notified, pc, msg, seen>>
      /\ masterForms' \subseteq masterForms
      /\ \A l \in Leads : FormOf[l] \in masterForms' =>
           masterLead'[l] = masterLead[l]
  BY DEF DeleteForm, handlers
<1>2. OneHandler' /\ raced \subseteq raced' /\ (raced \subseteq Leads)'
  BY OverlapIsNoted
<1>3. \A l : Silent(l)' <=> Silent(l)
  BY <1>1 DEF Silent
<1>4. \A v \in Workers : ReadIsCurrent(v)' /\ FirstNotifies(v)'
  <2> SUFFICES ASSUME NEW v \in Workers
               PROVE  ReadIsCurrent(v)' /\ FirstNotifies(v)'
    OBVIOUS
  <2>1. pc[v] # "idle" => msg[v].lead \in Leads
    BY KeyOfPayload DEF OverlapInv, IngestInv, IngestTypeOK
  <2>. QED BY <1>1, <1>2, <1>3, <2>1, BystanderStep
<1>5. NotifiedHasRow' /\ LeadNotifiedOnce'
  BY <1>1, <1>2, <1>3 DEF NotifiedHasRow, LeadNotifiedOnce, OverlapInv
<1>6. ProcessedIsCurrent'
  <2>1. \A k \in processed : k[1] \in Leads
    BY DEF OverlapInv, IngestInv, IngestTypeOK, Keys
  <2>. QED BY <1>1, <1>2, <2>1 DEF ProcessedIsCurrent, OverlapInv
<1>. QED BY <1>2, <1>4, <1>5, <1>6 DEF OverlapInv

LEMMA CrashOverlap ==
  ASSUME OverlapInv, IngestInv', OverlapNext, Crash
  PROVE  OverlapInv'
<1>1. UNCHANGED <<masterForms, masterLead, processed, notified>>
  BY DEF Crash, tables
<1>2. OneHandler' /\ raced \subseteq raced' /\ (raced \subseteq Leads)'
  BY OverlapIsNoted
<1>3. \A w \in Workers : ReadIsCurrent(w)' /\ FirstNotifies(w)'
  BY DEF Crash, ReadIsCurrent, FirstNotifies
<1>4. NotifiedHasRow'
  <2>1. \A l : Silent(l)' <=> Silent(l)
    BY <1>1 DEF Silent
  <2>. QED BY <1>1, <1>2, <2>1 DEF NotifiedHasRow, OverlapInv
<1>5. ProcessedIsCurrent' /\ LeadNotifiedOnce'
  BY <1>1, <1>2 DEF ProcessedIsCurrent, LeadNotifiedOnce, OverlapInv
<1>. QED BY <1>2, <1>3, <1>4, <1>5 DEF OverlapInv

LEMMA OverlapNextInv == OverlapInv /\ [OverlapNext]_overlapVars => OverlapInv'
<1> SUFFICES ASSUME OverlapInv, [OverlapNext]_overlapVars
             PROVE  OverlapInv'
  OBVIOUS
<1>1. IngestInv' /\ IngestTypeOK
  BY NextInv DEF OverlapInv, IngestInv, OverlapNext, overlapVars, ingestVars
<1>2. CASE UNCHANGED overlapVars
  BY <1>1, <1>2
     DEF overlapVars, ingestVars, OverlapInv, OneHandler, ReadIsCurrent, FirstNotifies,
         NotifiedHasRow, ProcessedIsCurrent, LeadNotifiedOnce, Silent, IsNewer
<1>3. CASE OverlapNext
  <2>1. ASSUME NEW w \in Workers, NEW l \in Leads, NEW p \in Snapshots(l),
               Deliver(w, p)
        PROVE  OverlapInv'
    <3>1. /\ pc'[w] = "check"
          /\ UNCHANGED <<masterForms, masterLead, processed, notified>>
          /\ \A v \in Workers \ {w} :
               pc'[v] = pc[v] /\ msg'[v] = msg[v] /\ seen'[v] = seen[v]
      BY <1>1, <2>1 DEF Deliver, tables, Goto, IngestTypeOK
    <3>. QED BY <1>1, <1>3, <3>1, QuietOverlap, CarriesNothing DEF Past
  <2>2. ASSUME NEW w \in Workers,
               CheckProcessed(w) \/ FindForm(w) \/ Finish(w)
        PROVE  OverlapInv'
    <3>1. /\ pc'[w] \in {"duplicate", "form", "read", "failed", "idle"}
          /\ UNCHANGED <<masterForms, masterLead, processed, notified>>
          /\ \A v \in Workers \ {w} :
               pc'[v] = pc[v] /\ msg'[v] = msg[v] /\ seen'[v] = seen[v]
      BY <1>1, <2>2 DEF CheckProcessed, FindForm, Finish, tables, Goto, IngestTypeOK
    <3>2. pc'[w] \notin Past \cup {"store", "dispatch"}
      BY <3>1 DEF Past
    <3>. QED BY <1>1, <1>3, <3>1, <3>2, QuietOverlap, CarriesNothing
  <2>3. ASSUME NEW w \in Workers, ReadExisting(w)
        PROVE  OverlapInv'
    BY <1>1, <1>3, <2>3, ReadOverlap
  <2>4. ASSUME NEW w \in Workers, UpsertLead(w)
        PROVE  OverlapInv'
    <3>1. CASE FormOf[msg[w].lead] \in masterForms
      BY <1>1, <1>3, <2>4, <3>1, StoreOverlap
    <3>2. CASE FormOf[msg[w].lead] \notin masterForms
      <4>1. /\ pc'[w] = "failed"
            /\ UNCHANGED <<masterForms, masterLead, processed, notified, msg, seen>>
            /\ \A v \in Workers \ {w} : pc'[v] = pc[v]
        BY <1>1, <2>4, <3>2 DEF UpsertLead, Goto, IngestTypeOK
      <4>. QED BY <1>1, <1>3, <4>1, QuietOverlap, CarriesNothing DEF Past
    <3>. QED BY <3>1, <3>2
  <2>5. ASSUME NEW w \in Workers, UpsertPayment(w)
        PROVE  OverlapInv'
    BY <1>1, <1>3, <2>5, PayOverlap
  <2>6. ASSUME NEW w \in Workers, MarkProcessed(w)
        PROVE  OverlapInv'
    BY <1>1, <1>3, <2>6, MarkOverlap
  <2>7. ASSUME NEW w \in Workers, Dispatch(w)
        PROVE  OverlapInv'
    BY <1>1, <1>3, <2>7, DispatchOverlap
  <2>8. ASSUME NEW f \in Forms, DeleteForm(f)
        PROVE  OverlapInv'
    BY <1>1, <1>3, <2>8, DeleteOverlap
  <2>9. CASE Crash
    BY <1>1, <1>3, <2>9, CrashOverlap
  <2>. QED
    BY <1>3, <2>1, <2>2, <2>3, <2>4, <2>5, <2>6, <2>7, <2>8, <2>9
       DEF OverlapNext, IngestNext, WorkerStep
<1>. QED BY <1>2, <1>3

(***************************************************************************)
(* The invariant of the handlers of one lead holds throughout.             *)
(***************************************************************************)
THEOREM OverlapInvariant == OverlapSpec => []OverlapInv
  BY OverlapInitInv, OverlapNextInv, PTL DEF OverlapSpec

(***************************************************************************)
(* In whatever order its versions come, and however often, the master's    *)
(* copy is at least as new as every version it calls processed.            *)
(***************************************************************************)
THEOREM ProcessedVersionsAreStored == OverlapSpec => []ProcessedIsCurrent
<1>1. OverlapInv => ProcessedIsCurrent
  BY DEF OverlapInv
<1>. QED BY <1>1, OverlapInvariant, PTL

(***************************************************************************)
(* A lead without payment reaches the webhook once, not once per version.  *)
(***************************************************************************)
THEOREM UnpaidLeadsAreNotifiedOnce == OverlapSpec => []LeadNotifiedOnce
<1>1. OverlapInv => LeadNotifiedOnce
  BY DEF OverlapInv
<1>. QED BY <1>1, OverlapInvariant, PTL
-----------------------------------------------------------------------------
VersionKept ==
  \A l \in Leads \ raced : \/ masterLead'[l].ver >= masterLead[l].ver
                           \/ FormOf[l] \notin masterForms'

LEMMA StepKeepsVersion ==
  OverlapInv /\ [OverlapNext]_overlapVars => [VersionKept]_overlapVars
<1> SUFFICES ASSUME OverlapInv, OverlapNext
             PROVE  VersionKept
  OBVIOUS
<1>1. IngestTypeOK /\ \A l \in Leads : masterLead[l].ver \in Nat
  BY RowVersion DEF OverlapInv, IngestInv, IngestTypeOK
<1>2. CASE UNCHANGED masterLead
  BY <1>1, <1>2 DEF VersionKept
<1>3. ASSUME NEW w \in Workers, UpsertLead(w), FormOf[msg[w].lead] \in masterForms
      PROVE  VersionKept
  <2>1. /\ msg[w] \in Payload
        /\ msg[w].ver \in Nat
        /\ pc[w] = "store"
    BY <1>1, <1>3, KeyOfPayload DEF UpsertLead, IngestTypeOK, Versions
  <2>2. masterLead' = [masterLead EXCEPT ![msg[w].lead] =
                         [ver |-> msg[w].ver, otp |-> msg[w].otp]]
    BY <1>3 DEF UpsertLead
  <2>3. msg[w].lead \notin raced => msg[w].ver >= masterLead[msg[w].lead].ver
    <3>1. msg[w].lead \notin raced => /\ seen[w] = masterLead[msg[w].lead].ver
                                      /\ IsNewer(msg[w], seen[w])
      BY <1>3, <2>1 DEF OverlapInv, ReadIsCurrent
    <3>2. masterLead[msg[w].lead].ver \in Nat
      BY <1>1, <2>1, KeyOfPayload
    <3>. QED BY <2>1, <3>1, <3>2 DEF IsNewer
  <2>. QED BY <1>1, <2>1, <2>2, <2>3 DEF VersionKept, IngestTypeOK
<1>4. ASSUME NEW f \in Forms, DeleteForm(f)
      PROVE  VersionKept
  <2>1. \A l \in Leads : FormOf[l] # f => masterLead'[l] = masterLead[l]
    BY <1>4 DEF DeleteForm
  <2>2. f \notin masterForms'
    BY <1>4 DEF DeleteForm
  <2>. QED BY <1>1, <2>1, <2>2 DEF VersionKept
<1>. QED
  <2>1. ASSUME NEW w \in Workers, UpsertLead(w)
        PROVE  \/ UNCHANGED masterLead
               \/ FormOf[msg[w].lead] \in masterForms
    BY <2>1 DEF UpsertLead
  <2>2. ASSUME NEW w \in Workers,
               \/ \E l \in Leads : \E p \in Snapshots(l) : Deliver(w, p)
               \/ CheckProcessed(w) \/ FindForm(w) \/ ReadExisting(w)
               \/ UpsertPayment(w) \/ MarkProcessed(w) \/ Dispatch(w) \/ Finish(w)
        PROVE  UNCHANGED masterLead
    BY <2>2 DEF Deliver, CheckProcessed, FindForm, ReadExisting, UpsertPayment,
                MarkProcessed, Dispatch, Finish, tables
  <2>3. CASE Crash
    BY <1>2, <2>3 DEF Crash, tables
  <2>. QED
    BY <1>2, <1>3, <1>4, <2>1, <2>2, <2>3 DEF OverlapNext, IngestNext, WorkerStep

(***************************************************************************)
(* The master never goes back to an older version of a lead.               *)
(***************************************************************************)
THEOREM VersionsNeverRegress == OverlapSpec => VersionNeverRegresses
<1>1. OverlapInv /\ [OverlapNext]_overlapVars =>
        [\A l \in Leads \ raced : \/ masterLead'[l].ver >= masterLead[l].ver
                                  \/ FormOf[l] \notin masterForms']_overlapVars
  BY StepKeepsVersion DEF VersionKept
<1>. QED
  BY <1>1, OverlapInvariant, PTL DEF OverlapSpec, VersionNeverRegresses
-----------------------------------------------------------------------------

(* What a message says of its lead is true of the edge's row, now and from *)
(* then on.                                                                *)
TrueOf(rows, p) ==
  /\ p \in Snapshots(p.lead)
  /\ p.ver <= rows[p.lead].ver
  /\ p.pay = "COMPLETED" => rows[p.lead].pay = "COMPLETED"

Known(p) == TrueOf(edgeLead, p)

AllKnown ==
  /\ \A i \in 1..Len(outbox) : Known(outbox[i].p)
  /\ \A i \in 1..Len(wire) : Known(wire[i])
  /\ \A i \in 1..Len(queue) : Known(queue[i])
  /\ \A w \in Workers : pc[w] # "idle" => Known(msg[w])
  /\ \A w \in Workers : \A i \in 1..Len(rest[w]) : Known(rest[w][i])

(* How the row of a lead, its payment and its unfinished request fit: a    *)
(* payment is opened once, after the OTP step, and is not reset later.     *)
LeadShape(l) ==
  LET e == edgeLead[l]
  IN  /\ e.otp = "UNVERIFIED" => HasOtp(l) /\ e.pay = "NONE"
      /\ e.pay # "NONE" => IsPaid(l) /\ (HasOtp(l) => e.ver = 2)
      /\ request[l] = "opening" => /\ e.pay = "NONE" /\ e.otp = "VERIFIED"
                                   /\ IsPaid(l) /\ e.ver = 2
      /\ request[l] = "settling" => e.pay = "COMPLETED"

EdgeInv == AllKnown /\ \A l \in Leads : LeadShape(l)

(* Why the webhook hears only of paid leads. *)
DispatchesPaid ==
  \A w \in Workers :
    pc[w] = "dispatch" /\ IsPaid(msg[w].lead) => msg[w].pay = "COMPLETED"

MasterInv ==
  IngestInv /\ DispatchesPaid /\ NotifiedOnlyPaid /\ MasterNeverAhead

(* The handler that consumes has the head of the queue. *)
ConsumerAtHead ==
  /\ \A w \in Workers : via[w] = "amqp" =>
       queue # <<>> /\ msg[w] = Head(queue) /\ rest[w] = <<>>
  /\ \A v, w \in Workers : via[v] = "amqp" /\ via[w] = "amqp" => v = w
  /\ \A w \in Workers : pc[w] = "idle" => rest[w] = <<>>

Push == {"call", "post"}

(* The handler the edge waits for was started by the push that is running, *)
(* and by a push of a single row it has that row.                          *)
PushInHand ==
  /\ fpc \in {"assert", "mark", "call", "post"} => todo # <<>>
  /\ \A w \in Workers : via[w] \in Push => sent /\ via[w] = fpc
  /\ \A w \in Workers : via[w] = "call" =>
       rest[w] = <<>> /\ msg[w] = outbox[Head(todo)].p
  /\ \A v, w \in Workers : via[v] \in Push /\ via[w] \in Push => v = w

LinkInv == ConsumerAtHead /\ PushInHand

(* Whatever is not called failed has been handled. *)
TrueAnswer(handled, a) == a.status # "failed" => a.key \in handled

True(a) == TrueAnswer(processed, a)

AnswersAreTrue ==
  /\ \A w \in Workers : pc[w] \in {"accepted", "duplicate"} =>
       Key(msg[w]) \in processed
  /\ \A w \in Workers : \A i \in 1..Len(results[w]) : True(results[w][i])
  /\ \A i \in 1..Len(answers) : True(answers[i])

(* A lead's message is handled, on its way, or lost with a socket buffer. *)
SafeIn(handled, q, buffer, lost, p) ==
  \/ Key(p) \in handled
  \/ p \in Elements(q) \cup Elements(buffer) \cup lost

Safe(p) == SafeIn(processed, queue, wire, dropped, p)

SafeInv ==
  /\ AnswersAreTrue
  /\ \A i \in 1..Len(outbox) :
       outbox[i].key \in Keys => outbox[i].key = Key(outbox[i].p)
  /\ fpc = "mark" => Safe(outbox[Head(todo)].p)
  /\ SentIsSafe

SyncInv ==
  TypeOK /\ EdgeInv /\ MasterInv /\ LinkInv /\ SafeInv /\ VersionsAreQueued
-----------------------------------------------------------------------------
(***************************************************************************)
(* The outbox: a stamp changes the status and the attempts of one row, and *)
(* every other row, and every key and payload, stays.                      *)
(***************************************************************************)
Status == {"PENDING", "SENT", "FAILED"}

(* The rows of before keep their keys and payloads, whatever else happens. *)
RowsKept ==
  /\ Len(outbox') >= Len(outbox)
  /\ \A j \in 1..Len(outbox) : /\ outbox'[j].key = outbox[j].key
                               /\ outbox'[j].p = outbox[j].p

LEMMA EventOfRow ==
  ASSUME outbox \in Seq(Event), NEW j \in 1..Len(outbox)
  PROVE  /\ outbox[j] \in Event
         /\ outbox[j].p \in Payload /\ outbox[j].key \in EventKey
         /\ outbox[j].status \in Status /\ outbox[j].attempts \in Nat
<1>1. outbox[j] \in Event
  OBVIOUS
<1>. QED BY <1>1 DEF Event, Status

LEMMA StampedEvent ==
  ASSUME NEW e \in Event, NEW st \in Status
  PROVE  /\ Stamped(e, st) \in Event
         /\ Stamped(e, st).key = e.key /\ Stamped(e, st).p = e.p
         /\ Stamped(e, st).status = st
<1>1. ASSUME NEW n \in Nat
      PROVE  LET row == [e EXCEPT !.status = st, !.attempts = n]
             IN  /\ row \in Event
                 /\ row.key = e.key /\ row.p = e.p /\ row.status = st
  BY DEF Event, Status
<1>2. e.attempts + 1 \in Nat
  BY DEF Event
<1>. QED BY <1>1, <1>2 DEF Stamped

LEMMA StampRow ==
  ASSUME outbox \in Seq(Event), NEW i \in 1..Len(outbox), NEW st \in Status,
         Stamp(i, st)
  PROVE  /\ outbox' \in Seq(Event)
         /\ Len(outbox') = Len(outbox)
         /\ RowsKept
         /\ outbox'[i].status = st
         /\ \A j \in 1..Len(outbox) : j # i => outbox'[j] = outbox[j]
<1> DEFINE row == Stamped(outbox[i], st)
<1>1. outbox[i] \in Event
  BY EventOfRow
<1>2. /\ row \in Event
      /\ row.key = outbox[i].key /\ row.p = outbox[i].p /\ row.status = st
  BY <1>1, StampedEvent
<1>3. outbox' = [outbox EXCEPT ![i] = row]
  BY DEF Stamp
<1> HIDE DEF row
<1>4. /\ outbox' \in Seq(Event)
      /\ Len(outbox') = Len(outbox)
      /\ outbox'[i] = row
      /\ \A j \in 1..Len(outbox) : j # i => outbox'[j] = outbox[j]
  BY <1>2, <1>3
<1>. QED BY <1>2, <1>4 DEF RowsKept

LEMMA FailedBatch ==
  ASSUME outbox \in Seq(Event), FailBatch
  PROVE  /\ outbox' \in Seq(Event)
         /\ Len(outbox') = Len(outbox)
         /\ RowsKept
         /\ \A j \in 1..Len(outbox) :
              outbox'[j].status = "SENT" => outbox[j].status = "SENT"
<1> DEFINE InBatch(i) == \E j \in 1..Len(todo) : todo[j] = i
           New(i) == IF InBatch(i) THEN Stamped(outbox[i], "FAILED")
                                   ELSE outbox[i]
<1>1. outbox' = [i \in 1..Len(outbox) |-> New(i)]
  BY DEF FailBatch
<1>2. ASSUME NEW i \in 1..Len(outbox)
      PROVE  /\ New(i) \in Event
             /\ New(i).key = outbox[i].key /\ New(i).p = outbox[i].p
             /\ New(i).status = "SENT" => outbox[i].status = "SENT"
  <2>1. outbox[i] \in Event
    BY EventOfRow
  <2> HIDE DEF InBatch
  <2>. QED BY <2>1, StampedEvent DEF Status
<1> HIDE DEF New
<1>3. /\ outbox' \in Seq(Event) /\ Len(outbox') = Len(outbox)
      /\ \A i \in 1..Len(outbox) : outbox'[i] = New(i)
  <2>1. Len(outbox) \in Nat
    OBVIOUS
  <2>2. \A i \in 1..Len(outbox) : New(i) \in Event
    BY <1>2
  <2>. QED BY <1>1, <2>1, <2>2
<1>. QED BY <1>2, <1>3 DEF RowsKept

LEMMA AppendedRow ==
  ASSUME outbox \in Seq(Event), NEW k \in EventKey, NEW p \in Payload,
         outbox' = Append(outbox, NewEvent(k, p))
  PROVE  /\ outbox' \in Seq(Event)
         /\ Len(outbox') = Len(outbox) + 1
         /\ RowsKept
         /\ \A j \in 1..Len(outbox) : outbox'[j] = outbox[j]
         /\ outbox'[Len(outbox')] = NewEvent(k, p)
<1>1. NewEvent(k, p) \in Event
  BY DEF NewEvent, Event
<1>. QED BY <1>1 DEF RowsKept

LEMMA BatchIsOfRows ==
  ASSUME outbox \in Seq(Event), NEW b \in Batches
  PROVE  b \in Seq(1..Len(outbox)) /\ b # <<>>
<1>1. PICK n \in 1..BatchSize : b \in [1..n -> Sendable]
  BY DEF Batches
<1>2. n \in Nat \ {0} /\ Sendable \subseteq 1..Len(outbox)
  BY OutboxAssumption DEF Sendable
<1>3. b \in [1..n -> 1..Len(outbox)]
  BY <1>1, <1>2
<1>. QED BY <1>2, <1>3
-----------------------------------------------------------------------------
(***************************************************************************)
(* The snapshots of a lead and its row.                                    *)
(***************************************************************************)
LEMMA SnapshotFields ==
  ASSUME NEW l \in Leads
  PROVE  /\ Captured(l) \in Payload /\ Captured(l).lead = l
         /\ Captured(l).ver = 1 /\ Captured(l).pay \in {"NONE", "PENDING"}
         /\ Captured(l).otp = IF HasOtp(l) THEN "UNVERIFIED" ELSE "NOT_REQUIRED"
         /\ Captured(l).pay = "PENDING" => IsPaid(l) /\ ~HasOtp(l)
         /\ Verified(l) \in Payload /\ Verified(l).lead = l
         /\ Verified(l).ver = 2 /\ Verified(l).pay \in {"NONE", "PENDING"}
         /\ Paid(l) \in Payload /\ Paid(l).lead = l
         /\ Paid(l).ver = IF HasOtp(l) THEN 2 ELSE 1
         /\ Paid(l).pay = "COMPLETED"
<1> USE DEF Payload, Versions, OtpStatus, PayStatus
<1>1. /\ Captured(l) \in Payload /\ Captured(l).lead = l
      /\ Captured(l).ver = 1 /\ Captured(l).pay \in {"NONE", "PENDING"}
      /\ Captured(l).otp = IF HasOtp(l) THEN "UNVERIFIED" ELSE "NOT_REQUIRED"
      /\ Captured(l).pay = "PENDING" => IsPaid(l) /\ ~HasOtp(l)
  BY DEF Captured
<1>2. /\ Verified(l) \in Payload /\ Verified(l).lead = l
      /\ Verified(l).ver = 2 /\ Verified(l).pay \in {"NONE", "PENDING"}
  BY <1>1 DEF Verified
<1>3. \A q \in Payload :
        LET paid == [q EXCEPT !.pay = "COMPLETED"]
        IN  /\ paid \in Payload /\ paid.lead = q.lead
            /\ paid.ver = q.ver /\ paid.pay = "COMPLETED"
  OBVIOUS
<1>4. /\ Paid(l) \in Payload /\ Paid(l).lead = l
      /\ Paid(l).ver = IF HasOtp(l) THEN 2 ELSE 1
      /\ Paid(l).pay = "COMPLETED"
  BY <1>1, <1>2, <1>3 DEF Paid
<1>. QED BY <1>1, <1>2, <1>4

LEMMA EdgeRowFields ==
  ASSUME NEW e \in EdgeRow
  PROVE  /\ e.ver \in 0..2 /\ e.pay \in PayStatus
         /\ e = NoLead => e.ver = 0 /\ e.otp = "NONE" /\ e.pay = "NONE"
         /\ e # NoLead => /\ e \in [ver : Versions, otp : OtpStatus, pay : PayStatus]
                          /\ e.ver \in Versions
  BY DEF EdgeRow, NoLead, Versions, PayStatus

LEMMA EdgeRowUpdates ==
  ASSUME NEW e \in EdgeRow, e # NoLead
  PROVE  /\ LET new == [e EXCEPT !.ver = 2, !.otp = "VERIFIED"]
            IN  /\ new \in EdgeRow /\ new.ver = 2 /\ new.otp = "VERIFIED"
                /\ new.pay = e.pay
         /\ \A pay \in PayStatus :
              LET new == [e EXCEPT !.pay = pay]
              IN  /\ new \in EdgeRow /\ new.ver = e.ver /\ new.otp = e.otp
                  /\ new.pay = pay
<1>1. e \in [ver : Versions, otp : OtpStatus, pay : PayStatus]
  BY EdgeRowFields
<1>. QED BY <1>1 DEF EdgeRow, Versions, OtpStatus, PayStatus

Shapes == \A l \in Leads : LeadShape(l)

(***************************************************************************)
(* What a user's step does to the edge's rows of a lead: its row moves     *)
(* forward, and at most one event about it is queued.                      *)
(***************************************************************************)
Forward(l) ==
  /\ edgeLead' \in [Leads -> EdgeRow]
  /\ \A k \in Leads : k # l => edgeLead'[k] = edgeLead[k]
  /\ edgeLead'[l].ver \in edgeLead[l].ver..edgeLead[l].ver + 1
  /\ edgeLead[l].pay = "COMPLETED" => edgeLead'[l].pay = "COMPLETED"

Queued(l, k, p) ==
  /\ outbox' = Append(outbox, NewEvent(k, p))
  /\ k \in EventKey /\ p \in Payload
  /\ k \in Keys => k = Key(p)
  /\ p.lead = l /\ p \in Snapshots(l)
  /\ p.ver <= edgeLead'[l].ver
  /\ p.pay = "COMPLETED" => edgeLead'[l].pay = "COMPLETED"

LEMMA UserStep ==
  ASSUME EdgeTypeOK, Shapes, NEW l \in Leads, User(l)
  PROVE  /\ Forward(l)
         /\ Shapes'
         /\ request' \in [Leads -> {"none", "opening", "settling"}]
         /\ \/ outbox' = outbox /\ edgeLead'[l].ver = edgeLead[l].ver
            \/ \E k \in EventKey, p \in Payload : 
                 /\ Queued(l, k, p)
                 /\ edgeLead'[l].ver # edgeLead[l].ver =>
                      k = <<l, edgeLead'[l].ver>>
         /\ UNCHANGED <<fpc, todo, urls, answers, channel, wire>>
<1> USE DEF Forward, captureVars, flushVars
<1>0. /\ edgeLead \in [Leads -> EdgeRow] /\ edgeLead[l] \in EdgeRow
      /\ request \in [Leads -> {"none", "opening", "settling"}]
      /\ LeadShape(l)
  BY DEF EdgeTypeOK, Shapes
<1>a. ASSUME NEW p \in Payload, p.lead = l
      PROVE  /\ VersionKey(p) = <<l, p.ver>>
             /\ VersionKey(p) = Key(p)
             /\ VersionKey(p) \in EventKey
  BY <1>a DEF VersionKey, Key, EventKey, Payload, Versions
<1>1. CASE Capture(l)
  <2> DEFINE p == Captured(l)
             e == [ver |-> 1, otp |-> p.otp, pay |-> p.pay]
  <2>1. /\ e \in EdgeRow /\ e.ver = 1 /\ e.otp = p.otp /\ e.pay = p.pay
        /\ edgeLead[l].ver = 0 /\ edgeLead[l].pay = "NONE"
    BY <1>0, <1>1, SnapshotFields
       DEF Capture, NoLead, EdgeRow, Versions, OtpStatus, PayStatus
  <2>2. edgeLead' = [edgeLead EXCEPT ![l] = e] /\ request' = request
    BY <1>1 DEF Capture
  <2>3. edgeLead'[l] = e
    BY <1>0, <2>2
  <2>4. Shapes'
    BY <1>0, <2>1, <2>2, <2>3, SnapshotFields DEF Shapes, LeadShape
  <2>5. Queued(l, VersionKey(p), p)
    BY <1>1, <1>a, <2>1, <2>3, SnapshotFields DEF Capture, Queued, Snapshots
  <2>6. VersionKey(p) = <<l, edgeLead'[l].ver>>
    BY <1>a, <2>1, <2>3, SnapshotFields
  <2>7. VersionKey(p) \in EventKey /\ p \in Payload
    BY <1>a, SnapshotFields
  <2>8. Forward(l)
    BY <1>0, <2>1, <2>2, <2>3
  <2> HIDE DEF p, e
  <2>. QED BY <1>0, <1>1, <2>2, <2>4, <2>5, <2>6, <2>7, <2>8 DEF Capture
<1>2. CASE VerifyOtp(l)
  <2> DEFINE p == Verified(l)
             e == [edgeLead[l] EXCEPT !.ver = 2, !.otp = "VERIFIED"]
  <2>1. edgeLead[l] # NoLead /\ edgeLead[l].ver \in 1..2
    BY <1>0, <1>2, EdgeRowFields DEF VerifyOtp, Versions
  <2>2. e \in EdgeRow /\ e.ver = 2 /\ e.otp = "VERIFIED" /\ e.pay = edgeLead[l].pay
    BY <1>0, <2>1, EdgeRowUpdates
  <2>3. edgeLead' = [edgeLead EXCEPT ![l] = e]
    BY <1>2 DEF VerifyOtp
  <2> HIDE DEF e
  <2>4. edgeLead'[l] = e
    BY <1>0, <2>3
  <2>5. HasOtp(l) /\ edgeLead[l].pay = "NONE"
    BY <1>0, <1>2 DEF VerifyOtp, LeadShape
  <2>6. Shapes'
    BY <1>0, <1>2, <2>2, <2>3, <2>4, <2>5 DEF VerifyOtp, Shapes, LeadShape
  <2>7. Queued(l, VersionKey(p), p)
    BY <1>2, <1>a, <2>2, <2>4, <2>5, SnapshotFields DEF VerifyOtp, Queued, Snapshots
  <2>8. VersionKey(p) = <<l, edgeLead'[l].ver>>
    BY <1>a, <2>2, <2>4, SnapshotFields
  <2>9. VersionKey(p) \in EventKey /\ p \in Payload
    BY <1>a, SnapshotFields
  <2>10. Forward(l)
    BY <1>0, <2>1, <2>2, <2>3, <2>4, <2>5
  <2> HIDE DEF p
  <2>. QED BY <1>0, <1>2, <2>6, <2>7, <2>8, <2>9, <2>10 DEF VerifyOtp
<1>3. ASSUME NEW pay \in PayStatus, edgeLead[l] # NoLead,
             edgeLead' = [edgeLead EXCEPT ![l].pay = pay]
      PROVE  /\ edgeLead' \in [Leads -> EdgeRow]
             /\ \A k \in Leads : k # l => edgeLead'[k] = edgeLead[k]
             /\ edgeLead'[l].ver = edgeLead[l].ver
             /\ edgeLead'[l].otp = edgeLead[l].otp
             /\ edgeLead'[l].pay = pay
  <2> DEFINE e == [edgeLead[l] EXCEPT !.pay = pay]
  <2>1. edgeLead' = [edgeLead EXCEPT ![l] = e]
    BY <1>3
  <2>2. /\ e \in EdgeRow /\ e.ver = edgeLead[l].ver /\ e.otp = edgeLead[l].otp
        /\ e.pay = pay
    BY <1>0, <1>3, EdgeRowUpdates
  <2> HIDE DEF e
  <2>. QED BY <1>0, <2>1, <2>2
<1>4. CASE OpenPayment(l)
  <2>1. /\ edgeLead[l] # NoLead /\ edgeLead[l].pay = "NONE"
        /\ edgeLead' = [edgeLead EXCEPT ![l].pay = "PENDING"]
        /\ request' = [request EXCEPT ![l] = "none"]
    BY <1>0, <1>4 DEF OpenPayment, LeadShape, NoLead
  <2>2. /\ edgeLead' \in [Leads -> EdgeRow]
        /\ \A k \in Leads : k # l => edgeLead'[k] = edgeLead[k]
        /\ edgeLead'[l].ver = edgeLead[l].ver
        /\ edgeLead'[l].otp = edgeLead[l].otp
        /\ edgeLead'[l].pay = "PENDING"
    BY <1>3, <2>1 DEF PayStatus
  <2>3. Shapes'
    BY <1>0, <1>4, <2>1, <2>2 DEF OpenPayment, Shapes, LeadShape
  <2>. QED
    BY <1>0, <1>4, <2>1, <2>2, <2>3, EdgeRowFields DEF OpenPayment
<1>5. CASE CompletePayment(l)
  <2>1. /\ edgeLead[l] # NoLead /\ edgeLead[l].pay = "PENDING"
        /\ edgeLead' = [edgeLead EXCEPT ![l].pay = "COMPLETED"]
        /\ request' = [request EXCEPT ![l] = "settling"]
    BY <1>0, <1>5 DEF CompletePayment, NoLead
  <2>2. /\ edgeLead' \in [Leads -> EdgeRow]
        /\ \A k \in Leads : k # l => edgeLead'[k] = edgeLead[k]
        /\ edgeLead'[l].ver = edgeLead[l].ver
        /\ edgeLead'[l].otp = edgeLead[l].otp
        /\ edgeLead'[l].pay = "COMPLETED"
    BY <1>3, <2>1 DEF PayStatus
  <2>3. Shapes'
    BY <1>0, <1>5, <2>1, <2>2 DEF CompletePayment, Shapes, LeadShape
  <2>. QED
    BY <1>0, <1>5, <2>1, <2>2, <2>3, EdgeRowFields DEF CompletePayment
<1>6. CASE EnqueuePayment(l)
  <2>1. /\ edgeLead' = edgeLead /\ edgeLead[l].pay = "COMPLETED"
        /\ request' = [request EXCEPT ![l] = "none"]
    BY <1>0, <1>6 DEF EnqueuePayment, LeadShape
  <2>2. IsPaid(l) /\ (HasOtp(l) => edgeLead[l].ver = 2) /\ edgeLead[l] # NoLead
    BY <1>0, <2>1 DEF LeadShape, NoLead
  <2>3. PaymentKey(l) \in EventKey /\ PaymentKey(l) \notin Keys
    BY DEF PaymentKey, EventKey, Keys, Versions
  <2>4. edgeLead[l].ver >= 1
    BY <1>0, <2>2, EdgeRowFields DEF Versions
  <2>5. Queued(l, PaymentKey(l), Paid(l))
    BY <1>0, <1>6, <2>1, <2>2, <2>3, <2>4, SnapshotFields
       DEF EnqueuePayment, Queued, Snapshots
  <2>6. Shapes'
    BY <1>0, <2>1 DEF Shapes, LeadShape
  <2>. QED
    BY <1>0, <1>6, <2>1, <2>3, <2>5, <2>6, SnapshotFields, EdgeRowFields
       DEF EnqueuePayment
<1>. QED BY <1>1, <1>2, <1>4, <1>5, <1>6 DEF User
-----------------------------------------------------------------------------
(***************************************************************************)
(* What a step does to the outbox: the types stay, so do the rows' keys    *)
(* and payloads, and a row that is SENT afterwards was safe before.        *)
(***************************************************************************)
SentBacked ==
  \A j \in 1..Len(outbox') :
    outbox'[j].status = "SENT" => j <= Len(outbox) /\ Safe(outbox[j].p)

RowsOK == outbox' \in Seq(Event) /\ RowsKept /\ SentBacked

LEMMA SameRows ==
  ASSUME EdgeTypeOK, SentIsSafe, outbox' = outbox
  PROVE  RowsOK
  BY DEF EdgeTypeOK, RowsOK, RowsKept, SentBacked, SentIsSafe, Safe, SafeIn

LEMMA StampedRows ==
  ASSUME EdgeTypeOK, SentIsSafe, NEW i \in 1..Len(outbox), NEW st \in Status,
         Stamp(i, st), st = "SENT" => Safe(outbox[i].p)
  PROVE  RowsOK /\ Len(outbox') = Len(outbox)
<1>1. outbox \in Seq(Event)
  BY DEF EdgeTypeOK
<1>2. /\ outbox' \in Seq(Event)
      /\ Len(outbox') = Len(outbox)
      /\ RowsKept
      /\ outbox'[i].status = st
      /\ \A j \in 1..Len(outbox) : j # i => outbox'[j] = outbox[j]
  BY <1>1, StampRow
<1>3. SentBacked
  BY <1>1, <1>2 DEF SentBacked, SentIsSafe, Safe, SafeIn
<1>. QED BY <1>2, <1>3 DEF RowsOK

LEMMA FailedRows ==
  ASSUME EdgeTypeOK, SentIsSafe, FailBatch
  PROVE  RowsOK /\ Len(outbox') = Len(outbox)
<1>1. outbox \in Seq(Event)
  BY DEF EdgeTypeOK
<1>2. /\ outbox' \in Seq(Event)
      /\ Len(outbox') = Len(outbox)
      /\ RowsKept
      /\ \A j \in 1..Len(outbox) :
           outbox'[j].status = "SENT" => outbox[j].status = "SENT"
  BY <1>1, FailedBatch
<1>3. SentBacked
  BY <1>1, <1>2 DEF SentBacked, SentIsSafe, Safe, SafeIn
<1>. QED BY <1>2, <1>3 DEF RowsOK

LEMMA AppendedRows ==
  ASSUME EdgeTypeOK, SentIsSafe, NEW k \in EventKey, NEW p \in Payload,
         outbox' = Append(outbox, NewEvent(k, p))
  PROVE  RowsOK /\ Len(outbox') = Len(outbox) + 1
<1>1. outbox \in Seq(Event)
  BY DEF EdgeTypeOK
<1>2. /\ outbox' \in Seq(Event)
      /\ Len(outbox') = Len(outbox) + 1
      /\ RowsKept
      /\ \A j \in 1..Len(outbox) : outbox'[j] = outbox[j]
      /\ outbox'[Len(outbox')] = NewEvent(k, p)
  BY <1>1, AppendedRow
<1>3. NewEvent(k, p).status # "SENT"
  BY DEF NewEvent
<1>4. SentBacked
  BY <1>1, <1>2, <1>3 DEF SentBacked, SentIsSafe, Safe, SafeIn
<1>. QED BY <1>2, <1>4 DEF RowsOK

(* The batch's rows are rows of the outbox, which only grows. *)
LEMMA TodoKept ==
  ASSUME EdgeTypeOK, Len(outbox') \in Nat, Len(outbox') >= Len(outbox)
  PROVE  /\ todo \in Seq(1..Len(outbox'))
         /\ todo # <<>> => /\ Head(todo) \in 1..Len(outbox)
                           /\ Tail(todo) \in Seq(1..Len(outbox'))
<1>1. todo \in Seq(1..Len(outbox))
  BY DEF EdgeTypeOK
<1>2. 1..Len(outbox) \subseteq 1..Len(outbox')
  BY DEF EdgeTypeOK
<1>. QED BY <1>1, <1>2

EdgeOK == EdgeTypeOK' /\ RowsOK

(* The row at hand gets its outcome, and flush goes on with the next. *)
LEMMA OutcomeOfRow ==
  ASSUME EdgeTypeOK, SentIsSafe, todo # <<>>, NEW st \in {"SENT", "FAILED"},
         Stamp(Head(todo), st), st = "SENT" => Safe(outbox[Head(todo)].p),
         fpc' = "next", todo' = Tail(todo),
         wire' \in Seq(Payload),
         UNCHANGED <<syncMode, captureVars, urls, answers, channel>>
  PROVE  EdgeOK
<1>1. Head(todo) \in 1..Len(outbox) /\ st \in Status
  BY DEF EdgeTypeOK, Status
<1>2. RowsOK /\ Len(outbox') = Len(outbox)
  BY <1>1, StampedRows
<1>3. Tail(todo) \in Seq(1..Len(outbox'))
  BY <1>2 DEF EdgeTypeOK
<1>. QED BY <1>2, <1>3 DEF EdgeOK, EdgeTypeOK, RowsOK, captureVars

LEMMA FlushStepOK ==
  ASSUME EdgeTypeOK, PushInHand, SafeInv, FlushStep, UNCHANGED syncMode
  PROVE  EdgeOK
<1> USE DEF captureVars
<1>1. SentIsSafe /\ outbox \in Seq(Event)
  BY DEF SafeInv, EdgeTypeOK
<1>2. ASSUME outbox' = outbox PROVE RowsOK
  BY <1>1, <1>2, SameRows
<1>3. CASE StartFlush
  <2>1. todo' \in Seq(1..Len(outbox'))
    BY <1>1, <1>3, BatchIsOfRows DEF StartFlush
  <2>2. Urls \in 0..Urls
    BY OutboxAssumption
  <2>. QED BY <1>2, <1>3, <2>1, <2>2 DEF StartFlush, EdgeOK, EdgeTypeOK
<1>4. CASE TakeAmqp \/ TakeHttp \/ EndFlush
  <2>1. Urls \in 0..Urls
    BY OutboxAssumption
  <2>. QED
    BY <1>2, <1>4, <2>1 DEF TakeAmqp, TakeHttp, EndFlush, EdgeOK, EdgeTypeOK
<1>5. CASE Publish
  <2>1. Head(todo) \in 1..Len(outbox)
    BY <1>5 DEF Publish, PushInHand, EdgeTypeOK
  <2>2. outbox[Head(todo)].p \in Payload
    BY <1>1, <2>1, EventOfRow
  <2>3. wire' \in Seq(Payload)
    BY <1>5, <2>2 DEF Publish, EdgeTypeOK
  <2>. QED BY <1>2, <1>5, <2>3 DEF Publish, EdgeOK, EdgeTypeOK
<1>6. CASE PublishFails
  BY <1>1, <1>6, OutcomeOfRow DEF PublishFails, PushInHand, EdgeTypeOK
<1>7. CASE MarkSent
  BY <1>1, <1>7, OutcomeOfRow DEF MarkSent, PushInHand, SafeInv, EdgeTypeOK
<1>8. CASE ApplyAnswer
  <2> DEFINE a == Head(answers)
  <2>1. /\ a \in Answer /\ True(a) /\ Tail(answers) \in Seq(Answer)
        /\ answers' = Tail(answers)
        /\ UNCHANGED <<edgeLead, request, fpc, todo, urls, channel, wire>>
    BY <1>8 DEF ApplyAnswer, EdgeTypeOK, SafeInv, AnswersAreTrue
  <2>2. CASE outbox' = outbox
    BY <1>2, <2>1, <2>2 DEF EdgeOK, EdgeTypeOK
  <2>3. ASSUME NEW i \in RowsOf(a), Stamp(i, RowStatus(a))
        PROVE  EdgeOK
    <3>1. i \in 1..Len(outbox) /\ outbox[i].key = a.key
      BY <2>3 DEF RowsOf, EdgeTypeOK
    <3>2. RowStatus(a) \in Status
      BY DEF RowStatus, Status
    <3>3. ASSUME RowStatus(a) = "SENT" PROVE Safe(outbox[i].p)
      <4>1. a.key \in processed /\ a.key \in Keys
        BY <2>1, <3>3 DEF RowStatus, True, TrueAnswer, Answer
      <4>2. outbox[i].key = Key(outbox[i].p)
        BY <3>1, <4>1 DEF SafeInv
      <4>. QED BY <3>1, <4>1, <4>2 DEF Safe, SafeIn
    <3>4. RowsOK /\ Len(outbox') = Len(outbox)
      BY <1>1, <2>3, <3>1, <3>2, <3>3, StampedRows
    <3>. QED BY <2>1, <3>4 DEF EdgeOK, EdgeTypeOK, RowsOK
  <2>. QED BY <1>8, <2>2, <2>3 DEF ApplyAnswer
<1>9. CASE EndApply
  BY <1>2, <1>9 DEF EndApply, EdgeOK, EdgeTypeOK
<1>. QED BY <1>3, <1>4, <1>5, <1>6, <1>7, <1>8, <1>9 DEF FlushStep

LEMMA UserStepOK ==
  ASSUME EdgeTypeOK, Shapes, SafeInv, NEW l \in Leads, User(l),
         UNCHANGED syncMode
  PROVE  EdgeOK
<1>1. /\ Forward(l)
      /\ request' \in [Leads -> {"none", "opening", "settling"}]
      /\ \/ outbox' = outbox
         \/ \E k \in EventKey, p \in Payload : Queued(l, k, p)
      /\ UNCHANGED <<fpc, todo, urls, answers, channel, wire>>
  BY UserStep
<1>2. SentIsSafe
  BY DEF SafeInv
<1>3. RowsOK
  BY <1>1, <1>2, SameRows, AppendedRows DEF Queued
<1>4. todo \in Seq(1..Len(outbox'))
  BY <1>3, TodoKept DEF RowsOK, RowsKept
<1>. QED BY <1>1, <1>3, <1>4 DEF EdgeOK, EdgeTypeOK, RowsOK, Forward

LEMMA CallFailsOK ==
  ASSUME EdgeTypeOK, PushInHand, SafeInv, CallFails, UNCHANGED syncMode
  PROVE  EdgeOK
<1>1. SentIsSafe /\ todo # <<>>
  BY DEF SafeInv, CallFails, PushInHand
<1>2. CASE urls > 1
  <2>1. outbox' = outbox /\ urls' \in 0..Urls
    BY <1>2, OutboxAssumption DEF CallFails, EdgeTypeOK
  <2>2. RowsOK
    BY <1>1, <2>1, SameRows
  <2>. QED BY <1>2, <2>1, <2>2 DEF CallFails, EdgeOK, EdgeTypeOK, captureVars
<1>3. CASE ~(urls > 1)
  BY <1>1, <1>3, OutcomeOfRow DEF CallFails, EdgeTypeOK, captureVars
<1>. QED BY <1>2, <1>3

LEMMA PostFailsOK ==
  ASSUME EdgeTypeOK, SafeInv, PostFails, UNCHANGED syncMode
  PROVE  EdgeOK
<1>1. SentIsSafe
  BY DEF SafeInv
<1>2. CASE urls > 1
  <2>1. outbox' = outbox /\ urls' \in 0..Urls
    BY <1>2, OutboxAssumption DEF PostFails, EdgeTypeOK
  <2>2. RowsOK
    BY <1>1, <2>1, SameRows
  <2>. QED BY <1>2, <2>1, <2>2 DEF PostFails, EdgeOK, EdgeTypeOK, captureVars
<1>3. CASE ~(urls > 1)
  <2>1. RowsOK
    BY <1>1, <1>3, FailedRows DEF PostFails
  <2>. QED
    BY <1>3, <2>1 DEF PostFails, EdgeOK, EdgeTypeOK, RowsOK, captureVars
<1>. QED BY <1>2, <1>3

(* The answers of a handler that ends: those before, and that of its item. *)
LEMMA AnswerIsAnswer ==
  ASSUME IngestTypeOK, LinkTypeOK, AnswersAreTrue, NEW w \in Workers,
         pc[w] \in Finished
  PROVE  /\ AnswerOf(w) \in Answer /\ True(AnswerOf(w))
         /\ Append(results[w], AnswerOf(w)) \in Seq(Answer)
         /\ \A i \in 1..Len(Append(results[w], AnswerOf(w))) :
              True(Append(results[w], AnswerOf(w))[i])
<1>1. msg[w] \in Payload
  BY DEF IngestTypeOK, Finished
<1>2. AnswerOf(w) \in Answer /\ True(AnswerOf(w))
  BY <1>1, KeyOfPayload DEF AnswerOf, Answer, True, TrueAnswer, AnswersAreTrue, Finished
<1>3. results[w] \in Seq(Answer) /\ \A i \in 1..Len(results[w]) : True(results[w][i])
  BY DEF LinkTypeOK, AnswersAreTrue
<1>. HIDE DEF AnswerOf, True
<1>. QED BY <1>2, <1>3

LEMMA RespondOK ==
  ASSUME TypeOK, PushInHand, SafeInv, NEW w \in Workers, Respond(w),
         UNCHANGED syncMode
  PROVE  EdgeOK
<1>1. SentIsSafe /\ EdgeTypeOK
  BY DEF SafeInv, TypeOK
<1>2. CASE via[w] = "call" /\ pc[w] # "failed" /\ CallOk
  <2>1. todo # <<>> /\ msg[w] = outbox[Head(todo)].p
    BY <1>2 DEF PushInHand, CallOk
  <2>2. Key(msg[w]) \in processed
    BY <1>2 DEF Respond, Finish, Finished, SafeInv, AnswersAreTrue
  <2>3. Safe(outbox[Head(todo)].p)
    BY <2>1, <2>2 DEF Safe, SafeIn
  <2>. QED
    BY <1>1, <1>2, <2>1, <2>3, OutcomeOfRow DEF CallOk, EdgeTypeOK, captureVars
<1>3. CASE CallFails
  BY <1>1, <1>3, CallFailsOK
<1>4. CASE PostOk(Append(results[w], AnswerOf(w)))
  <2>1. Append(results[w], AnswerOf(w)) \in Seq(Answer)
    BY AnswerIsAnswer DEF TypeOK, SafeInv, Respond, Finish
  <2>2. RowsOK
    BY <1>1, <1>4, SameRows DEF PostOk
  <2>. QED BY <1>1, <1>4, <2>1, <2>2 DEF PostOk, EdgeOK, EdgeTypeOK, captureVars
<1>. QED BY <1>2, <1>3, <1>4 DEF Respond

LEMMA EmptyIsSeq == \A S : <<>> \in Seq(S)
  OBVIOUS

LEMMA EdgeStepOK ==
  ASSUME TypeOK, Shapes, ConsumerAtHead, PushInHand, SafeInv,
         [Next]_<<vars, syncMode>>
  PROVE  EdgeOK
<1>1. EdgeTypeOK /\ SentIsSafe
  BY DEF TypeOK, SafeInv
<1>2. ASSUME UNCHANGED <<edgeVars, syncMode>> PROVE EdgeOK
  <2>1. RowsOK
    BY <1>1, <1>2, SameRows DEF edgeVars
  <2>. QED BY <1>1, <1>2, <2>1 DEF edgeVars, EdgeOK, EdgeTypeOK
<1>3. CASE UNCHANGED <<vars, syncMode>>
  BY <1>2, <1>3 DEF vars
<1>4. ASSUME Step, UNCHANGED syncMode PROVE EdgeOK
  <2>1. CASE EdgeAct
    BY <1>1, <1>4, <2>1, UserStepOK, FlushStepOK DEF EdgeAct
  <2>2. CASE \/ \E w \in Workers : MasterAct(w) \/ Consume(w) \/ Settle(w)
                  \/ ConsumerLost(w) \/ Receive(w) \/ NextItem(w) \/ OrphanEnds(w)
             \/ AdminDeletesForm \/ MasterCrash
    BY <1>2, <1>4, <2>2
       DEF MasterAct, Consume, Settle, ConsumerLost, Receive, NextItem,
           OrphanEnds, AdminDeletesForm, MasterCrash
  <2>3. CASE LinkUp \/ BrokerAccepts \/ LinkLost
    <3>1. outbox' = outbox
      BY <2>3 DEF LinkUp, BrokerAccepts, LinkLost
    <3>2. RowsOK
      BY <1>1, <3>1, SameRows
    <3>3. /\ UNCHANGED <<syncMode, edgeLead, request, fpc, todo, urls, answers>>
          /\ channel' \in BOOLEAN
          /\ wire' \in Seq(Payload)
      <4>1. wire \in Seq(Payload) /\ channel \in BOOLEAN
        BY <1>1 DEF EdgeTypeOK
      <4>2. CASE LinkUp
        BY <1>4, <2>3, <4>1, <4>2 DEF LinkUp, captureVars, flushVars
      <4>3. CASE BrokerAccepts
        BY <1>4, <2>3, <4>1, <4>3 DEF BrokerAccepts, captureVars, flushVars
      <4>4. CASE LinkLost
        BY <1>4, <4>1, <4>4, EmptyIsSeq DEF LinkLost, captureVars, flushVars
      <4>. QED BY <2>3, <4>2, <4>3, <4>4
    <3>. QED BY <1>1, <3>1, <3>2, <3>3 DEF EdgeOK, EdgeTypeOK
  <2>4. CASE BufferFull
    <3>1. fpc = "assert" /\ todo # <<>> /\ Head(todo) \in 1..Len(outbox)
      BY <1>1, <2>4 DEF BufferFull, PublishFull, PushInHand, EdgeTypeOK
    <3>2. outbox[Head(todo)].p \in Payload
      BY <1>1, <3>1, EventOfRow DEF EdgeTypeOK
    <3>3. wire' \in Seq(Payload)
      BY <1>1, <2>4, <3>2 DEF BufferFull, PublishFull, EdgeTypeOK
    <3>. QED
      BY <1>1, <1>4, <2>4, <3>1, <3>3, OutcomeOfRow
         DEF BufferFull, PublishFull, captureVars
  <2>5. ASSUME NEW w \in Workers, Respond(w) PROVE EdgeOK
    BY <1>4, <2>5, RespondOK
  <2>6. CASE TimeOut \/ Refused \/ ConnectionReset
    BY <1>1, <1>4, <2>6, CallFailsOK, PostFailsOK
       DEF TimeOut, Refused, ConnectionReset, PushFails
  <2>7. CASE ApplyBreaks
    <3>1. RowsOK
      BY <1>1, <2>7, FailedRows DEF ApplyBreaks
    <3>. QED
      BY <1>1, <1>4, <2>7, <3>1
         DEF ApplyBreaks, captureVars, EdgeOK, EdgeTypeOK, RowsOK
  <2>8. CASE EdgeCrash
    <3>1. RowsOK
      BY <1>1, <2>8, SameRows DEF EdgeCrash
    <3>2. 0 \in 0..Urls
      BY OutboxAssumption
    <3>3. /\ UNCHANGED <<syncMode, edgeLead>>
          /\ request' \in [Leads -> {"none", "opening", "settling"}]
          /\ fpc' = "idle" /\ channel' = FALSE /\ urls' = 0
          /\ todo' = <<>> /\ answers' = <<>> /\ wire' = <<>>
      BY <1>4, <2>8 DEF EdgeCrash
    <3>4. EdgeTypeOK'
      BY <1>1, <3>1, <3>2, <3>3, EmptyIsSeq DEF EdgeTypeOK, RowsOK
    <3>. QED BY <3>1, <3>4 DEF EdgeOK
  <2>. QED BY <1>4, <2>1, <2>2, <2>3, <2>4, <2>5, <2>6, <2>7, <2>8 DEF Step
<1>. QED BY <1>3, <1>4 DEF Next
-----------------------------------------------------------------------------
(***************************************************************************)
(* The edge's rows of its leads: only a user's step changes one, and it    *)
(* moves it forward.                                                       *)
(***************************************************************************)
LeadsForward ==
  \A l \in Leads :
    /\ edgeLead'[l].ver >= edgeLead[l].ver
    /\ edgeLead[l].pay = "COMPLETED" => edgeLead'[l].pay = "COMPLETED"

OnlyUsers == edgeLead' = edgeLead \/ \E l \in Leads : User(l)

LEMMA LeadsStay ==
  ASSUME EdgeTypeOK, Shapes, edgeLead' = edgeLead,
         request' = request \/ request' = [l \in Leads |-> "none"]
  PROVE  Shapes' /\ LeadsForward /\ OnlyUsers
<1>1. \A l \in Leads : edgeLead[l].ver \in 0..2
  BY EdgeRowFields DEF EdgeTypeOK
<1>2. LeadsForward
  BY <1>1 DEF LeadsForward
<1>3. Shapes'
  BY DEF Shapes, LeadShape
<1>. QED BY <1>2, <1>3 DEF OnlyUsers

LEMMA LeadsStep ==
  ASSUME TypeOK, Shapes, [Next]_<<vars, syncMode>>
  PROVE  Shapes' /\ LeadsForward /\ OnlyUsers
<1>1. EdgeTypeOK
  BY DEF TypeOK
<1>2. CASE UNCHANGED <<edgeLead, request>>
  BY <1>1, <1>2, LeadsStay
<1>3. CASE EdgeCrash
  BY <1>1, <1>3, LeadsStay DEF EdgeCrash
<1>4. ASSUME NEW l \in Leads, User(l) PROVE Shapes' /\ LeadsForward /\ OnlyUsers
  <2>1. Forward(l) /\ Shapes'
    BY <1>1, <1>4, UserStep
  <2>2. \A k \in Leads : edgeLead[k].ver \in 0..2
    BY <1>1, EdgeRowFields DEF EdgeTypeOK
  <2>3. LeadsForward
    BY <2>1, <2>2 DEF Forward, LeadsForward
  <2>. QED BY <1>4, <2>1, <2>3 DEF OnlyUsers
<1>5. CASE FlushStep
  BY <1>2, <1>5
     DEF FlushStep, StartFlush, TakeAmqp, TakeHttp, EndFlush, Publish,
         PublishFails, MarkSent, ApplyAnswer, EndApply, captureVars
<1>6. CASE LinkUp \/ BrokerAccepts \/ LinkLost \/ BufferFull \/ ApplyBreaks
             \/ TimeOut \/ Refused \/ ConnectionReset
             \/ \E w \in Workers : Respond(w)
  BY <1>2, <1>6
     DEF LinkUp, BrokerAccepts, LinkLost, BufferFull, ApplyBreaks, TimeOut,
         Refused, ConnectionReset, Respond, PushFails, PublishFull, CallOk,
         CallFails, PostOk, PostFails, captureVars
<1>7. CASE \/ \E w \in Workers : MasterAct(w) \/ Consume(w) \/ Settle(w)
                \/ ConsumerLost(w) \/ Receive(w) \/ NextItem(w) \/ OrphanEnds(w)
           \/ AdminDeletesForm \/ MasterCrash
  BY <1>2, <1>7
     DEF MasterAct, Consume, Settle, ConsumerLost, Receive, NextItem,
         OrphanEnds, AdminDeletesForm, MasterCrash, edgeVars
<1>8. CASE UNCHANGED <<vars, syncMode>>
  BY <1>2, <1>8 DEF vars, edgeVars
<1>. QED
  BY <1>3, <1>4, <1>5, <1>6, <1>7, <1>8 DEF Next, Step, EdgeAct

(* So what is known of a lead stays known. *)
LEMMA KnownStays ==
  ASSUME TypeOK, TypeOK', LeadsForward
  PROVE  \A p \in Payload : Known(p) => TrueOf(edgeLead', p)
<1>1. SUFFICES ASSUME NEW p \in Payload, Known(p)
               PROVE  TrueOf(edgeLead', p)
  OBVIOUS
<1>2. p.lead \in Leads /\ p.ver \in Nat
  BY KeyOfPayload DEF Versions
<1>3. edgeLead[p.lead].ver \in 0..2 /\ edgeLead'[p.lead].ver \in 0..2
  BY <1>2, EdgeRowFields DEF TypeOK, EdgeTypeOK
<1>. QED BY <1>1, <1>2, <1>3 DEF Known, TrueOf, LeadsForward
-----------------------------------------------------------------------------
(***************************************************************************)
(* The master: except where a batch goes on with its next item, its        *)
(* variables take a step of MasterIngest, or none.                         *)
(***************************************************************************)
LEMMA ItemsAreRows ==
  ASSUME EdgeTypeOK, PushInHand, Waiting
  PROVE  /\ Items \in Seq(Payload) /\ Items # <<>>
         /\ Head(Items) = outbox[Head(todo)].p
         /\ \A j \in 1..Len(Items) : \E i \in 1..Len(outbox) : Items[j] = outbox[i].p
         /\ fpc = "call" => Tail(Items) = <<>>
<1> DEFINE n == IF fpc = "post" THEN Len(todo) ELSE 1
           Item(j) == outbox[todo[j]].p
<1>1. /\ todo \in Seq(1..Len(outbox)) /\ todo # <<>>
      /\ n \in Nat \ {0} /\ n <= Len(todo)
      /\ fpc = "call" => n = 1
  BY DEF EdgeTypeOK, PushInHand, Waiting
<1>2. \A j \in 1..n : todo[j] \in 1..Len(outbox)
  BY <1>1
<1>3. \A j \in 1..n : Item(j) \in Payload
  BY <1>2, EventOfRow DEF EdgeTypeOK
<1>4. Items = [j \in 1..n |-> Item(j)]
  BY DEF Items
<1>5. Item(1) = outbox[Head(todo)].p
  BY <1>1
<1>. HIDE DEF n, Item
<1>6. Items \in Seq(Payload) /\ Len(Items) = n /\ \A j \in 1..n : Items[j] = Item(j)
  BY <1>1, <1>3, <1>4
<1>7. Items # <<>> /\ Head(Items) = Item(1)
  BY <1>1, <1>6
<1>8. ASSUME n = 1 PROVE Tail(Items) = <<>>
  <2>1. Tail(Items) \in Seq(Payload) /\ Len(Tail(Items)) = 0
    BY <1>6, <1>7, <1>8
  <2>2. \A s \in Seq(Payload) : Len(s) = 0 => s = <<>>
    OBVIOUS
  <2>. QED BY <2>1, <2>2
<1>. QED BY <1>1, <1>2, <1>5, <1>6, <1>7, <1>8 DEF Item

LEMMA MasterStep ==
  ASSUME TypeOK, AllKnown, PushInHand, [Next]_<<vars, syncMode>>
  PROVE  [IngestNext]_ingestVars \/ \E w \in Workers : NextItem(w)
<1>1. ASSUME NEW w \in Workers, NEW p \in Payload, Known(p), Deliver(w, p)
      PROVE  IngestNext
  BY <1>1, KeyOfPayload DEF IngestNext, Known, TrueOf
<1>2. ASSUME NEW w \in Workers, Consume(w) PROVE IngestNext
  <2>1. Head(queue) \in Payload /\ Known(Head(queue))
    BY <1>2 DEF Consume, AllKnown, TypeOK, LinkTypeOK
  <2>. QED BY <1>1, <1>2, <2>1 DEF Consume
<1>3. ASSUME NEW w \in Workers, Receive(w) PROVE IngestNext
  <2>1. Items \in Seq(Payload) /\ Items # <<>>
        /\ \A j \in 1..Len(Items) : \E i \in 1..Len(outbox) : Items[j] = outbox[i].p
    BY <1>3, ItemsAreRows DEF Receive, TypeOK
  <2> HIDE DEF Items
  <2>2. Head(Items) \in Payload /\ \E i \in 1..Len(outbox) : Head(Items) = outbox[i].p
    BY <2>1
  <2>3. Known(Head(Items))
    BY <2>2 DEF AllKnown
  <2>. QED BY <1>1, <1>3, <2>2, <2>3 DEF Receive
<1>4. ASSUME NEW w \in Workers,
             MasterAct(w) \/ Settle(w) \/ Respond(w) \/ OrphanEnds(w)
      PROVE  IngestNext
  BY <1>4 DEF MasterAct, Settle, Respond, OrphanEnds, IngestNext
<1>5. CASE AdminDeletesForm
  BY <1>5, FaultAssumption DEF AdminDeletesForm, IngestNext
<1>6. CASE MasterCrash
  BY <1>6 DEF MasterCrash, IngestNext
<1>7. CASE EdgeAct \/ LinkUp \/ BrokerAccepts \/ LinkLost \/ BufferFull
             \/ TimeOut \/ Refused \/ ConnectionReset \/ ApplyBreaks \/ EdgeCrash
             \/ \E w \in Workers : ConsumerLost(w)
  <2>. UNCHANGED ingestVars
    BY <1>7
       DEF EdgeAct, LinkUp, BrokerAccepts, LinkLost, BufferFull, TimeOut, Refused,
           ConnectionReset, ApplyBreaks, EdgeCrash, ConsumerLost
  <2>. QED OBVIOUS
<1>8. CASE UNCHANGED <<vars, syncMode>>
  BY <1>8 DEF vars
<1>. QED BY <1>2, <1>3, <1>4, <1>5, <1>6, <1>7, <1>8 DEF Next, Step

(* The next item of a batch starts the handler anew: a quiet step. *)
LEMMA NextItemStep ==
  ASSUME TypeOK, IngestInv, NEW w \in Workers, NextItem(w)
  PROVE  IngestInv' /\ UNCHANGED <<processed, notified>>
<1>1. IngestTypeOK /\ rest[w] \in Seq(Payload) /\ rest[w] # <<>>
  BY DEF TypeOK, LinkTypeOK, NextItem
<1>2. /\ pc' = [pc EXCEPT ![w] = "check"]
      /\ msg' = [msg EXCEPT ![w] = Head(rest[w])]
      /\ seen' = [seen EXCEPT ![w] = 0]
      /\ UNCHANGED <<masterForms, masterLead, masterPay, processed, notified>>
  BY DEF NextItem, Goto, tables
<1>3. IngestTypeOK'
  BY <1>1, <1>2 DEF IngestTypeOK, Steps
<1>4. IngestInv'
  BY <1>1, <1>2, <1>3, QuietStep DEF IngestTypeOK
<1>. QED BY <1>2, <1>4

LEMMA MasterStepInv ==
  ASSUME TypeOK, AllKnown, PushInHand, IngestInv, [Next]_<<vars, syncMode>>
  PROVE  IngestInv' /\ [Inbox!Next]_Inbox!vars
<1>1. CASE [IngestNext]_ingestVars
  BY <1>1, NextInv, StepInbox
<1>2. ASSUME NEW w \in Workers, NextItem(w)
      PROVE  IngestInv' /\ [Inbox!Next]_Inbox!vars
  BY <1>2, NextItemStep DEF Inbox!vars
<1>. QED BY <1>1, <1>2, MasterStep
-----------------------------------------------------------------------------
(***************************************************************************)
(* The transports: types.                                                  *)
(***************************************************************************)
LEMMA FaultTypeOK ==
  ASSUME LinkTypeOK, NEW kind, Fault(kind)
  PROVE  faults' \in [gentle : 0..FaultBound, harsh : 0..FaultBound]
<1>1. /\ FaultBound \in Nat
      /\ faults \in [gentle : 0..FaultBound, harsh : 0..FaultBound]
      /\ faults.gentle + faults.harsh < FaultBound
  BY FaultAssumption DEF LinkTypeOK, Fault
<1>2. faults.gentle + 1 \in 0..FaultBound /\ faults.harsh + 1 \in 0..FaultBound
  BY <1>1
<1>3. \A n \in 0..FaultBound :
        /\ [faults EXCEPT !.gentle = n] \in [gentle : 0..FaultBound, harsh : 0..FaultBound]
        /\ [faults EXCEPT !.harsh = n] \in [gentle : 0..FaultBound, harsh : 0..FaultBound]
  BY <1>1
<1>. QED BY <1>2, <1>3 DEF Fault

LEMMA ElementsOf ==
  ASSUME NEW S, NEW s \in Seq(S)
  PROVE  Elements(s) \subseteq S
  BY DEF Elements

LEMMA LinkTypeStep ==
  ASSUME TypeOK, LinkInv, AnswersAreTrue, [Next]_<<vars, syncMode>>
  PROVE  LinkTypeOK'
<1>1. LinkTypeOK /\ IngestTypeOK /\ EdgeTypeOK /\ ConsumerAtHead /\ PushInHand
  BY DEF TypeOK, LinkInv
<1> USE DEF LinkTypeOK
<1>2. CASE UNCHANGED linkVars
  BY <1>1, <1>2 DEF linkVars
<1>3. CASE EdgeAct \/ AdminDeletesForm \/ LinkUp \/ UNCHANGED <<vars, syncMode>>
             \/ \E w \in Workers : MasterAct(w)
  BY <1>2, <1>3 DEF EdgeAct, AdminDeletesForm, LinkUp, MasterAct, vars, linkVars
<1>4. CASE BrokerAccepts
  BY <1>1, <1>4 DEF BrokerAccepts, EdgeTypeOK
<1>5. CASE LinkLost
  <2>1. faults' \in [gentle : 0..FaultBound, harsh : 0..FaultBound]
    BY <1>1, <1>5, FaultTypeOK DEF LinkLost
  <2>2. Elements(wire) \subseteq Payload
    BY <1>1, ElementsOf DEF EdgeTypeOK
  <2>. QED BY <1>1, <1>5, <2>1, <2>2 DEF LinkLost
<1>6. CASE BufferFull \/ Refused \/ ApplyBreaks
  <2>1. faults' \in [gentle : 0..FaultBound, harsh : 0..FaultBound]
    BY <1>1, <1>6, FaultTypeOK DEF BufferFull, Refused, ApplyBreaks
  <2>. QED BY <1>1, <1>6, <2>1 DEF BufferFull, Refused, ApplyBreaks
<1>7. ASSUME NEW w \in Workers, Consume(w) PROVE LinkTypeOK'
  BY <1>1, <1>7 DEF Consume, Origin
<1>8. ASSUME NEW w \in Workers, Settle(w) PROVE LinkTypeOK'
  <2>1. queue # <<>>
    BY <1>1, <1>8 DEF Settle, ConsumerAtHead
  <2>2. queue' \in Seq(Payload)
    BY <1>1, <1>8, <2>1 DEF Settle
  <2>. QED BY <1>1, <1>8, <2>2 DEF Settle, Origin
<1>9. ASSUME NEW w \in Workers, ConsumerLost(w) PROVE LinkTypeOK'
  <2>1. faults' \in [gentle : 0..FaultBound, harsh : 0..FaultBound]
    BY <1>1, <1>9, FaultTypeOK DEF ConsumerLost
  <2>. QED BY <1>1, <1>9, <2>1 DEF ConsumerLost, Origin
<1>10. ASSUME NEW w \in Workers, Receive(w) PROVE LinkTypeOK'
  <2>1. Tail(Items) \in Seq(Payload)
    BY <1>1, <1>10, ItemsAreRows DEF Receive
  <2>2. fpc \in Origin
    BY <1>10 DEF Receive, Waiting, Origin
  <2> HIDE DEF Items
  <2>. QED BY <1>1, <1>10, <2>1, <2>2 DEF Receive
<1>11. ASSUME NEW w \in Workers, NextItem(w) PROVE LinkTypeOK'
  <2>1. Append(results[w], AnswerOf(w)) \in Seq(Answer)
    BY <1>1, <1>11, AnswerIsAnswer DEF NextItem
  <2>2. Tail(rest[w]) \in Seq(Payload)
    BY <1>1, <1>11 DEF NextItem
  <2>3. /\ rest' = [rest EXCEPT ![w] = Tail(rest[w])]
        /\ results' = [results EXCEPT ![w] = Append(results[w], AnswerOf(w))]
        /\ UNCHANGED <<queue, dropped, via, sent, faults>>
    BY <1>11 DEF NextItem
  <2>. QED BY <1>1, <2>1, <2>2, <2>3
<1>12. ASSUME NEW w \in Workers, Respond(w) \/ OrphanEnds(w) PROVE LinkTypeOK'
  <2>1. /\ results' = [results EXCEPT ![w] = <<>>]
        /\ via' = [via EXCEPT ![w] = "none"]
        /\ sent' \in BOOLEAN
        /\ UNCHANGED <<queue, dropped, rest, faults>>
    BY <1>1, <1>12 DEF Respond, OrphanEnds
  <2>. QED BY <1>1, <2>1, EmptyIsSeq DEF Origin
<1>13. CASE TimeOut \/ ConnectionReset
  <2>1. faults' \in [gentle : 0..FaultBound, harsh : 0..FaultBound]
    BY <1>1, <1>13, FaultTypeOK DEF TimeOut, ConnectionReset
  <2>2. via' \in [Workers -> Origin]
    BY <1>1, <1>13 DEF TimeOut, ConnectionReset, Orphaned, Origin
  <2>. QED BY <1>1, <1>13, <2>1, <2>2 DEF TimeOut, ConnectionReset
<1>14. CASE MasterCrash
  <2>1. faults' \in [gentle : 0..FaultBound, harsh : 0..FaultBound]
    BY <1>1, <1>14, FaultTypeOK DEF MasterCrash
  <2>. QED BY <1>1, <1>14, <2>1, EmptyIsSeq DEF MasterCrash, Origin
<1>15. CASE EdgeCrash
  <2>1. faults' \in [gentle : 0..FaultBound, harsh : 0..FaultBound]
    BY <1>1, <1>15, FaultTypeOK DEF EdgeCrash
  <2>2. Elements(wire) \subseteq Payload
    BY <1>1, ElementsOf DEF EdgeTypeOK
  <2>3. via' \in [Workers -> Origin]
    BY <1>1, <1>15 DEF EdgeCrash, Orphaned, Origin
  <2>. QED BY <1>1, <1>15, <2>1, <2>2, <2>3 DEF EdgeCrash
<1>. QED
  BY <1>3, <1>4, <1>5, <1>6, <1>7, <1>8, <1>9, <1>10, <1>11, <1>12, <1>13,
     <1>14, <1>15
     DEF Next, Step
-----------------------------------------------------------------------------
(***************************************************************************)
(* The transports: which handler has which message.                        *)
(***************************************************************************)
(* What the steps of the master's handlers leave alone. *)
LEMMA WorkerKeeps ==
  ASSUME IngestTypeOK, NEW w \in Workers, WorkerStep(w)
  PROVE  /\ msg' = msg /\ pc[w] # "idle" /\ pc'[w] # "idle"
         /\ \A v \in Workers : v # w => pc'[v] = pc[v]
  BY DEF WorkerStep, CheckProcessed, FindForm, ReadExisting, UpsertLead,
         UpsertPayment, MarkProcessed, Dispatch, Goto, IngestTypeOK

LEMMA ConsumerStep ==
  ASSUME TypeOK, LinkInv, [Next]_<<vars, syncMode>>
  PROVE  ConsumerAtHead'
<1>1. LinkTypeOK /\ IngestTypeOK /\ EdgeTypeOK /\ ConsumerAtHead /\ PushInHand
  BY DEF TypeOK, LinkInv
<1>2. /\ queue \in Seq(Payload) /\ via \in [Workers -> Origin]
      /\ rest \in [Workers -> Seq(Payload)] /\ wire \in Seq(Payload)
      /\ pc \in [Workers -> Steps]
      /\ msg \in [Workers -> Payload \cup {NoPayload}]
  BY <1>1 DEF LinkTypeOK, IngestTypeOK, EdgeTypeOK
<1> USE DEF ConsumerAtHead
<1>3. CASE UNCHANGED <<queue, rest, pc, msg>>
           /\ \A v \in Workers : via'[v] = "amqp" => via[v] = "amqp"
  BY <1>1, <1>3
<1>4. CASE EdgeAct \/ LinkUp \/ LinkLost \/ BufferFull \/ TimeOut \/ Refused
             \/ ConnectionReset \/ ApplyBreaks \/ EdgeCrash \/ AdminDeletesForm
             \/ (\E w \in Workers : ConsumerLost(w)) \/ UNCHANGED <<vars, syncMode>>
  <2>1. UNCHANGED <<queue, rest, pc, msg>>
    BY <1>4
       DEF EdgeAct, LinkUp, LinkLost, BufferFull, TimeOut, Refused, ConnectionReset,
           ApplyBreaks, EdgeCrash, AdminDeletesForm, DeleteForm, ConsumerLost,
           vars, linkVars, ingestVars, handlers
  <2>2. via' = via \/ via' = Orphaned \/ \E w \in Workers : ConsumerLost(w)
    BY <1>4
       DEF EdgeAct, LinkUp, LinkLost, BufferFull, TimeOut, Refused, ConnectionReset,
           ApplyBreaks, EdgeCrash, AdminDeletesForm, vars, linkVars
  <2>3. \A v \in Workers : via'[v] = "amqp" => via[v] = "amqp"
    BY <1>2, <2>2 DEF Orphaned, ConsumerLost
  <2>. QED BY <1>3, <2>1, <2>3
<1>5. ASSUME NEW w \in Workers, MasterAct(w) PROVE ConsumerAtHead'
  <2>1. UNCHANGED <<queue, rest, via, msg>>
    BY <1>1, <1>5, WorkerKeeps DEF MasterAct, linkVars
  <2>2. \A v \in Workers : pc'[v] = "idle" => pc[v] = "idle"
    BY <1>1, <1>5, WorkerKeeps DEF MasterAct
  <2>. QED BY <1>1, <2>1, <2>2
<1>6. CASE BrokerAccepts
  <2>1. /\ UNCHANGED <<rest, via, msg, pc>>
        /\ queue' = Append(queue, Head(wire)) /\ Head(wire) \in Payload
    BY <1>2, <1>6 DEF BrokerAccepts, ingestVars
  <2>2. queue # <<>> => queue' # <<>> /\ Head(queue') = Head(queue)
    BY <1>2, <2>1
  <2>. QED BY <1>1, <2>1, <2>2
<1>7. ASSUME NEW w \in Workers, Consume(w) PROVE ConsumerAtHead'
  BY <1>1, <1>2, <1>7 DEF Consume, Deliver, Goto
<1>8. ASSUME NEW w \in Workers, Settle(w) PROVE ConsumerAtHead'
  <2>1. /\ \A v \in Workers : via'[v] # "amqp"
        /\ rest[w] = <<>> /\ rest' = rest
        /\ \A v \in Workers : v # w => pc'[v] = pc[v]
    BY <1>1, <1>2, <1>8 DEF Settle, Finish, Goto
  <2>. QED BY <1>1, <2>1
<1>9. ASSUME NEW w \in Workers, Receive(w) PROVE ConsumerAtHead'
  <2>1. /\ pc[w] = "idle" /\ pc' = [pc EXCEPT ![w] = "check"]
        /\ via' = [via EXCEPT ![w] = fpc] /\ fpc # "amqp"
        /\ \A v \in Workers : v # w => rest'[v] = rest[v] /\ msg'[v] = msg[v]
        /\ queue' = queue
    BY <1>2, <1>9 DEF Receive, Waiting, Deliver, Goto
  <2>. QED BY <1>1, <1>2, <2>1
<1>10. ASSUME NEW w \in Workers, NextItem(w) PROVE ConsumerAtHead'
  <2>1. /\ rest[w] # <<>> /\ pc' = [pc EXCEPT ![w] = "check"]
        /\ \A v \in Workers : v # w => rest'[v] = rest[v] /\ msg'[v] = msg[v]
        /\ UNCHANGED <<queue, via>>
    BY <1>2, <1>10 DEF NextItem, Goto
  <2>. QED BY <1>1, <1>2, <2>1
<1>11. ASSUME NEW w \in Workers, Respond(w) \/ OrphanEnds(w)
       PROVE  ConsumerAtHead'
  <2>1. /\ via' = [via EXCEPT ![w] = "none"]
        /\ rest[w] = <<>> /\ UNCHANGED <<queue, rest>>
        /\ \A v \in Workers : v # w => pc'[v] = pc[v] /\ msg'[v] = msg[v]
    BY <1>2, <1>11 DEF Respond, OrphanEnds, Finish, Goto
  <2>. QED BY <1>1, <1>2, <2>1
<1>12. CASE MasterCrash
  BY <1>12 DEF MasterCrash
<1>. QED
  BY <1>4, <1>5, <1>6, <1>7, <1>8, <1>9, <1>10, <1>11, <1>12 DEF Next, Step

TodoInHand == fpc \in {"assert", "mark", "call", "post"} => todo # <<>>
NoPush     == \A w \in Workers : via[w] \notin Push

LEMMA WithoutPush == TodoInHand /\ NoPush => PushInHand
  BY DEF TodoInHand, NoPush, PushInHand, Push

LEMMA TodoStep ==
  ASSUME TypeOK, PushInHand, [Next]_<<vars, syncMode>>
  PROVE  TodoInHand'
<1>1. TodoInHand /\ outbox \in Seq(Event)
  BY DEF PushInHand, TodoInHand, TypeOK, EdgeTypeOK
<1> USE DEF TodoInHand
<1>2. CASE UNCHANGED <<fpc, todo>>
  BY <1>1, <1>2
<1>3. CASE FlushStep
  <2>1. CASE StartFlush
    BY <1>1, <2>1, BatchIsOfRows DEF StartFlush
  <2>2. CASE TakeAmqp \/ TakeHttp \/ EndFlush
    BY <1>1, <2>2 DEF TakeAmqp, TakeHttp, EndFlush
  <2>3. CASE Publish \/ PublishFails \/ MarkSent \/ ApplyAnswer \/ EndApply
    BY <1>1, <2>3 DEF Publish, PublishFails, MarkSent, ApplyAnswer, EndApply
  <2>. QED BY <1>3, <2>1, <2>2, <2>3 DEF FlushStep
<1>4. CASE PushFails \/ PublishFull \/ CallOk \/ ApplyBreaks \/ EdgeCrash
             \/ \E s : PostOk(s)
  BY <1>1, <1>4
     DEF PushFails, CallFails, PostFails, PublishFull, CallOk, ApplyBreaks,
         EdgeCrash, PostOk
<1>5. ASSUME NEW l \in Leads, User(l) PROVE TodoInHand'
  BY <1>2, <1>5
     DEF User, Capture, VerifyOtp, OpenPayment, CompletePayment,
         EnqueuePayment, flushVars
<1>6. CASE \/ \E w \in Workers : MasterAct(w) \/ Consume(w) \/ Settle(w)
                \/ ConsumerLost(w) \/ Receive(w) \/ NextItem(w) \/ OrphanEnds(w)
           \/ AdminDeletesForm \/ MasterCrash \/ UNCHANGED <<vars, syncMode>>
  BY <1>2, <1>6
     DEF MasterAct, Consume, Settle, ConsumerLost, Receive, NextItem,
         OrphanEnds, AdminDeletesForm, MasterCrash, vars, edgeVars
<1>7. CASE LinkUp \/ BrokerAccepts \/ LinkLost
  BY <1>2, <1>7 DEF LinkUp, BrokerAccepts, LinkLost, flushVars
<1>8. CASE BufferFull \/ TimeOut \/ Refused \/ ConnectionReset
  BY <1>4, <1>8 DEF BufferFull, TimeOut, Refused, ConnectionReset
<1>9. ASSUME NEW w \in Workers, Respond(w) PROVE TodoInHand'
  <2>1. CallOk \/ CallFails \/ PostOk(Append(results[w], AnswerOf(w)))
    BY <1>9 DEF Respond
  <2>. QED BY <1>4, <2>1 DEF PushFails
<1>. QED
  BY <1>3, <1>4, <1>5, <1>6, <1>7, <1>8, <1>9 DEF Next, Step, EdgeAct

LEMMA PushStep ==
  ASSUME TypeOK, LinkInv, RowsKept, [Next]_<<vars, syncMode>>
  PROVE  PushInHand'
<1>1. LinkTypeOK /\ IngestTypeOK /\ EdgeTypeOK /\ ConsumerAtHead /\ PushInHand
  BY DEF TypeOK, LinkInv
<1>2. /\ via \in [Workers -> Origin] /\ rest \in [Workers -> Seq(Payload)]
      /\ msg \in [Workers -> Payload \cup {NoPayload}]
      /\ todo \in Seq(1..Len(outbox))
  BY <1>1 DEF LinkTypeOK, IngestTypeOK, EdgeTypeOK
<1>3. TodoInHand'
  BY <1>1, TodoStep
<1>4. ASSUME NoPush' PROVE PushInHand'
  <2>1. (TodoInHand /\ NoPush => PushInHand)'
    BY DEF TodoInHand, NoPush, PushInHand, Push
  <2>. QED BY <1>3, <1>4, <2>1
<1>5. ASSUME UNCHANGED <<fpc, todo, sent>>,
             \A v \in Workers : via'[v] \in Push =>
               /\ via'[v] = via[v]
               /\ via[v] = "call" => rest'[v] = rest[v] /\ msg'[v] = msg[v]
      PROVE  PushInHand'
  <2>1. ASSUME NEW w \in Workers, via'[w] = "call"
        PROVE  rest'[w] = <<>> /\ msg'[w] = outbox'[Head(todo')].p
    <3>1. /\ via[w] = "call" /\ rest'[w] = rest[w] /\ msg'[w] = msg[w]
          /\ fpc = "call" /\ todo # <<>>
      BY <1>1, <1>5, <2>1 DEF PushInHand, Push
    <3>2. Head(todo) \in 1..Len(outbox)
      BY <1>2, <3>1
    <3>. QED BY <1>1, <1>5, <3>1, <3>2 DEF PushInHand, RowsKept
  <2>2. /\ \A w \in Workers : via'[w] \in Push => sent' /\ via'[w] = fpc'
        /\ \A v, w \in Workers : via'[v] \in Push /\ via'[w] \in Push => v = w
    BY <1>1, <1>5 DEF PushInHand
  <2>. QED BY <1>3, <2>1, <2>2 DEF PushInHand, TodoInHand, Push
<1>6. ASSUME NEW l \in Leads, User(l), UNCHANGED <<ingestVars, linkVars>>
      PROVE  PushInHand'
  BY <1>5, <1>6
     DEF User, Capture, VerifyOtp, OpenPayment, CompletePayment,
         EnqueuePayment, flushVars, ingestVars, linkVars
<1>7. ASSUME fpc \notin Push, UNCHANGED via PROVE PushInHand'
  BY <1>1, <1>4, <1>7 DEF NoPush, PushInHand
<1>8. CASE (FlushStep /\ UNCHANGED linkVars) \/ BufferFull \/ ApplyBreaks
  BY <1>7, <1>8
     DEF FlushStep, StartFlush, TakeAmqp, TakeHttp, EndFlush, Publish,
         PublishFails, MarkSent, ApplyAnswer, EndApply, BufferFull, PublishFull,
         ApplyBreaks, Push, linkVars
<1>9. CASE LinkUp \/ BrokerAccepts \/ LinkLost \/ AdminDeletesForm
             \/ UNCHANGED <<vars, syncMode>>
  BY <1>5, <1>9
     DEF LinkUp, BrokerAccepts, LinkLost, AdminDeletesForm, DeleteForm, vars,
         flushVars, edgeVars, ingestVars, handlers, linkVars
<1>10. ASSUME NEW w \in Workers, MasterAct(w) PROVE PushInHand'
  BY <1>1, <1>5, <1>10, WorkerKeeps DEF MasterAct, edgeVars, linkVars
<1>11. ASSUME NEW w \in Workers,
              \/ Consume(w) \/ Settle(w) \/ ConsumerLost(w) \/ OrphanEnds(w)
       PROVE  PushInHand'
  <2>1. /\ UNCHANGED <<fpc, todo, sent, rest>> 
        /\ via' \in [Workers -> Origin]
        /\ via'[w] \notin Push
        /\ \A v \in Workers : v # w => via'[v] = via[v]
        /\ \A v \in Workers : v # w => msg'[v] = msg[v]
    BY <1>2, <1>11
       DEF Consume, Settle, ConsumerLost, OrphanEnds, Deliver, Finish, edgeVars,
           ingestVars, Push, Origin
  <2>. QED BY <1>5, <2>1
<1>12. ASSUME NEW w \in Workers, Receive(w) PROVE PushInHand'
  <2>1. \A v \in Workers : via[v] \notin Push
    BY <1>1, <1>12 DEF Receive, PushInHand
  <2>2. /\ Head(Items) = outbox[Head(todo)].p
        /\ fpc = "call" => Tail(Items) = <<>>
    BY <1>1, <1>12, ItemsAreRows DEF Receive
  <2> HIDE DEF Items
  <2>3. /\ via' = [via EXCEPT ![w] = fpc] /\ sent'
        /\ rest' = [rest EXCEPT ![w] = Tail(Items)]
        /\ msg' = [msg EXCEPT ![w] = Head(Items)]
        /\ UNCHANGED <<fpc, todo, outbox>>
    BY <1>12 DEF Receive, Deliver, edgeVars
  <2>4. \A v \in Workers : via'[v] \in Push => v = w /\ via'[v] = fpc
    BY <1>2, <2>1, <2>3
  <2>5. ASSUME fpc = "call"
        PROVE  rest'[w] = <<>> /\ msg'[w] = outbox'[Head(todo')].p
    BY <1>2, <2>2, <2>3, <2>5
  <2>. QED BY <1>3, <2>3, <2>4, <2>5 DEF PushInHand, TodoInHand, Push
<1>13. ASSUME NEW w \in Workers, NextItem(w) PROVE PushInHand'
  <2>1. via[w] # "call"
    BY <1>1, <1>13 DEF NextItem, PushInHand
  <2>2. /\ UNCHANGED <<fpc, todo, sent, via>>
        /\ \A v \in Workers : v # w => rest'[v] = rest[v] /\ msg'[v] = msg[v]
    BY <1>2, <1>13 DEF NextItem, edgeVars
  <2>. QED BY <1>5, <2>1, <2>2
<1>14. ASSUME NEW w \in Workers, Respond(w) PROVE PushInHand'
  BY <1>1, <1>2, <1>4, <1>14 DEF Respond, PushInHand, NoPush, Push
<1>15. CASE TimeOut \/ EdgeCrash \/ MasterCrash
  BY <1>2, <1>4, <1>15
     DEF TimeOut, EdgeCrash, MasterCrash, Orphaned, NoPush, Push
<1>16. CASE Refused \/ ConnectionReset
  BY <1>1, <1>4, <1>16 DEF Refused, ConnectionReset, PushInHand, NoPush, Push
<1>. QED
  BY <1>6, <1>8, <1>9, <1>10, <1>11, <1>12, <1>13, <1>14, <1>15, <1>16
     DEF Next, Step, EdgeAct
-----------------------------------------------------------------------------
(***************************************************************************)
(* What the messages say: only a user's step adds a row to the outbox, and *)
(* every other message is a copy of one that was there.                    *)
(***************************************************************************)
LEMMA NewRows ==
  ASSUME TypeOK, TypeOK', [Next]_<<vars, syncMode>>
  PROVE  Len(outbox') = Len(outbox) \/ \E l \in Leads : User(l)
<1>0. outbox \in Seq(Event) /\ outbox' \in Seq(Event)
  BY DEF TypeOK, EdgeTypeOK
<1>1. CASE outbox' = outbox
  BY <1>1
<1>2. ASSUME NEW i, NEW st, Stamp(i, st) PROVE Len(outbox') = Len(outbox)
  <2>1. DOMAIN outbox' = DOMAIN outbox
    BY <1>2 DEF Stamp
  <2>. QED BY <1>0, <2>1
<1>3. CASE FlushStep
  BY <1>1, <1>2, <1>3
     DEF FlushStep, StartFlush, TakeAmqp, TakeHttp, EndFlush, Publish,
         PublishFails, MarkSent, ApplyAnswer, EndApply
<1>4. ASSUME PushFails \/ PublishFull \/ CallOk \/ ApplyBreaks
      PROVE  Len(outbox') = Len(outbox)
  BY <1>0, <1>1, <1>2, <1>4, FailedBatch
     DEF PushFails, CallFails, PostFails, PublishFull, CallOk, ApplyBreaks
<1>5. ASSUME NEW w \in Workers, Respond(w) PROVE Len(outbox') = Len(outbox)
  <2>1. CASE PostOk(Append(results[w], AnswerOf(w)))
    BY <1>1, <2>1 DEF PostOk
  <2>2. CallOk \/ CallFails \/ PostOk(Append(results[w], AnswerOf(w)))
    BY <1>5 DEF Respond
  <2>. QED BY <1>4, <2>1, <2>2 DEF PushFails
<1>6. CASE BufferFull \/ TimeOut \/ Refused \/ ConnectionReset
  BY <1>4, <1>6 DEF BufferFull, TimeOut, Refused, ConnectionReset
<1>7. CASE \/ \E w \in Workers : MasterAct(w) \/ Consume(w) \/ Settle(w)
                \/ ConsumerLost(w) \/ Receive(w) \/ NextItem(w) \/ OrphanEnds(w)
           \/ AdminDeletesForm \/ MasterCrash \/ UNCHANGED <<vars, syncMode>>
  BY <1>1, <1>7
     DEF MasterAct, Consume, Settle, ConsumerLost, Receive, NextItem,
         OrphanEnds, AdminDeletesForm, MasterCrash, vars, edgeVars
<1>8. CASE LinkUp \/ BrokerAccepts \/ LinkLost \/ EdgeCrash
  BY <1>1, <1>8 DEF LinkUp, BrokerAccepts, LinkLost, EdgeCrash
<1>. QED BY <1>3, <1>4, <1>5, <1>6, <1>7, <1>8 DEF Next, Step, EdgeAct

LEMMA OutboxKnown ==
  ASSUME TypeOK, TypeOK', Shapes, AllKnown, RowsKept, LeadsForward,
         [Next]_<<vars, syncMode>>
  PROVE  \A j \in 1..Len(outbox') : TrueOf(edgeLead', outbox'[j].p)
<1>1. outbox \in Seq(Event) /\ outbox' \in Seq(Event) /\ EdgeTypeOK
  BY DEF TypeOK, EdgeTypeOK
<1>2. ASSUME NEW j \in 1..Len(outbox)
      PROVE  TrueOf(edgeLead', outbox'[j].p)
  <2>1. outbox[j].p \in Payload /\ Known(outbox[j].p) /\ outbox'[j].p = outbox[j].p
    BY <1>1, EventOfRow DEF AllKnown, RowsKept
  <2>. QED BY <2>1, KnownStays
<1>3. CASE Len(outbox') = Len(outbox)
  BY <1>2, <1>3
<1>4. ASSUME NEW l \in Leads, NEW k \in EventKey, NEW p \in Payload, Queued(l, k, p)
      PROVE  \A j \in 1..Len(outbox') : TrueOf(edgeLead', outbox'[j].p)
  <2>1. /\ Len(outbox') = Len(outbox) + 1
        /\ outbox'[Len(outbox')] = NewEvent(k, p)
    BY <1>1, <1>4, AppendedRow DEF Queued
  <2>2. NewEvent(k, p).p = p /\ TrueOf(edgeLead', p)
    BY <1>4 DEF NewEvent, Queued, TrueOf
  <2>. QED BY <1>1, <1>2, <2>1, <2>2
<1>5. ASSUME NEW l \in Leads, User(l)
      PROVE  \/ outbox' = outbox
             \/ \E k \in EventKey, p \in Payload : Queued(l, k, p)
  BY <1>1, <1>5, UserStep
<1>. QED BY <1>3, <1>4, <1>5, NewRows

(* The socket buffer and the broker's queue hold what the outbox held. *)
LEMMA WiresKnown ==
  ASSUME TypeOK, TypeOK', ConsumerAtHead, PushInHand, AllKnown,
         LeadsForward, [Next]_<<vars, syncMode>>
  PROVE  /\ \A i \in 1..Len(wire') : TrueOf(edgeLead', wire'[i])
         /\ \A i \in 1..Len(queue') : TrueOf(edgeLead', queue'[i])
<1> DEFINE AreKnown(s) == \A i \in 1..Len(s) : Known(s[i])
<1>1. /\ outbox \in Seq(Event) /\ EdgeTypeOK
      /\ wire \in Seq(Payload) /\ wire' \in Seq(Payload)
      /\ queue \in Seq(Payload) /\ queue' \in Seq(Payload)
      /\ AreKnown(wire) /\ AreKnown(queue)
  BY DEF TypeOK, EdgeTypeOK, LinkTypeOK, AllKnown
<1>2. ASSUME NEW s \in Seq(Payload), AreKnown(s)
      PROVE  /\ s # <<>> => AreKnown(Tail(s)) /\ Known(Head(s))
             /\ \A p \in Payload : Known(p) => AreKnown(Append(s, p))
  BY <1>2 DEF Known
<1>3. AreKnown(<<>>)
  OBVIOUS
<1>4. ASSUME todo # <<>>
      PROVE  /\ outbox[Head(todo)].p \in Payload
             /\ Known(outbox[Head(todo)].p)
  <2>1. Head(todo) \in 1..Len(outbox)
    BY <1>1, <1>4 DEF EdgeTypeOK
  <2>. QED BY <1>1, <2>1, EventOfRow DEF AllKnown
<1>. HIDE DEF AreKnown
<1>5. AreKnown(wire') /\ AreKnown(queue')
  <2>1. CASE BrokerAccepts
    BY <1>1, <1>2, <2>1 DEF BrokerAccepts
  <2>2. CASE LinkLost \/ EdgeCrash
    BY <1>1, <1>3, <2>2 DEF LinkLost, EdgeCrash
  <2>3. CASE (Publish /\ UNCHANGED linkVars) \/ BufferFull
    BY <1>1, <1>2, <1>4, <2>3
       DEF Publish, BufferFull, PublishFull, PushInHand, linkVars
  <2>4. ASSUME NEW w \in Workers, Settle(w)
        PROVE  AreKnown(wire') /\ AreKnown(queue')
    <3>1. wire' = wire /\ (queue' = queue \/ queue' = Tail(queue))
      BY <2>4 DEF Settle, edgeVars
    <3>2. queue # <<>>
      BY <2>4 DEF Settle, ConsumerAtHead
    <3>. QED BY <1>1, <1>2, <3>1, <3>2
  <2>5. CASE FlushStep /\ ~Publish /\ UNCHANGED linkVars
    BY <1>1, <2>5
       DEF FlushStep, StartFlush, TakeAmqp, TakeHttp, EndFlush,
           PublishFails, MarkSent, ApplyAnswer, EndApply, linkVars
  <2>6. ASSUME NEW l \in Leads, User(l), UNCHANGED linkVars
        PROVE  AreKnown(wire') /\ AreKnown(queue')
    BY <1>1, <2>6
       DEF User, Capture, VerifyOtp, OpenPayment, CompletePayment,
           EnqueuePayment, linkVars
  <2>7. CASE \/ \E w \in Workers : MasterAct(w) \/ Consume(w)
                  \/ ConsumerLost(w) \/ Receive(w) \/ NextItem(w) \/ OrphanEnds(w)
             \/ AdminDeletesForm \/ MasterCrash \/ UNCHANGED <<vars, syncMode>>
    BY <1>1, <2>7
       DEF MasterAct, Consume, ConsumerLost, Receive, NextItem,
           OrphanEnds, AdminDeletesForm, MasterCrash, vars, edgeVars, linkVars
  <2>8. CASE \/ LinkUp \/ ApplyBreaks \/ TimeOut \/ Refused \/ ConnectionReset
             \/ \E w \in Workers : Respond(w)
    BY <1>1, <2>8
       DEF LinkUp, ApplyBreaks, TimeOut, Refused, ConnectionReset, Respond,
           PushFails, CallFails, PostFails, CallOk, PostOk, linkVars
  <2>. QED
    BY <2>1, <2>2, <2>3, <2>4, <2>5, <2>6, <2>7, <2>8 DEF Next, Step, EdgeAct
<1>6. \A p \in Payload : Known(p) => TrueOf(edgeLead', p)
  BY KnownStays
<1>7. ASSUME NEW s, s \in Seq(Payload), AreKnown(s)
      PROVE  \A i \in 1..Len(s) : TrueOf(edgeLead', s[i])
  <2>1. \A i \in 1..Len(s) : s[i] \in Payload /\ Known(s[i])
    BY <1>7 DEF AreKnown
  <2>. QED BY <1>6, <2>1
<1>. QED BY <1>1, <1>5, <1>7

(* A handler's message came from the queue or a push. *)
LEMMA HandlersKnown ==
  ASSUME TypeOK, TypeOK', PushInHand, AllKnown, LeadsForward,
         [Next]_<<vars, syncMode>>
  PROVE  /\ \A w \in Workers : pc'[w] # "idle" => TrueOf(edgeLead', msg'[w])
         /\ \A w \in Workers : \A i \in 1..Len(rest'[w]) :
              TrueOf(edgeLead', rest'[w][i])
<1> DEFINE AreKnown(s) == \A i \in 1..Len(s) : Known(s[i])
           HandlerKnown(w) == /\ pc[w] # "idle" => Known(msg[w])
                              /\ AreKnown(rest[w])
           HandlerKnownNext(w) == /\ pc'[w] # "idle" => Known(msg'[w])
                                  /\ AreKnown(rest'[w])
<1>1. /\ outbox \in Seq(Event) /\ EdgeTypeOK /\ IngestTypeOK
      /\ queue \in Seq(Payload)
      /\ rest \in [Workers -> Seq(Payload)] /\ rest' \in [Workers -> Seq(Payload)]
      /\ pc \in [Workers -> Steps] /\ msg \in [Workers -> Payload \cup {NoPayload}]
      /\ \A w \in Workers : HandlerKnown(w)
      /\ \A w \in Workers : pc'[w] # "idle" => msg'[w] \in Payload
      /\ AreKnown(queue)
  BY DEF TypeOK, EdgeTypeOK, LinkTypeOK, IngestTypeOK, AllKnown
<1>2. ASSUME NEW s \in Seq(Payload), AreKnown(s), s # <<>>
      PROVE  AreKnown(Tail(s)) /\ Known(Head(s))
  BY <1>2 DEF Known
<1>3. AreKnown(<<>>)
  OBVIOUS
<1>. HIDE DEF AreKnown
<1>4. ASSUME UNCHANGED rest,
             \A w \in Workers : pc'[w] = "idle" \/ (pc[w] # "idle" /\ msg'[w] = msg[w])
      PROVE  \A w \in Workers : HandlerKnownNext(w)
  BY <1>1, <1>4
<1>5. ASSUME NEW w \in Workers, HandlerKnownNext(w),
             \A v \in Workers : v # w =>
                pc'[v] = pc[v] /\ msg'[v] = msg[v] /\ rest'[v] = rest[v]
      PROVE  \A v \in Workers : HandlerKnownNext(v)
  BY <1>1, <1>5
<1>6. \A w \in Workers : HandlerKnownNext(w)
  <2>1. ASSUME NEW w \in Workers, MasterAct(w)
        PROVE  \A v \in Workers : HandlerKnownNext(v)
    BY <1>1, <1>4, <2>1, WorkerKeeps DEF MasterAct, linkVars
  <2>2. ASSUME NEW w \in Workers, Consume(w)
        PROVE  \A v \in Workers : HandlerKnownNext(v)
    <3>1. HandlerKnownNext(w)
      BY <1>1, <1>2, <2>2 DEF Consume, Deliver
    <3>. QED BY <1>1, <1>5, <2>2, <3>1 DEF Consume, Deliver, Goto
  <2>3. ASSUME NEW w \in Workers, Settle(w) \/ Respond(w) \/ OrphanEnds(w)
        PROVE  \A v \in Workers : HandlerKnownNext(v)
    <3>1. /\ UNCHANGED rest /\ pc'[w] = "idle"
          /\ \A v \in Workers : v # w => pc'[v] = pc[v] /\ msg'[v] = msg[v]
      BY <1>1, <2>3 DEF Settle, Respond, OrphanEnds, Finish, Goto
    <3>. QED BY <1>4, <3>1
  <2>4. ASSUME NEW w \in Workers, Receive(w)
        PROVE  \A v \in Workers : HandlerKnownNext(v)
    <3>1. /\ Items \in Seq(Payload) /\ Items # <<>>
          /\ \A j \in 1..Len(Items) : \E i \in 1..Len(outbox) : Items[j] = outbox[i].p
      BY <1>1, <2>4, ItemsAreRows DEF Receive
    <3> HIDE DEF Items
    <3>2. AreKnown(Items)
      BY <3>1 DEF AreKnown, AllKnown
    <3>3. HandlerKnownNext(w)
      BY <1>1, <1>2, <2>4, <3>1, <3>2 DEF Receive, Deliver
    <3>. QED BY <1>1, <1>5, <2>4, <3>3 DEF Receive, Deliver, Goto
  <2>5. ASSUME NEW w \in Workers, NextItem(w)
        PROVE  \A v \in Workers : HandlerKnownNext(v)
    <3>1. HandlerKnownNext(w)
      BY <1>1, <1>2, <2>5 DEF NextItem
    <3>. QED BY <1>1, <1>5, <2>5, <3>1 DEF NextItem, Goto
  <2>6. CASE MasterCrash
    BY <1>3, <2>6 DEF MasterCrash, Crash
  <2>7. CASE EdgeAct \/ LinkUp \/ BrokerAccepts \/ LinkLost \/ BufferFull
             \/ TimeOut \/ Refused \/ ConnectionReset \/ ApplyBreaks \/ EdgeCrash
             \/ AdminDeletesForm \/ (\E w \in Workers : ConsumerLost(w))
             \/ UNCHANGED <<vars, syncMode>>
    <3>. UNCHANGED <<pc, msg, rest>>
      BY <2>7
         DEF EdgeAct, LinkUp, BrokerAccepts, LinkLost, BufferFull, TimeOut, Refused,
             ConnectionReset, ApplyBreaks, EdgeCrash, AdminDeletesForm, DeleteForm,
             ConsumerLost, vars, ingestVars, handlers, linkVars
    <3>. QED BY <1>1
  <2>. QED BY <2>1, <2>2, <2>3, <2>4, <2>5, <2>6, <2>7 DEF Next, Step
<1>7. \A p \in Payload : Known(p) => TrueOf(edgeLead', p)
  BY KnownStays
<1>8. ASSUME NEW s, s \in Seq(Payload), AreKnown(s)
      PROVE  \A i \in 1..Len(s) : TrueOf(edgeLead', s[i])
  <2>1. \A i \in 1..Len(s) : s[i] \in Payload /\ Known(s[i])
    BY <1>8 DEF AreKnown
  <2>. QED BY <1>7, <2>1
<1>. QED BY <1>1, <1>6, <1>7, <1>8

LEMMA AllKnownStep ==
  ASSUME TypeOK, TypeOK', Shapes, LinkInv, AllKnown, RowsKept, LeadsForward,
         [Next]_<<vars, syncMode>>
  PROVE  AllKnown'
  BY OutboxKnown, WiresKnown, HandlersKnown DEF LinkInv, AllKnown, Known
-----------------------------------------------------------------------------
(***************************************************************************)
(* The master's tables: never ahead of the edge's row.                     *)
(***************************************************************************)
LEMMA MasterTables ==
  ASSUME TypeOK, TypeOK', AllKnown, IngestInv, DispatchesPaid, NotifiedOnlyPaid,
         MasterNeverAhead, LeadsForward,
         [IngestNext]_ingestVars \/ \E w \in Workers : NextItem(w)
  PROVE  DispatchesPaid' /\ NotifiedOnlyPaid' /\ MasterNeverAhead'
<1>1. /\ IngestTypeOK
      /\ pc \in [Workers -> Steps] /\ msg \in [Workers -> Payload \cup {NoPayload}]
      /\ masterLead \in [Leads -> Row] /\ masterPay \in [Leads -> PayStatus]
      /\ notified \in [Keys -> Nat]
      /\ \A l \in Leads : masterLead[l].ver \in Nat
      /\ \A w \in Workers : pc[w] # "idle" => msg[w] \in Payload
  BY RowVersion DEF TypeOK, IngestTypeOK
<1>2. \A l \in Leads : edgeLead[l].ver \in 0..2 /\ edgeLead'[l].ver \in 0..2
  BY EdgeRowFields DEF TypeOK, EdgeTypeOK
<1>3. ASSUME NEW w \in Workers, pc[w] # "idle"
      PROVE  /\ msg[w] \in Payload /\ msg[w].lead \in Leads /\ msg[w].ver \in 1..2
             /\ msg[w].ver <= edgeLead'[msg[w].lead].ver
             /\ msg[w].pay = "COMPLETED" => edgeLead'[msg[w].lead].pay = "COMPLETED"
  <2>1. Known(msg[w]) /\ msg[w] \in Payload
    BY <1>1, <1>3 DEF AllKnown
  <2>. QED
    BY <1>2, <2>1, KeyOfPayload DEF Known, TrueOf, LeadsForward, Versions
<1>4. ASSUME UNCHANGED <<masterLead, masterPay>>
      PROVE  MasterNeverAhead'
  BY <1>1, <1>2, <1>4 DEF MasterNeverAhead, LeadsForward
<1>5. ASSUME UNCHANGED notified PROVE NotifiedOnlyPaid'
  BY <1>5 DEF NotifiedOnlyPaid, LeadsForward, Keys
<1>6. ASSUME \A w \in Workers : pc'[w] = "dispatch" =>
               pc[w] = "dispatch" /\ msg'[w] = msg[w]
      PROVE  DispatchesPaid'
  BY <1>6 DEF DispatchesPaid
<1>7. ASSUME NEW w \in Workers,
             \/ \E p : Deliver(w, p)
             \/ CheckProcessed(w) \/ FindForm(w) \/ ReadExisting(w) \/ Finish(w)
             \/ NextItem(w)
      PROVE  DispatchesPaid' /\ NotifiedOnlyPaid' /\ MasterNeverAhead'
  <2>1. UNCHANGED <<masterLead, masterPay, notified>>
    BY <1>7
       DEF Deliver, CheckProcessed, FindForm, ReadExisting, Finish, NextItem, tables
  <2>2. /\ pc'[w] # "dispatch"
        /\ \A v \in Workers : v # w => pc'[v] = pc[v] /\ msg'[v] = msg[v]
    BY <1>1, <1>7
       DEF Deliver, CheckProcessed, FindForm, ReadExisting, Finish, NextItem, Goto
  <2>. QED BY <1>4, <1>5, <1>6, <2>1, <2>2
<1>8. ASSUME NEW w \in Workers, UpsertLead(w)
      PROVE  DispatchesPaid' /\ NotifiedOnlyPaid' /\ MasterNeverAhead'
  <2>1. /\ UNCHANGED <<masterPay, notified, msg>>
        /\ pc'[w] # "dispatch" /\ \A v \in Workers : v # w => pc'[v] = pc[v]
    BY <1>1, <1>8 DEF UpsertLead, Goto
  <2>2. \A l \in Leads : \/ masterLead'[l] = masterLead[l]
                         \/ l = msg[w].lead /\ masterLead'[l].ver = msg[w].ver
    BY <1>1, <1>3, <1>8 DEF UpsertLead
  <2>3. MasterNeverAhead'
    BY <1>1, <1>2, <1>3, <1>8, <2>1, <2>2
       DEF MasterNeverAhead, LeadsForward, UpsertLead
  <2>. QED BY <1>5, <1>6, <2>1, <2>3
<1>9. ASSUME NEW w \in Workers, UpsertPayment(w)
      PROVE  DispatchesPaid' /\ NotifiedOnlyPaid' /\ MasterNeverAhead'
  <2>1. /\ UNCHANGED <<masterLead, notified, msg>>
        /\ pc'[w] # "dispatch" /\ \A v \in Workers : v # w => pc'[v] = pc[v]
    BY <1>1, <1>9 DEF UpsertPayment, Goto
  <2>2. \A l \in Leads : \/ masterPay'[l] = masterPay[l]
                         \/ l = msg[w].lead /\ masterPay'[l] = msg[w].pay
    BY <1>1, <1>3, <1>9 DEF UpsertPayment
  <2>3. MasterNeverAhead'
    BY <1>1, <1>2, <1>3, <1>9, <2>1, <2>2
       DEF MasterNeverAhead, LeadsForward, UpsertPayment
  <2>. QED BY <1>5, <1>6, <2>1, <2>3
<1>10. ASSUME NEW w \in Workers, MarkProcessed(w)
       PROVE  DispatchesPaid' /\ NotifiedOnlyPaid' /\ MasterNeverAhead'
  <2>1. /\ UNCHANGED <<masterLead, masterPay, notified, msg>>
        /\ \A v \in Workers : v # w => pc'[v] = pc[v]
        /\ pc'[w] = "dispatch" => ShouldDispatch(msg[w], seen[w])
    BY <1>1, <1>10 DEF MarkProcessed, Goto
  <2>2. DispatchesPaid'
    BY <2>1 DEF DispatchesPaid, ShouldDispatch
  <2>. QED BY <1>4, <1>5, <2>1, <2>2
<1>11. ASSUME NEW w \in Workers, Dispatch(w)
       PROVE  DispatchesPaid' /\ NotifiedOnlyPaid' /\ MasterNeverAhead'
  <2>1. /\ pc[w] = "dispatch"
        /\ UNCHANGED <<masterLead, masterPay, msg>>
        /\ pc'[w] # "dispatch" /\ \A v \in Workers : v # w => pc'[v] = pc[v]
    BY <1>1, <1>11 DEF Dispatch, Goto, tables
  <2>2. \A k \in Keys : notified'[k] = notified[k] \/ k = Key(msg[w])
    BY <1>1, <1>11 DEF Dispatch
  <2>3. IsPaid(msg[w].lead) => edgeLead'[msg[w].lead].pay = "COMPLETED"
    BY <1>3, <2>1 DEF DispatchesPaid
  <2>4. NotifiedOnlyPaid'
    BY <2>2, <2>3 DEF NotifiedOnlyPaid, LeadsForward, Key, Keys
  <2>. QED BY <1>4, <1>6, <2>1, <2>4
<1>12. ASSUME NEW f \in Forms, DeleteForm(f)
       PROVE  DispatchesPaid' /\ NotifiedOnlyPaid' /\ MasterNeverAhead'
  <2>1. UNCHANGED <<notified, pc, msg>>
    BY <1>12 DEF DeleteForm, handlers
  <2>2. \A l \in Leads : /\ masterLead'[l] = masterLead[l] \/ masterLead'[l] = NoRow
                         /\ masterPay'[l] = masterPay[l] \/ masterPay'[l] = "NONE"
    BY <1>12 DEF DeleteForm
  <2>3. MasterNeverAhead'
    BY <1>1, <1>2, <2>2 DEF MasterNeverAhead, LeadsForward, NoRow
  <2>. QED BY <1>5, <1>6, <2>1, <2>3
<1>13. CASE Crash
  <2>1. UNCHANGED <<masterLead, masterPay, notified>> /\ \A w \in Workers : pc'[w] = "idle"
    BY <1>13 DEF Crash, tables
  <2>. QED BY <1>4, <1>5, <1>6, <2>1
<1>14. CASE UNCHANGED ingestVars
  BY <1>4, <1>5, <1>6, <1>14 DEF ingestVars
<1>. QED
  BY <1>7, <1>8, <1>9, <1>10, <1>11, <1>12, <1>13, <1>14
     DEF IngestNext, WorkerStep
-----------------------------------------------------------------------------
(***************************************************************************)
(* What is safe stays safe: a payload leaves the buffer for the queue or   *)
(* with a lost connection, and the queue when its key is handled.          *)
(***************************************************************************)
SafeNext(p) == SafeIn(processed', queue', wire', dropped', p)

LEMMA ProcessedGrows ==
  ASSUME [IngestNext]_ingestVars \/ \E w \in Workers : NextItem(w)
  PROVE  processed \subseteq processed'
  BY DEF IngestNext, WorkerStep, Deliver, CheckProcessed, FindForm, ReadExisting,
         UpsertLead, UpsertPayment, MarkProcessed, Dispatch, Finish, DeleteForm,
         Crash, NextItem, tables, ingestVars

LEMMA ElementsUpdates ==
  ASSUME NEW s \in Seq(Payload)
  PROVE  /\ \A p \in Payload : Elements(Append(s, p)) = Elements(s) \cup {p}
         /\ s # <<>> => Elements(s) = {Head(s)} \cup Elements(Tail(s))
         /\ Elements(<<>>) = {}
<1>1. ASSUME NEW p \in Payload
      PROVE  Elements(Append(s, p)) = Elements(s) \cup {p}
  BY DEF Elements
<1>2. ASSUME s # <<>>
      PROVE  Elements(s) = {Head(s)} \cup Elements(Tail(s))
  <2>1. \A i \in 2..Len(s) : s[i] = Tail(s)[i-1] /\ i - 1 \in 1..Len(Tail(s))
    BY <1>2
  <2>2. \A i \in 1..Len(Tail(s)) : Tail(s)[i] = s[i+1] /\ i + 1 \in 1..Len(s)
    BY <1>2
  <2>3. Head(s) = s[1] /\ 1 \in 1..Len(s)
    BY <1>2
  <2>4. \A i \in 1..Len(s) : s[i] \in {Head(s)} \cup Elements(Tail(s))
    <3>1. \A i \in 1..Len(s) : i = 1 \/ i \in 2..Len(s)
      OBVIOUS
    <3>. QED BY <2>1, <2>3, <3>1 DEF Elements
  <2>5. Head(s) \in Elements(s)
    BY <2>3 DEF Elements
  <2>6. \A i \in 1..Len(Tail(s)) : Tail(s)[i] \in Elements(s)
    BY <2>2 DEF Elements
  <2>7. Elements(s) \subseteq {Head(s)} \cup Elements(Tail(s))
    BY <2>4 DEF Elements
  <2>8. Elements(Tail(s)) \subseteq Elements(s)
    BY <2>6 DEF Elements
  <2>. QED BY <2>5, <2>7, <2>8
<1>3. Elements(<<>>) = {}
  BY DEF Elements
<1>. QED BY <1>1, <1>2, <1>3

LEMMA SafeStays ==
  ASSUME TypeOK, LinkInv, AllKnown, AnswersAreTrue, [Next]_<<vars, syncMode>>
  PROVE  \A p \in Payload : Safe(p) => SafeNext(p)
<1>1. processed \subseteq processed'
  BY MasterStep, ProcessedGrows DEF LinkInv
<1>2. /\ queue \in Seq(Payload) /\ wire \in Seq(Payload)
      /\ outbox \in Seq(Event) /\ todo \in Seq(1..Len(outbox))
  BY DEF TypeOK, LinkTypeOK, EdgeTypeOK
<1>3. SUFFICES ASSUME NEW p \in Payload, p \in Elements(queue) \cup Elements(wire) \cup dropped
               PROVE  SafeNext(p)
  BY <1>1 DEF Safe, SafeNext, SafeIn
<1> USE DEF SafeNext, SafeIn
<1>4. CASE UNCHANGED <<queue, wire, dropped>>
  BY <1>3, <1>4
<1>5. CASE BrokerAccepts
  BY <1>2, <1>3, <1>5, ElementsUpdates DEF BrokerAccepts
<1>6. CASE LinkLost \/ EdgeCrash
  BY <1>3, <1>6 DEF LinkLost, EdgeCrash
<1>7. CASE (Publish /\ UNCHANGED linkVars) \/ BufferFull
  <2>1. todo # <<>>
    BY <1>7 DEF Publish, BufferFull, PublishFull, LinkInv, PushInHand
  <2>2. outbox[Head(todo)].p \in Payload
    BY <1>2, <2>1, EventOfRow
  <2>3. /\ wire' = Append(wire, outbox[Head(todo)].p)
        /\ UNCHANGED <<queue, dropped>>
    BY <1>7 DEF Publish, BufferFull, PublishFull, linkVars
  <2>4. Elements(wire) \subseteq Elements(wire')
    BY <1>2, <2>2, <2>3, ElementsUpdates
  <2>. QED BY <1>3, <2>3, <2>4
<1>8. ASSUME NEW w \in Workers, Settle(w) PROVE SafeNext(p)
  <2>1. queue # <<>> /\ msg[w] = Head(queue) /\ UNCHANGED <<wire, dropped>>
    BY <1>8 DEF Settle, LinkInv, ConsumerAtHead, edgeVars
  <2>2. CASE Requeued(w)
    BY <1>4, <1>8, <2>1, <2>2 DEF Settle
  <2>3. CASE ~Requeued(w)
    <3>1. queue' = Tail(queue) /\ Key(Head(queue)) \in processed
      BY <1>8, <2>1, <2>3
         DEF Settle, Requeued, Finish, Finished, AnswersAreTrue
    <3>2. p \in Elements(queue) => p = Head(queue) \/ p \in Elements(queue')
      BY <1>2, <2>1, <3>1, ElementsUpdates
    <3>. QED BY <1>1, <1>3, <2>1, <3>1, <3>2
  <2>. QED BY <2>2, <2>3
<1>9. CASE FlushStep /\ ~Publish /\ UNCHANGED linkVars
  BY <1>4, <1>9
     DEF FlushStep, StartFlush, TakeAmqp, TakeHttp, EndFlush, PublishFails,
         MarkSent, ApplyAnswer, EndApply, linkVars
<1>10. ASSUME NEW l \in Leads, User(l), UNCHANGED linkVars PROVE SafeNext(p)
  BY <1>4, <1>10
     DEF User, Capture, VerifyOtp, OpenPayment, CompletePayment,
         EnqueuePayment, linkVars
<1>11. CASE \/ \E w \in Workers : MasterAct(w) \/ Consume(w)
                 \/ ConsumerLost(w) \/ Receive(w) \/ NextItem(w) \/ OrphanEnds(w)
            \/ AdminDeletesForm \/ MasterCrash \/ UNCHANGED <<vars, syncMode>>
  BY <1>4, <1>11
     DEF MasterAct, Consume, ConsumerLost, Receive, NextItem,
         OrphanEnds, AdminDeletesForm, MasterCrash, vars, edgeVars, linkVars
<1>12. CASE \/ LinkUp \/ ApplyBreaks \/ TimeOut \/ Refused \/ ConnectionReset
            \/ \E w \in Workers : Respond(w)
  BY <1>4, <1>12
     DEF LinkUp, ApplyBreaks, TimeOut, Refused, ConnectionReset, Respond,
         PushFails, CallFails, PostFails, CallOk, PostOk, linkVars
<1>. QED
  BY <1>5, <1>6, <1>7, <1>8, <1>9, <1>10, <1>11, <1>12
     DEF Next, Step, EdgeAct

(***************************************************************************)
(* The answers of the handlers, of a batch, and the rows marked SENT.      *)
(***************************************************************************)
LEMMA AnswersStay ==
  ASSUME processed \subseteq processed'
  PROVE  \A a : True(a) => TrueAnswer(processed', a)
  BY DEF True, TrueAnswer

Answered == {"accepted", "duplicate"}

LEMMA HandlerAnswers ==
  ASSUME TypeOK, IngestInv, AnswersAreTrue,
         [IngestNext]_ingestVars \/ \E w \in Workers : NextItem(w)
  PROVE  \A w \in Workers : pc'[w] \in Answered => Key(msg'[w]) \in processed'
<1>1. /\ processed \subseteq processed'
      /\ pc \in [Workers -> Steps] /\ msg \in [Workers -> Payload \cup {NoPayload}]
      /\ \A w \in Workers : pc[w] \in Answered => Key(msg[w]) \in processed
  BY ProcessedGrows DEF TypeOK, IngestTypeOK, AnswersAreTrue, Answered
<1> USE DEF Answered
<1>2. ASSUME NEW w \in Workers,
             \A v \in Workers : v # w => pc'[v] = pc[v] /\ msg'[v] = msg[v],
             pc'[w] \in Answered => Key(msg'[w]) \in processed'
      PROVE  \A v \in Workers : pc'[v] \in Answered => Key(msg'[v]) \in processed'
  BY <1>1, <1>2
<1>3. ASSUME NEW w \in Workers,
             \/ \E p : Deliver(w, p)
             \/ FindForm(w) \/ ReadExisting(w) \/ UpsertLead(w) \/ UpsertPayment(w)
             \/ Finish(w) \/ NextItem(w)
      PROVE  \A v \in Workers : pc'[v] \in Answered => Key(msg'[v]) \in processed'
  <2>1. /\ pc'[w] \notin Answered
        /\ \A v \in Workers : v # w => pc'[v] = pc[v] /\ msg'[v] = msg[v]
    BY <1>1, <1>3
       DEF Deliver, FindForm, ReadExisting, UpsertLead, UpsertPayment, Finish,
           NextItem, Goto
  <2>. QED BY <1>2, <2>1
<1>4. ASSUME NEW w \in Workers, CheckProcessed(w) \/ MarkProcessed(w) \/ Dispatch(w)
      PROVE  \A v \in Workers : pc'[v] \in Answered => Key(msg'[v]) \in processed'
  <2>1. msg' = msg /\ \A v \in Workers : v # w => pc'[v] = pc[v]
    BY <1>1, <1>4 DEF CheckProcessed, MarkProcessed, Dispatch, Goto
  <2>2. pc'[w] \in Answered => Key(msg[w]) \in processed'
    BY <1>1, <1>4
       DEF CheckProcessed, MarkProcessed, Dispatch, Goto, tables, UniqueConflict,
           IngestInv, OneDispatcher
  <2>. QED BY <1>2, <2>1, <2>2
<1>5. CASE (\E f \in Forms : DeleteForm(f)) \/ Crash \/ UNCHANGED ingestVars
  BY <1>1, <1>5 DEF DeleteForm, Crash, handlers, ingestVars
<1>. QED BY <1>3, <1>4, <1>5 DEF IngestNext, WorkerStep

LEMMA BatchAnswers ==
  ASSUME TypeOK, TypeOK', AnswersAreTrue, processed \subseteq processed',
         [Next]_<<vars, syncMode>>
  PROVE  /\ \A w \in Workers : \A i \in 1..Len(results'[w]) :
              TrueAnswer(processed', results'[w][i])
         /\ \A i \in 1..Len(answers') : TrueAnswer(processed', answers'[i])
<1> DEFINE AreTrue(s) == \A i \in 1..Len(s) : True(s[i])
<1>1. /\ results \in [Workers -> Seq(Answer)] /\ answers \in Seq(Answer)
      /\ \A w \in Workers : AreTrue(results[w])
      /\ AreTrue(answers)
      /\ IngestTypeOK /\ LinkTypeOK
  BY DEF TypeOK, LinkTypeOK, EdgeTypeOK, AnswersAreTrue
<1>2. AreTrue(<<>>)
  OBVIOUS
<1>3. ASSUME NEW w \in Workers, pc[w] \in Finished
      PROVE  AreTrue(Append(results[w], AnswerOf(w)))
  BY <1>1, <1>3, AnswerIsAnswer
<1>4. answers # <<>> => AreTrue(Tail(answers))
  BY <1>1
<1>. HIDE DEF AreTrue
<1>5. /\ \A w \in Workers : AreTrue(results'[w])
      /\ AreTrue(answers')
  <2>1. CASE UNCHANGED <<results, answers>>
    BY <1>1, <2>1
  <2>2. CASE FlushStep /\ UNCHANGED linkVars
    <3>1. results' = results /\ (answers' = answers \/ ApplyAnswer)
      BY <2>2
         DEF FlushStep, StartFlush, TakeAmqp, TakeHttp, EndFlush, Publish,
             PublishFails, MarkSent, EndApply, linkVars
    <3>. QED BY <1>1, <1>4, <3>1 DEF ApplyAnswer
  <2>3. ASSUME NEW w \in Workers, NextItem(w)
        PROVE  (\A v \in Workers : AreTrue(results'[v])) /\ AreTrue(answers')
    <3>1. /\ results' = [results EXCEPT ![w] = Append(results[w], AnswerOf(w))]
          /\ answers' = answers /\ pc[w] \in Finished
      BY <2>3 DEF NextItem, edgeVars
    <3>. QED BY <1>1, <1>3, <3>1
  <2>4. ASSUME NEW w \in Workers, Respond(w)
        PROVE  (\A v \in Workers : AreTrue(results'[v])) /\ AreTrue(answers')
    <3>1. results' = [results EXCEPT ![w] = <<>>] /\ pc[w] \in Finished
      BY <2>4 DEF Respond, Finish
    <3>2. answers' = answers \/ answers' = Append(results[w], AnswerOf(w))
      BY <2>4 DEF Respond, CallOk, CallFails, PostOk
    <3>. QED BY <1>1, <1>2, <1>3, <3>1, <3>2
  <2>5. ASSUME NEW w \in Workers, OrphanEnds(w)
        PROVE  (\A v \in Workers : AreTrue(results'[v])) /\ AreTrue(answers')
    BY <1>1, <1>2, <2>5 DEF OrphanEnds, edgeVars
  <2>6. CASE MasterCrash
    BY <1>1, <1>2, <2>6 DEF MasterCrash, edgeVars
  <2>7. CASE EdgeCrash \/ ApplyBreaks
    BY <1>1, <1>2, <2>7 DEF EdgeCrash, ApplyBreaks
  <2>8. ASSUME NEW l \in Leads, User(l), UNCHANGED linkVars
        PROVE  (\A v \in Workers : AreTrue(results'[v])) /\ AreTrue(answers')
    BY <2>1, <2>8
       DEF User, Capture, VerifyOtp, OpenPayment, CompletePayment,
           EnqueuePayment, flushVars, linkVars
  <2>9. CASE \/ \E w \in Workers : MasterAct(w) \/ Consume(w) \/ Settle(w)
                  \/ ConsumerLost(w) \/ Receive(w)
             \/ AdminDeletesForm \/ UNCHANGED <<vars, syncMode>>
    BY <2>1, <2>9
       DEF MasterAct, Consume, Settle, ConsumerLost, Receive, AdminDeletesForm,
           vars, edgeVars, linkVars
  <2>10. CASE LinkUp \/ BrokerAccepts \/ LinkLost \/ BufferFull \/ TimeOut
                \/ Refused \/ ConnectionReset
    BY <2>1, <2>10
       DEF LinkUp, BrokerAccepts, LinkLost, BufferFull, TimeOut, Refused,
           ConnectionReset, PushFails, CallFails, PostFails, PublishFull,
           flushVars, linkVars
  <2>. QED
    BY <2>2, <2>3, <2>4, <2>5, <2>6, <2>7, <2>8, <2>9, <2>10
       DEF Next, Step, EdgeAct
<1>6. ASSUME NEW s, AreTrue(s)
      PROVE  \A i \in 1..Len(s) : TrueAnswer(processed', s[i])
  BY <1>6, AnswersStay DEF AreTrue
<1>. QED BY <1>5, <1>6

LEMMA MarkIsPublished ==
  ASSUME [Next]_<<vars, syncMode>>, fpc' = "mark"
  PROVE  \/ Publish /\ UNCHANGED linkVars
         \/ fpc = "mark" /\ todo' = todo
<1>1. CASE UNCHANGED <<fpc, todo>>
  BY <1>1
<1>2. CASE EdgeAct
  BY <1>2
     DEF EdgeAct, FlushStep, StartFlush, TakeAmqp, TakeHttp, EndFlush,
         PublishFails, MarkSent, ApplyAnswer, EndApply, User, Capture, VerifyOtp,
         OpenPayment, CompletePayment, EnqueuePayment, flushVars
<1>3. CASE \/ \E w \in Workers : MasterAct(w) \/ Consume(w) \/ Settle(w)
                \/ ConsumerLost(w) \/ Receive(w) \/ NextItem(w) \/ OrphanEnds(w)
           \/ AdminDeletesForm \/ MasterCrash \/ UNCHANGED <<vars, syncMode>>
           \/ LinkUp \/ BrokerAccepts \/ LinkLost
  BY <1>1, <1>3
     DEF MasterAct, Consume, Settle, ConsumerLost, Receive, NextItem, OrphanEnds,
         AdminDeletesForm, MasterCrash, vars, edgeVars, LinkUp, BrokerAccepts,
         LinkLost, flushVars
<1>4. CASE \/ BufferFull \/ TimeOut \/ Refused \/ ConnectionReset \/ ApplyBreaks
           \/ EdgeCrash \/ \E w \in Workers : Respond(w)
  BY <1>4
     DEF BufferFull, TimeOut, Refused, ConnectionReset, ApplyBreaks, EdgeCrash,
         Respond, PushFails, CallFails, PostFails, CallOk, PostOk, PublishFull
<1>. QED BY <1>2, <1>3, <1>4 DEF Next, Step

RowKeys ==
  \A i \in 1..Len(outbox) :
    outbox[i].key \in Keys => outbox[i].key = Key(outbox[i].p)

LEMMA RowKeysStep ==
  ASSUME TypeOK, TypeOK', Shapes, RowKeys, RowsKept, [Next]_<<vars, syncMode>>
  PROVE  RowKeys'
<1>1. outbox \in Seq(Event) /\ outbox' \in Seq(Event) /\ EdgeTypeOK
  BY DEF TypeOK, EdgeTypeOK
<1>2. \A j \in 1..Len(outbox) :
        outbox'[j].key \in Keys => outbox'[j].key = Key(outbox'[j].p)
  BY DEF RowKeys, RowsKept
<1>3. ASSUME NEW l \in Leads, NEW k \in EventKey, NEW p \in Payload, Queued(l, k, p)
      PROVE  RowKeys'
  <2>1. /\ Len(outbox') = Len(outbox) + 1
        /\ outbox'[Len(outbox')] = NewEvent(k, p)
    BY <1>1, <1>3, AppendedRow DEF Queued
  <2>2. /\ NewEvent(k, p).p = p /\ NewEvent(k, p).key = k
        /\ k \in Keys => k = Key(p)
    BY <1>3 DEF NewEvent, Queued
  <2>. QED BY <1>1, <1>2, <2>1, <2>2 DEF RowKeys
<1>4. ASSUME NEW l \in Leads, User(l)
      PROVE  \/ outbox' = outbox
             \/ \E k \in EventKey, p \in Payload : Queued(l, k, p)
  BY <1>1, <1>4, UserStep
<1>5. CASE Len(outbox') = Len(outbox)
  BY <1>2, <1>5 DEF RowKeys
<1>. QED BY <1>3, <1>4, <1>5, NewRows

LEMMA SafeStep ==
  ASSUME TypeOK, TypeOK', EdgeInv, IngestInv, LinkInv, SafeInv, RowsOK,
         [Next]_<<vars, syncMode>>
  PROVE  SafeInv'
<1>1. [IngestNext]_ingestVars \/ \E w \in Workers : NextItem(w)
  BY MasterStep DEF EdgeInv, LinkInv
<1>2. processed \subseteq processed'
  BY <1>1, ProcessedGrows
<1>3. \A p \in Payload : Safe(p) => SafeNext(p)
  BY SafeStays DEF EdgeInv, SafeInv
<1>4. /\ outbox \in Seq(Event) /\ outbox' \in Seq(Event)
      /\ todo \in Seq(1..Len(outbox))
      /\ RowsKept /\ SentBacked
  BY DEF TypeOK, EdgeTypeOK, RowsOK
<1>5. AnswersAreTrue'
  <2>1. \A w \in Workers : pc'[w] \in Answered => Key(msg'[w]) \in processed'
    BY <1>1, HandlerAnswers DEF SafeInv
  <2>2. /\ \A w \in Workers : \A i \in 1..Len(results'[w]) :
             TrueAnswer(processed', results'[w][i])
        /\ \A i \in 1..Len(answers') : TrueAnswer(processed', answers'[i])
    BY <1>2, BatchAnswers DEF SafeInv
  <2>. QED BY <2>1, <2>2 DEF AnswersAreTrue, True, Answered
<1>6. RowKeys'
  BY <1>4, RowKeysStep DEF SafeInv, RowKeys, EdgeInv, Shapes
<1>7. ASSUME fpc' = "mark" PROVE SafeNext(outbox'[Head(todo')].p)
  <2>1. fpc \in {"assert", "mark"} /\ todo' = todo /\ todo # <<>>
    BY <1>7, MarkIsPublished DEF Publish, LinkInv, PushInHand
  <2>2. Head(todo) \in 1..Len(outbox)
    BY <1>4, <2>1
  <2>3. /\ outbox[Head(todo)].p \in Payload
        /\ outbox'[Head(todo')].p = outbox[Head(todo)].p
    BY <1>4, <2>1, <2>2, EventOfRow DEF RowsKept
  <2>4. CASE Publish /\ UNCHANGED linkVars
    <3>1. wire \in Seq(Payload) /\ wire' = Append(wire, outbox[Head(todo)].p)
      BY <2>4 DEF Publish, TypeOK, EdgeTypeOK
    <3>2. outbox[Head(todo)].p \in Elements(wire')
      BY <2>3, <3>1, ElementsUpdates
    <3>. QED BY <2>3, <3>2 DEF SafeNext, SafeIn
  <2>5. CASE fpc = "mark"
    BY <1>3, <2>3, <2>5 DEF SafeInv
  <2>. QED BY <1>7, <2>4, <2>5, MarkIsPublished
<1>8. \A j \in 1..Len(outbox') : outbox'[j].status = "SENT" => SafeNext(outbox'[j].p)
  <2>1. ASSUME NEW j \in 1..Len(outbox'), outbox'[j].status = "SENT"
        PROVE  SafeNext(outbox'[j].p)
    <3>1. j \in 1..Len(outbox) /\ Safe(outbox[j].p)
      BY <1>4, <2>1 DEF SentBacked
    <3>2. outbox[j].p \in Payload /\ outbox'[j].p = outbox[j].p
      BY <1>4, <3>1, EventOfRow DEF RowsKept
    <3>. QED BY <1>3, <3>1, <3>2
  <2>. QED BY <2>1
<1>9. SentIsSafe'
  BY <1>8 DEF SentIsSafe, SafeNext, SafeIn
<1>10. (fpc = "mark" => Safe(outbox[Head(todo)].p))'
  BY <1>7 DEF Safe, SafeNext
<1>. QED BY <1>5, <1>6, <1>9, <1>10 DEF SafeInv, RowKeys

LEMMA VersionsStep ==
  ASSUME TypeOK, TypeOK', Shapes, VersionsAreQueued, RowsKept, OnlyUsers
  PROVE  VersionsAreQueued'
<1>1. outbox \in Seq(Event) /\ outbox' \in Seq(Event) /\ EdgeTypeOK
  BY DEF TypeOK, EdgeTypeOK
<1>2. ASSUME NEW l \in Leads, NEW v \in Versions, edgeLead[l].ver >= v
      PROVE  \E i \in 1..Len(outbox') : outbox'[i].key = <<l, v>>
  <2>1. PICK i \in 1..Len(outbox) : outbox[i].key = <<l, v>>
    BY <1>2 DEF VersionsAreQueued
  <2>2. i \in 1..Len(outbox') /\ outbox'[i].key = <<l, v>>
    BY <1>1, <2>1 DEF RowsKept
  <2>. QED BY <2>2
<1>3. CASE edgeLead' = edgeLead
  BY <1>2, <1>3 DEF VersionsAreQueued
<1>4. ASSUME NEW u \in Leads, User(u) PROVE VersionsAreQueued'
  <2>1. /\ Forward(u)
        /\ \/ outbox' = outbox /\ edgeLead'[u].ver = edgeLead[u].ver
           \/ \E k \in EventKey, p \in Payload :
                /\ Queued(u, k, p)
                /\ edgeLead'[u].ver # edgeLead[u].ver => k = <<u, edgeLead'[u].ver>>
    BY <1>1, <1>4, UserStep
  <2>2. ASSUME edgeLead'[u].ver # edgeLead[u].ver
        PROVE  \E i \in 1..Len(outbox') : outbox'[i].key = <<u, edgeLead'[u].ver>>
    <3>1. PICK k \in EventKey, p \in Payload :
            Queued(u, k, p) /\ k = <<u, edgeLead'[u].ver>>
      BY <2>1, <2>2
    <3>2. /\ Len(outbox') = Len(outbox) + 1
          /\ outbox'[Len(outbox')] = NewEvent(k, p)
      BY <1>1, <3>1, AppendedRow DEF Queued
    <3>3. NewEvent(k, p).key = k
      BY DEF NewEvent
    <3>4. Len(outbox') \in 1..Len(outbox')
      BY <1>1, <3>2
    <3>. QED BY <3>1, <3>2, <3>3, <3>4
  <2>3. ASSUME NEW l \in Leads, NEW v \in Versions, edgeLead'[l].ver >= v
        PROVE  \E i \in 1..Len(outbox') : outbox'[i].key = <<l, v>>
    <3>1. edgeLead[l].ver \in 0..2 /\ v \in 1..2
      BY <1>1, EdgeRowFields DEF EdgeTypeOK, Versions
    <3>2. CASE edgeLead[l].ver >= v
      BY <1>2, <3>2
    <3>3. CASE ~(edgeLead[l].ver >= v)
      <4>1. l = u /\ edgeLead'[u].ver = v /\ edgeLead'[u].ver # edgeLead[u].ver
        BY <2>1, <2>3, <3>1, <3>3 DEF Forward
      <4>. QED BY <2>2, <4>1
    <3>. QED BY <3>2, <3>3
  <2>. QED BY <2>3 DEF VersionsAreQueued
<1>. QED BY <1>3, <1>4 DEF OnlyUsers
-----------------------------------------------------------------------------
(***************************************************************************)
(* The invariant of the composed path.                                     *)
(***************************************************************************)
LEMMA InitSyncInv == Init => SyncInv
<1> SUFFICES ASSUME Init PROVE SyncInv
  OBVIOUS
<1>1. IngestInv
  BY InitInv DEF Init
<1>2. edgeLead \in [Leads -> EdgeRow]
  BY DEF Init, EdgeInit, EdgeRow
<1>3. EdgeTypeOK
  <2>1. 0 \in 0..Urls
    BY OutboxAssumption
  <2>2. /\ outbox = <<>> /\ todo = <<>> /\ answers = <<>> /\ wire = <<>>
        /\ request = [l \in Leads |-> "none"] /\ urls = 0
        /\ syncMode \in SyncModes /\ fpc = "idle" /\ channel = FALSE
    BY DEF Init, EdgeInit
  <2>. QED BY <1>2, <2>1, <2>2, EmptyIsSeq DEF EdgeTypeOK
<1>4. LinkTypeOK
  <2>1. /\ queue \in Seq(Payload) /\ dropped \subseteq Payload
        /\ via \in [Workers -> Origin] /\ sent \in BOOLEAN
    BY EmptyIsSeq DEF Init, Origin
  <2>2. rest \in [Workers -> Seq(Payload)] /\ results \in [Workers -> Seq(Answer)]
    BY EmptyIsSeq DEF Init
  <2>3. faults \in [gentle : 0..FaultBound, harsh : 0..FaultBound]
    BY FaultAssumption DEF Init
  <2>. QED BY <2>1, <2>2, <2>3 DEF LinkTypeOK
<1>5. TypeOK
  BY <1>1, <1>3, <1>4 DEF TypeOK, IngestInv
<1>6. EdgeInv
  BY DEF Init, EdgeInit, IngestInit, EdgeInv, AllKnown, LeadShape, NoLead
<1>7. MasterInv
  BY <1>1
     DEF Init, EdgeInit, IngestInit, MasterInv, DispatchesPaid, NotifiedOnlyPaid,
         MasterNeverAhead, NoRow, NoLead
<1>8. LinkInv
  BY DEF Init, EdgeInit, LinkInv, ConsumerAtHead, PushInHand, Push
<1>9. SafeInv
  BY DEF Init, EdgeInit, IngestInit, SafeInv, AnswersAreTrue, SentIsSafe
<1>10. VersionsAreQueued
  BY DEF Init, EdgeInit, VersionsAreQueued, NoLead, Versions
<1>. QED BY <1>5, <1>6, <1>7, <1>8, <1>9, <1>10 DEF SyncInv

LEMMA NextSyncInv ==
  SyncInv /\ [Next]_<<vars, syncMode>> => SyncInv' /\ [Inbox!Next]_Inbox!vars
<1> SUFFICES ASSUME SyncInv, [Next]_<<vars, syncMode>>
             PROVE  SyncInv' /\ [Inbox!Next]_Inbox!vars
  OBVIOUS
<1>1. /\ TypeOK /\ AllKnown /\ Shapes /\ IngestInv /\ ConsumerAtHead /\ PushInHand
      /\ LinkInv /\ SafeInv /\ AnswersAreTrue /\ VersionsAreQueued
      /\ DispatchesPaid /\ NotifiedOnlyPaid /\ MasterNeverAhead /\ EdgeInv
  BY DEF SyncInv, EdgeInv, MasterInv, LinkInv, SafeInv, Shapes
<1>2. EdgeTypeOK' /\ RowsOK /\ RowsKept
  BY <1>1, EdgeStepOK DEF EdgeOK, RowsOK
<1>3. Shapes' /\ LeadsForward /\ OnlyUsers
  BY <1>1, LeadsStep
<1>4. IngestInv' /\ [Inbox!Next]_Inbox!vars
  BY <1>1, MasterStepInv
<1>5. LinkTypeOK'
  BY <1>1, LinkTypeStep
<1>6. TypeOK'
  BY <1>2, <1>4, <1>5 DEF TypeOK, IngestInv
<1>7. LinkInv'
  BY <1>1, <1>2, ConsumerStep, PushStep DEF LinkInv
<1>8. AllKnown'
  BY <1>1, <1>2, <1>3, <1>6, AllKnownStep
<1>9. DispatchesPaid' /\ NotifiedOnlyPaid' /\ MasterNeverAhead'
  BY <1>1, <1>3, <1>6, MasterStep, MasterTables
<1>10. SafeInv'
  BY <1>1, <1>2, <1>6, SafeStep
<1>11. VersionsAreQueued'
  BY <1>1, <1>2, <1>3, <1>6, VersionsStep
<1>12. EdgeInv' /\ MasterInv'
  BY <1>3, <1>4, <1>8, <1>9 DEF EdgeInv, Shapes, MasterInv
<1>. QED BY <1>4, <1>6, <1>7, <1>10, <1>11, <1>12 DEF SyncInv

(***************************************************************************)
(* The types and the invariant of the path, from the capture of a lead to  *)
(* its webhook, hold throughout.                                           *)
(***************************************************************************)
THEOREM SyncInvariant == Spec => []SyncInv
  BY InitSyncInv, NextSyncInv, PTL DEF Spec

(***************************************************************************)
(* The edge forgets a lead only when the master has handled it, AMQP has   *)
(* it, or a socket buffer was lost: whatever flush, the transports and the *)
(* handlers interleave, and whichever fails.                               *)
(***************************************************************************)
THEOREM SentRowsAreSafe == Spec => []SentIsSafe
<1>1. SyncInv => SentIsSafe
  BY DEF SyncInv, SafeInv
<1>. QED BY <1>1, SyncInvariant, PTL

(***************************************************************************)
(* The webhook hears of a paid form's lead only once the edge has the      *)
(* payment completed.                                                      *)
(***************************************************************************)
THEOREM WebhookHearsOnlyPaid == Spec => []NotifiedOnlyPaid
<1>1. SyncInv => NotifiedOnlyPaid
  BY DEF SyncInv, MasterInv
<1>. QED BY <1>1, SyncInvariant, PTL

(***************************************************************************)
(* The master's copy of a lead never runs ahead of the edge's.             *)
(***************************************************************************)
THEOREM MasterFollowsEdge == Spec => []MasterNeverAhead
<1>1. SyncInv => MasterNeverAhead
  BY DEF SyncInv, MasterInv
<1>. QED BY <1>1, SyncInvariant, PTL

(***************************************************************************)
(* Every version the edge committed has its row in the outbox.             *)
(***************************************************************************)
THEOREM CommittedVersionsAreQueued == Spec => []VersionsAreQueued
<1>1. SyncInv => VersionsAreQueued
  BY DEF SyncInv
<1>. QED BY <1>1, SyncInvariant, PTL

(***************************************************************************)
(* With the real outbox and transports in place of arbitrary deliveries,   *)
(* the master still implements the idempotent inbox, end to end.           *)
(***************************************************************************)
THEOREM SyncImplementsInbox == Spec => ImplementsInbox
<1>1. Init => Inbox!Init
  BY InitInbox DEF Init
<1>. QED
  BY <1>1, SyncInvariant, NextSyncInv, PTL DEF Spec, ImplementsInbox, Inbox!Spec
=============================================================================
