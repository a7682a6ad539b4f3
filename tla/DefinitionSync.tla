---------------------------- MODULE DefinitionSync ----------------------------
(***************************************************************************)
(* Forms, products and settings on their way from the master to an edge:   *)
(* the panel's requests (FormEngineService, ProductService, setApiKey)     *)
(* write a row and announce it in the outbox; MasterOutbox publishes to    *)
(* the edge's queue; the edge's consumer applies the messages, and its     *)
(* HTTP pull applies the manifest.  Consumer and pull run at the same time *)
(* on the same tables; each step is one database call.  What a row         *)
(* contains is the time of its last change, 0 when there is no row.        *)
(* Landings, which share the queue and the pull, are the matter of         *)
(* LandingSync.                                                            *)
(***************************************************************************)
EXTENDS MasterOutbox

CONSTANTS
  Forms, Products, Settings,   \* keys and ids
  Requests,      \* the panel's requests in progress
  Paid,          \* the forms that list every product
  None,          \* no request, no job
  Deployments,   \* which sets of "amqp" and "pull" an edge may use
  Scope,         \* what may happen besides changes
  Limit          \* bounds, for each deployment: how many changes an admin
                 \* makes, and how many different things of Scope happen

Happenings == {"delete", "recreate", "masterRestart", "edgeRestart", "publish",
               "resend", "link"}

Rows  == Forms \cup Products \cup Settings
Times == Nat
Workers == {"consumer", "pull"}

\* A change to apply: ver is the row's time, 0 for a deletion.
Change == [row : Rows, ver : Times]
Key    == [via : Workers, row : Rows, ver : Times]

\* Forms, products and settings are rows of different tables.
ASSUME DefinitionAssumption ==
  /\ Paid \subseteq Forms
  /\ Forms \cap Products = {} /\ Forms \cap Settings = {} /\ Products \cap Settings = {}
  /\ None \notin Change
  /\ Deployments \subseteq SUBSET {"amqp", "pull"}
  /\ Scope \subseteq Happenings
  /\ Limit \in [Deployments -> [changes : Nat, happenings : Nat]]

VARIABLES
  transports, \* those this edge uses
  master,     \* the master's rows
  tombs,      \* its SyncTombstone rows
  clock,      \* the number of changes so far
  announcing, \* the change each request has still to announce, ver 0
              \* before it has read the row back
  cut,        \* history: the rows of which the master stopped before it
              \* announced the last change
  edge,       \* the edge's rows
  processed,  \* its ProcessedEvent keys
  pc,         \* the step of the consumer and of the pull
  job,        \* the change each applies
  stage,      \* what the pull goes through
  todo,       \* the changes of that stage still to apply
  manifest,   \* what the pull fetched
  since,      \* lastSyncTimestamp less the overlap, 0 when null
  happened    \* history: what of Scope happened

masterVars == <<master, tombs, clock, announcing, cut>>
sendVars   == <<events, outboxVars>>
stores     == <<edge, processed>>
tasks      == <<pc, job>>
pullVars   == <<stage, todo, manifest, since>>
vars == <<masterVars, sendVars, stores, tasks, pullVars, happened>>

Stages == {"idle", "settings", "forms", "deletions"}

TypeOK ==
  /\ master \in [Rows -> Times] /\ edge \in [Rows -> Times]
  /\ tombs \subseteq Change
  /\ clock \in Nat \ {0}
  /\ announcing \in [Requests -> Change \cup {None}]
  /\ cut \subseteq Rows
  /\ events \in Seq(Change) /\ OutboxTypeOK
  /\ processed \subseteq Key
  /\ pc \in [Workers -> {"idle", "check", "write", "link", "mark"}]
  /\ job \in [Workers -> Change \cup {None}]
  /\ stage \in Stages
  /\ todo \subseteq Change /\ manifest \subseteq Change
  /\ since \in Nat
  /\ transports \in Deployments
  /\ happened \subseteq Scope
  /\ \A w \in Workers : (pc[w] = "idle") = (job[w] = None)

Init ==
  /\ master = [r \in Rows |-> 0] /\ edge = [r \in Rows |-> 0]
  /\ tombs = {} /\ clock = 1
  /\ announcing = [q \in Requests |-> None]
  /\ cut = {} /\ OutboxInit /\ processed = {}
  /\ pc = [w \in Workers |-> "idle"] /\ job = [w \in Workers |-> None]
  /\ stage = "idle" /\ todo = {} /\ manifest = {} /\ since = 0
  /\ happened = {}
  /\ transports \in Deployments

Happens(h) ==
  /\ h \in Scope \ happened
  /\ Cardinality(happened) < Limit[transports].happenings
  /\ happened' = happened \cup {h}
Gone(r) == \E t \in tombs : t.row = r
-----------------------------------------------------------------------------
(* The panel writes a row; its announcement is a call of its own, for a     *)
(* form after the row was read back.                                        *)
Save(q, r) ==
  /\ announcing[q] = None /\ clock <= Limit[transports].changes
  /\ master' = [master EXCEPT ![r] = clock]
  /\ clock' = clock + 1
  /\ announcing' = [announcing EXCEPT ![q] =
                      [row |-> r, ver |-> IF r \in Forms THEN 0 ELSE clock]]
  /\ IF Gone(r) /\ master[r] = 0 THEN Happens("recreate") ELSE UNCHANGED happened
  /\ UNCHANGED <<tombs, cut, sendVars, stores, tasks, pullVars>>

\* a form deleted meanwhile answers 404
ReadBack(q) ==
  /\ announcing[q] # None
  /\ LET r == announcing[q].row
     IN  /\ announcing[q].ver = 0
         /\ announcing' = [announcing EXCEPT ![q] =
              IF master[r] = 0 THEN None ELSE [row |-> r, ver |-> master[r]]]
  /\ UNCHANGED <<master, tombs, clock, cut, sendVars, stores, tasks, pullVars,
                 happened>>

(* The event of a change is written, where the outbox sends to the edge. *)
Announced(c) ==
  /\ IF "amqp" \in transports THEN Announce(c) /\ Pending
                               ELSE UNCHANGED <<events, unsent>>
  /\ cut' = cut \ {c.row}
  /\ UNCHANGED <<attempts, batch, written, lineVars, histories>>

Enqueue(q) ==
  /\ announcing[q] # None
  /\ announcing[q].ver # 0
  /\ Announced(announcing[q])
  /\ announcing' = [announcing EXCEPT ![q] = None]
  /\ UNCHANGED <<master, tombs, clock, stores, tasks, pullVars, happened>>

(* Deleting a form or a product is one transaction with its tombstone and   *)
(* its event.                                                               *)
Delete(q, r) ==
  /\ r \in Forms \cup Products /\ master[r] # 0
  /\ announcing[q] = None /\ clock <= Limit[transports].changes
  /\ Happens("delete")
  /\ master' = [master EXCEPT ![r] = 0]
  /\ tombs' = tombs \cup {[row |-> r, ver |-> clock]}
  /\ clock' = clock + 1
  /\ Announced([row |-> r, ver |-> 0])
  /\ UNCHANGED <<announcing, stores, tasks, pullVars>>

Announcing == {announcing[q].row : q \in {q \in Requests : announcing[q] # None}}

(* The master stops, maybe after a row and before its announcement. *)
MasterRestart ==
  /\ Announcing # {} \/ batch # {} \/ wire # <<>>
  /\ Happens("masterRestart")
  /\ announcing' = [q \in Requests |-> None]
  /\ cut' = cut \cup Announcing
  /\ MasterStops
  /\ UNCHANGED <<master, tombs, clock, stores, tasks, pullVars>>

(* The outbox and the broker. *)
OutboxAct ==
  /\ \/ (StartFlush \/ Send \/ MarkSent \/ BrokerAccepts) /\ UNCHANGED happened
     \/ Happens("publish") /\ PublishFails
     \/ Happens("resend") /\ MarkFails
     \/ Happens("link") /\ LinkLost
  /\ UNCHANGED <<masterVars, stores, tasks, pullVars>>
-----------------------------------------------------------------------------
Goto(w, step) == pc' = [pc EXCEPT ![w] = step]
Stop(w) == Goto(w, "idle") /\ job' = [job EXCEPT ![w] = None]
Begin(w, c, step) == Goto(w, step) /\ job' = [job EXCEPT ![w] = c]

KeyOf(w) == [via |-> w, row |-> job[w].row, ver |-> job[w].ver]

\* wrong Valid, for mutation: settings need a key as well
KeyRequired(c) == c.row \in Forms /\ c.ver # 0
(* The payload of a form's upsert has an idempotencyKey; those of its       *)
(* deletion and of every product.sync have none, and are acked as invalid.  *)
(* A setting needs none.                                                    *)
Valid(c) == c.row \in Settings \/ (c.row \in Forms /\ c.ver # 0)

Acknowledged ==
  /\ queue' = Tail(queue)
  /\ UNCHANGED <<events, flushVars, wire, histories>>

Deliver ==
  /\ queue # <<>> /\ pc["consumer"] = "idle"
  /\ LET c == events[Head(queue)]
     IN  IF Valid(c)
         THEN /\ Begin("consumer", c, IF c.row \in Settings THEN "write"
                                                            ELSE "check")
              /\ UNCHANGED sendVars
         ELSE Acknowledged /\ UNCHANGED tasks
  /\ UNCHANGED <<masterVars, stores, pullVars, happened>>

(* ack: the message leaves the queue. *)
Ack(w) == IF w = "consumer" THEN Acknowledged ELSE UNCHANGED sendVars

\* wrong Known, for mutation: any version of the row counts as processed
KnownRow(w) == \E k \in processed : k.row = job[w].row
NeverKnown(w) == FALSE  \* another one: the key is not looked up
(* alreadyProcessed; the keys of the two transports differ. *)
Known(w) == KeyOf(w) \in processed

Check(w) ==
  /\ pc[w] = "check"
  /\ IF Known(w) THEN Stop(w) /\ Ack(w)
                 ELSE Goto(w, "write") /\ UNCHANGED <<job, sendVars>>
  /\ UNCHANGED <<masterVars, stores, pullVars, happened>>

\* wrong Stored, for mutation: the upsert updates nothing
Created(c) == IF edge[c.row] = 0 THEN [edge EXCEPT ![c.row] = c.ver] ELSE edge
Stored(c) == [edge EXCEPT ![c.row] = c.ver]

(* The upsert, or the deletion by the pull, of the row; a setting and a     *)
(* deletion end with it.                                                    *)
Write(w) ==
  LET c == job[w]
  IN  /\ pc[w] = "write"
      /\ edge' = Stored(c)
      /\ IF c.row \in Settings \/ c.ver = 0
         THEN Stop(w) /\ Ack(w)
         ELSE Goto(w, IF c.row \in Forms THEN "link" ELSE "mark")
              /\ UNCHANGED <<job, sendVars>>
      /\ UNCHANGED <<masterVars, processed, pullVars, happened>>

\* The products a form lists exist on the edge.
Linkable(f) == f \in Paid => \A p \in Products : edge[p] # 0

(* The form's FormProduct rows are replaced.  A product that is missing     *)
(* violates the foreign key: the consumer nacks and the message is          *)
(* delivered again; the pull logs the error and goes on.                    *)
Link(w) ==
  /\ pc[w] = "link"
  /\ IF Linkable(job[w].row) THEN Goto(w, "mark") /\ UNCHANGED job ELSE Stop(w)
  /\ UNCHANGED <<masterVars, sendVars, stores, pullVars, happened>>

Mark(w) ==
  /\ pc[w] = "mark"
  /\ processed' = processed \cup {KeyOf(w)}
  /\ Stop(w) /\ Ack(w)
  /\ UNCHANGED <<masterVars, edge, pullVars, happened>>

TaskStep(w) == Check(w) \/ Write(w) \/ Link(w) \/ Mark(w)
-----------------------------------------------------------------------------
Current(S, from) ==
  {[row |-> r, ver |-> master[r]] : r \in {r \in S : master[r] # 0 /\ master[r] >= from}}

Tombstoned(from) ==
  IF from = 0 THEN {} ELSE {[row |-> t.row, ver |-> 0] : t \in {t \in tombs : t.ver >= from}}

(* getSyncManifest lists every setting, the forms and products changed      *)
(* since, and in a partial answer the tombstones since; fetchManifest       *)
(* copies neither products nor deletedProducts out of the answer.           *)
Manifest(from) ==
  Current(Settings, 0) \cup Current(Forms, from)
    \cup {c \in Tombstoned(from) : c.row \in Forms}

Fetch(full) ==
  LET from == IF full THEN 0 ELSE since
  IN  /\ stage = "idle" /\ "pull" \in transports
      /\ manifest' = Manifest(from)
      /\ since' \in since..clock \ {0}
      /\ stage' = "settings"
      /\ todo' = {c \in manifest' : c.row \in Settings}
      /\ UNCHANGED <<masterVars, sendVars, stores, tasks, happened>>

(* tick applies the settings, the forms, and then the deletions. *)
NextStage ==
  /\ stage # "idle" /\ todo = {} /\ pc["pull"] = "idle"
  /\ CASE stage = "settings" ->
            /\ stage' = "forms"
            /\ todo' = {c \in manifest : c.row \in Forms /\ c.ver # 0}
            /\ UNCHANGED manifest
       [] stage = "forms" ->
            /\ stage' = "deletions"
            /\ todo' = {c \in manifest : c.ver = 0}
            /\ UNCHANGED manifest
       [] OTHER -> stage' = "idle" /\ todo' = {} /\ manifest' = {}
  /\ UNCHANGED <<masterVars, sendVars, stores, tasks, since, happened>>

NextItem ==
  /\ pc["pull"] = "idle"
  /\ \E c \in todo :
       /\ Begin("pull", c, IF stage = "forms" THEN "check" ELSE "write")
       /\ todo' = todo \ {c}
  /\ UNCHANGED <<masterVars, sendVars, stores, stage, manifest, since, happened>>

(* The edge restarts; the message it was applying is delivered again. *)
EdgeRestart ==
  /\ Happens("edgeRestart")
  /\ pc' = [w \in Workers |-> "idle"] /\ job' = [w \in Workers |-> None]
  /\ stage' = "idle" /\ todo' = {} /\ manifest' = {} /\ since' = 0
  /\ UNCHANGED <<masterVars, sendVars, stores>>

Step ==
  \/ \E q \in Requests :
       ReadBack(q) \/ Enqueue(q) \/ \E r \in Rows : Save(q, r) \/ Delete(q, r)
  \/ MasterRestart \/ OutboxAct
  \/ Deliver \/ \E w \in Workers : TaskStep(w)
  \/ Fetch(TRUE) \/ Fetch(FALSE) \/ NextStage \/ NextItem
  \/ EdgeRestart

Next == Step /\ UNCHANGED transports

(***************************************************************************)
(* Fairness: both event loops run every ready continuation, the flush      *)
(* timer ticks, the socket buffer drains, the broker delivers and the edge *)
(* pulls.  The timer of the full pull skips a tick while a pull is         *)
(* running; it is assumed to find none running now and then.               *)
(***************************************************************************)
Fairness ==
  /\ \A q \in Requests : WF_vars(ReadBack(q) \/ Enqueue(q))
  /\ WF_vars(StartFlush /\ OutboxAct) /\ WF_vars(Send /\ OutboxAct)
  /\ WF_vars(MarkSent /\ OutboxAct) /\ WF_vars(BrokerAccepts /\ OutboxAct)
  /\ WF_vars(Deliver)
  /\ \A w \in Workers : WF_vars(TaskStep(w))
  /\ SF_vars(Fetch(TRUE)) /\ WF_vars(NextStage) /\ WF_vars(NextItem)

Spec == Init /\ [][Next]_<<vars, transports>> /\ Fairness
-----------------------------------------------------------------------------
Follows(r) == edge[r] = master[r]
OnePath    == transports # {"amqp", "pull"}

EventsOf(r) == {i \in Indices : events[i].row = r}

(* The queue may not bring the edge what the last event of r announces, or *)
(* that event may not exist.                                               *)
QueueFails(r) ==
  r \in cut \/ OutOfOrder(EventsOf(r)) \/ LastLost(EventsOf(r))

(* A setting's message has no key: sent again behind a later one, it is    *)
(* applied again.                                                          *)
Repeated(r) == \E i, j \in EventsOf(r) : i < j /\ i \in DOMAIN attempts

(***************************************************************************)
(* Once the panel makes no more changes, the edge comes to have the forms  *)
(* the master still has, whichever transports it uses, whatever restarts   *)
(* and however queue and pull overwrite each other meanwhile.  Excused     *)
(* where the queue is used: a change that was never announced, was lost    *)
(* with a socket buffer or given up, which only the pull makes good, and   *)
(* only where no older message of the queue can come after it; and events  *)
(* whose publication failed, so that they came out of order.               *)
(***************************************************************************)
LiveFormsFollow ==
  <>[](\A f \in Forms : master[f] # 0 =>
         Follows(f) \/ ("amqp" \in transports /\ QueueFails(f)))

(***************************************************************************)
(* The same of the settings, which every pull brings; by the queue alone,  *)
(* also a message that was sent again behind a later one takes them back.  *)
(***************************************************************************)
SettingsFollow ==
  <>[](\A s \in Settings :
         Follows(s) \/ ("pull" \notin transports /\ (QueueFails(s) \/ Repeated(s))))

(***************************************************************************)
(* A form the edge keeps never goes back to an older definition, where     *)
(* only one transport brings it and one request runs at a time, whatever   *)
(* is sent again, unless the form's events came out of order.              *)
(***************************************************************************)
FormNeverRegresses ==
  [][OnePath => \A f \in Forms :
       edge'[f] # 0 /\ ~OutOfOrder(EventsOf(f)) => edge'[f] >= edge[f]]_vars

(***************************************************************************)
(* A key is recorded as processed only when the edge has that definition   *)
(* of the form or a later one, or when the form was deleted since: what is *)
(* skipped for its key is never missing.  It holds with one transport,     *)
(* one request at a time and no form created again, unless the form's      *)
(* events came out of order.                                               *)
(***************************************************************************)
ProcessedIsApplied ==
  OnePath => \A k \in processed :
    \/ edge[k.row] >= k.ver
    \/ \E t \in tombs : t.row = k.row /\ t.ver > k.ver
    \/ OutOfOrder(EventsOf(k.row))
=============================================================================
