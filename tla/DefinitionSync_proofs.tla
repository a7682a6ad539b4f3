------------------------- MODULE DefinitionSync_proofs -------------------------
(***************************************************************************)
(* Proofs about DefinitionSync: its types for every deployment, and what   *)
(* one transport promises when one request of the panel runs at a time.    *)
(* What the outbox does to the order of events is proved in                *)
(* MasterOutbox_proofs; the lemmas here apply it to the upserts of forms.  *)
(***************************************************************************)
EXTENDS DefinitionSync, MasterOutbox_proofs

(***************************************************************************)
(* What the types rest on.  The message that the consumer applies is the   *)
(* head of the queue, so that it can be acked; a transport that is not     *)
(* used carries nothing; between two pulls there is nothing to apply.      *)
(***************************************************************************)
AtHead ==
  pc["consumer"] # "idle" =>
    /\ queue # <<>> /\ job["consumer"] = events[Head(queue)]
    /\ Valid(job["consumer"])

Unused ==
  /\ "amqp" \notin transports => events = <<>>
  /\ "pull" \notin transports => stage = "idle"

PullInHand ==
  /\ stage = "idle" => manifest = {} /\ pc["pull"] = "idle"
  /\ todo \subseteq manifest
  /\ pc["pull"] # "idle" => job["pull"] \in manifest

\* Only the upsert of a form or a product goes past the write.
PastWrite ==
  \A w \in Workers : pc[w] \in {"link", "mark"} =>
    job[w].ver # 0 /\ job[w].row \notin Settings

\* Rows, events, manifest and keys are older than the clock.
Past ==
  /\ \A r \in Rows : master[r] < clock /\ edge[r] < clock
  /\ \A q \in Requests : announcing[q] # None => announcing[q].ver < clock
  /\ \A i \in Indices : events[i].ver < clock
  /\ \A c \in manifest : c.ver < clock
  /\ \A k \in processed : k.ver < clock

DefInv == TypeOK /\ AtHead /\ Unused /\ PullInHand /\ PastWrite /\ Past
-----------------------------------------------------------------------------
(***************************************************************************)
(* The steps of the panel, of the outbox with a restart of the master, and *)
(* of the edge with the delivery to it; what each leaves alone.            *)
(***************************************************************************)
PanelStep ==
  \E q \in Requests :
    ReadBack(q) \/ Enqueue(q) \/ \E r \in Rows : Save(q, r) \/ Delete(q, r)

OutboxStep == MasterRestart \/ OutboxAct

EdgeStep ==
  \/ Deliver \/ \E w \in Workers : TaskStep(w)
  \/ Fetch(TRUE) \/ Fetch(FALSE) \/ NextStage \/ NextItem
  \/ EdgeRestart

LEMMA StepKinds == Next => (PanelStep \/ OutboxStep \/ EdgeStep) /\ UNCHANGED transports
  BY DEF Next, Step, PanelStep, OutboxStep, EdgeStep

LEMMA PanelFrames ==
  ASSUME PanelStep
  PROVE  UNCHANGED <<attempts, batch, written, wire, queue, late, dropped, stores, tasks, pullVars>>
  BY DEF PanelStep, ReadBack, Enqueue, Save, Delete, Announced, sendVars, outboxVars, flushVars,
         lineVars, histories

LEMMA OutboxFrames ==
  ASSUME OutboxStep
  PROVE  /\ UNCHANGED <<events, master, tombs, clock, stores, tasks, pullVars>>
         /\ \/ StartFlush \/ Send \/ MarkSent \/ PublishFails \/ MarkFails
            \/ BrokerAccepts \/ LinkLost \/ MasterStops
         /\ \/ UNCHANGED <<announcing, cut>>
            \/ announcing' = [q \in Requests |-> None] /\ cut' = cut \cup Announcing
         /\ happened' = happened \/ \E h \in Scope : happened' = happened \cup {h}
<1>1. CASE OutboxAct
  <2>1. /\ UNCHANGED <<master, tombs, clock, announcing, cut, stores, tasks, pullVars>>
        /\ \/ StartFlush \/ Send \/ MarkSent \/ PublishFails \/ MarkFails
           \/ BrokerAccepts \/ LinkLost
        /\ happened' = happened \/ \E h \in Scope : happened' = happened \cup {h}
    BY <1>1 DEF OutboxAct, masterVars, Happens
  <2>2. UNCHANGED events
    BY <2>1 DEF StartFlush, Send, MarkSent, PublishFails, MarkFails, LinkLost, BrokerAccepts
  <2>. QED BY <2>1, <2>2
<1>2. CASE MasterRestart
  BY <1>2 DEF MasterRestart, MasterStops, Happens
<1>. QED BY <1>1, <1>2 DEF OutboxStep

LEMMA EdgeFrames ==
  ASSUME EdgeStep
  PROVE  /\ UNCHANGED <<masterVars, events, flushVars, wire, histories>>
         /\ queue' = queue \/ queue' = Tail(queue)
  BY DEF EdgeStep, Deliver, TaskStep, Check, Write, Link, Mark, Ack, Acknowledged, Fetch,
         NextStage, NextItem, EdgeRestart, sendVars, outboxVars, lineVars

(* The log: at most one event more, at its end. *)
LEMMA LogGrows ==
  ASSUME TypeOK, Unused, NEW c \in Change, Announced(c)
  PROVE  /\ events' \in Seq(Change) /\ Len(events) \in Nat /\ Len(events') \in Nat
         /\ Len(events) <= Len(events') /\ Len(events') <= Len(events) + 1
         /\ Indices \subseteq Indices'
         /\ \A i \in Indices : events'[i] = events[i]
         /\ \A i \in Indices' : i \in Indices \/ (events'[i] = c /\ i > Len(events))
         /\ "amqp" \notin transports => UNCHANGED <<events, unsent>>
         /\ Pending \/ UNCHANGED <<events, unsent>>
         /\ OutboxTypeOK' /\ cut' \subseteq Rows
<1>1. events \in Seq(Change) /\ Len(events) \in Nat /\ OutboxTypeOK
  BY DEF TypeOK
<1>2. CASE "amqp" \in transports
  <2>1. events' = Append(events, c) /\ Pending
    BY <1>2 DEF Announced, Announce
  <2>2. /\ events' \in Seq(Change) /\ Len(events') = Len(events) + 1
        /\ \A i \in 1..Len(events) : events'[i] = events[i]
        /\ events'[Len(events) + 1] = c
    BY <1>1, <2>1
  <2>3. \A i \in 1..Len(events) + 1 : i \in 1..Len(events) \/ i = Len(events) + 1
    BY <1>1
  <2>4. OutboxTypeOK'
    BY <1>1, <2>1, <2>2, AnnouncedKeepsTypes DEF Announced
  <2>. QED BY <1>1, <1>2, <2>1, <2>2, <2>3, <2>4 DEF Indices, Announced, TypeOK
<1>3. CASE "amqp" \notin transports
  <2>1. UNCHANGED <<events, unsent>>
    BY <1>3 DEF Announced
  <2>2. OutboxTypeOK'
    BY <1>1, <2>1, AnnouncedKeepsTypes DEF Announced
  <2>. QED BY <1>1, <2>1, <2>2 DEF Indices, Announced, TypeOK
<1>. QED BY <1>2, <1>3

LEMMA ChangeFields ==
  ASSUME NEW c \in Change
  PROVE  c # None /\ c.row \in Rows /\ c.ver \in Nat
  BY DefinitionAssumption DEF Change, Times

(* What the numbers and rows of a state are. *)
LEMMA Versions ==
  ASSUME TypeOK
  PROVE  /\ clock \in Nat \ {0} /\ Len(events) \in Nat /\ Indices \subseteq Nat
         /\ \A r \in Rows : master[r] \in Nat /\ edge[r] \in Nat
         /\ \A i \in Indices : events[i] \in Change /\ events[i].ver \in Nat /\ events[i].row \in Rows
         /\ \A c \in manifest : c \in Change /\ c.ver \in Nat /\ c.row \in Rows
         /\ \A k \in processed : k.ver \in Nat /\ k.row \in Rows
<1>1. clock \in Nat \ {0} /\ Len(events) \in Nat /\ Indices \subseteq Nat
  BY DEF TypeOK, Indices
<1>2. \A r \in Rows : master[r] \in Nat /\ edge[r] \in Nat
  BY DEF TypeOK, Times
<1>3. \A i \in Indices : events[i] \in Change
  BY DEF TypeOK, Indices
<1>4. \A c \in manifest : c \in Change
  BY DEF TypeOK
<1>5. \A k \in processed : k.ver \in Nat /\ k.row \in Rows
  BY DEF TypeOK, Key, Times
<1>. QED BY <1>1, <1>2, <1>3, <1>4, <1>5, ChangeFields

(* The message the consumer works on, when there is one. *)
LEMMA HeadType ==
  ASSUME TypeOK, queue # <<>>
  PROVE  /\ Head(queue) \in Indices /\ Head(queue) \in Held(Line)
         /\ events[Head(queue)] \in Change /\ Tail(queue) \in Seq(Indices)
<1>1. OutboxTypeOK /\ queue \in Seq(Indices)
  BY DEF TypeOK, OutboxTypeOK
<1>2. Len(queue) >= 1 /\ Head(queue) = queue[1] /\ Head(queue) \in Indices
      /\ Tail(queue) \in Seq(Indices)
  BY <1>1
<1>3. 1 \in 1..Len(Line) /\ Line[1] = Head(queue)
  BY <1>1, <1>2, LineType
<1>. QED BY <1>2, <1>3, Versions DEF Held

(* Where AMQP is not used, nothing is sent. *)
LEMMA NothingSent ==
  ASSUME TypeOK, Unused, "amqp" \notin transports
  PROVE  events = <<>> /\ Indices = {} /\ queue = <<>>
<1>1. events = <<>> /\ Indices = {}
  BY DEF Unused, Indices
<1>2. queue = <<>>
  <2>1. queue \in Seq({})
    BY <1>1 DEF TypeOK, OutboxTypeOK
  <2>. QED BY <2>1
<1>. QED BY <1>1, <1>2
-----------------------------------------------------------------------------
LEMMA InitDef == Init => DefInv
<1> SUFFICES ASSUME Init
             PROVE  DefInv
  OBVIOUS
<1>0. OutboxInit /\ OutboxTypeOK /\ events = <<>> /\ Len(events) = 0
  BY InitOutboxTypeOK DEF Init, OutboxInit
<1>1. \A set : <<>> \in Seq(set)
  OBVIOUS
<1>2. TypeOK
  BY <1>0, <1>1 DEF Init, TypeOK, Times, Stages
<1>3. AtHead /\ Unused /\ PullInHand /\ PastWrite
  BY <1>0 DEF Init, AtHead, Unused, PullInHand, PastWrite, Workers
<1>4. Past
  BY <1>0 DEF Init, Past, Indices
<1>. QED BY <1>2, <1>3, <1>4 DEF DefInv

(* A request of the panel, which writes one event at most. *)
LEMMA PanelDef ==
  ASSUME DefInv, PanelStep, UNCHANGED transports,
         master' \in [Rows -> Times], tombs' \subseteq Change, clock' \in Nat, clock <= clock',
         announcing' \in [Requests -> Change \cup {None}], happened' \subseteq Scope,
         \A r \in Rows : master'[r] < clock',
         \A q \in Requests : announcing'[q] # None => announcing'[q].ver < clock',
         \/ UNCHANGED <<events, unsent, cut>>
         \/ \E c \in Change : c.ver < clock' /\ Announced(c)
  PROVE  DefInv'
<1>0. TypeOK /\ AtHead /\ Unused /\ PullInHand /\ PastWrite /\ Past /\ clock' \in Nat \ {0}
  BY Versions DEF DefInv
<1>1. UNCHANGED <<attempts, batch, written, wire, queue, late, dropped, edge, processed, pc, job,
                  stage, todo, manifest, since>>
  BY PanelFrames DEF stores, tasks, pullVars
<1>2. /\ events' \in Seq(Change) /\ OutboxTypeOK' /\ cut' \subseteq Rows
      /\ Indices \subseteq Indices' /\ \A i \in Indices : events'[i] = events[i]
      /\ \A i \in Indices' : i \in Indices \/ events'[i].ver < clock'
      /\ "amqp" \notin transports => UNCHANGED events
  <2>1. CASE UNCHANGED <<events, unsent, cut>>
    BY <1>0, <1>1, <2>1 DEF TypeOK, OutboxTypeOK, Indices, Sendable, Attempts
  <2>2. CASE \E c \in Change : c.ver < clock' /\ Announced(c)
    <3> PICK c \in Change : c.ver < clock' /\ Announced(c)
      BY <2>2
    <3>. QED BY <1>0, LogGrows
  <2>. QED BY <2>1, <2>2
<1>3. TypeOK'
  BY <1>0, <1>1, <1>2 DEF TypeOK
<1>4. AtHead'
  BY <1>0, <1>1, <1>2, HeadType DEF AtHead, Valid
<1>5. Unused' /\ PullInHand' /\ PastWrite'
  BY <1>0, <1>1, <1>2 DEF Unused, PullInHand, PastWrite
<1>6. Past'
  <2>1. \A n \in Nat : n < clock => n < clock'
    BY <1>0, Versions
  <2>. QED BY <1>0, <1>1, <1>2, <2>1, Versions DEF Past
<1>. QED BY <1>3, <1>4, <1>5, <1>6 DEF DefInv

LEMMA RequestDef ==
  ASSUME DefInv, UNCHANGED transports, PanelStep
  PROVE  DefInv'
<1>0. TypeOK /\ Past /\ clock \in Nat \ {0}
  BY Versions DEF DefInv
<1> PICK q \in Requests :
      ReadBack(q) \/ Enqueue(q) \/ \E r \in Rows : Save(q, r) \/ Delete(q, r)
  BY DEF PanelStep
<1>1. ASSUME NEW r \in Rows, Save(q, r)
      PROVE  DefInv'
  <2>1. clock \in Times /\ clock' = clock + 1 /\ clock' \in Nat /\ clock <= clock'
        /\ clock < clock' /\ 0 \in Times /\ 0 < clock'
    BY <1>0, <1>1 DEF Save, Times
  <2>2. /\ master' \in [Rows -> Times] /\ tombs' \subseteq Change /\ happened' \subseteq Scope
        /\ announcing' \in [Requests -> Change \cup {None}]
    BY <1>0, <1>1, <2>1 DEF Save, TypeOK, Change, Happens
  <2>3. \A s \in Rows : master'[s] < clock'
    BY <1>0, <1>1, <2>1, Versions DEF Save, TypeOK, Past
  <2>4. \A p \in Requests : announcing'[p] # None => announcing'[p].ver < clock'
    <3>1. ASSUME NEW p \in Requests, announcing[p] # None
          PROVE  announcing[p].ver < clock'
      BY <1>0, <2>1, <3>1, ChangeFields DEF TypeOK, Past
    <3>2. announcing'[q].ver \in {0, clock}
      BY <1>0, <1>1 DEF Save, TypeOK
    <3>. QED BY <1>0, <1>1, <2>1, <3>1, <3>2 DEF Save, TypeOK
  <2>5. UNCHANGED <<events, unsent, cut>>
    BY <1>1 DEF Save, sendVars, outboxVars, flushVars
  <2>. QED BY <2>1, <2>2, <2>3, <2>4, <2>5, PanelDef
<1>2. CASE ReadBack(q)
  <2>1. UNCHANGED <<master, tombs, clock, events, unsent, cut, happened>>
    BY <1>2 DEF ReadBack, sendVars, outboxVars, flushVars
  <2>2. announcing[q] \in Change
    BY <1>0, <1>2 DEF ReadBack, TypeOK
  <2>3. announcing[q].row \in Rows
    BY <2>2, ChangeFields
  <2>4. announcing' \in [Requests -> Change \cup {None}]
    BY <1>0, <1>2, <2>3 DEF ReadBack, TypeOK, Change
  <2>5. \A p \in Requests : announcing'[p] # None => announcing'[p].ver < clock
    BY <1>0, <1>2, <2>3 DEF ReadBack, TypeOK, Past
  <2>. QED BY <1>0, <2>1, <2>4, <2>5, PanelDef DEF TypeOK, Past
<1>3. CASE Enqueue(q)
  <2>1. UNCHANGED <<master, tombs, clock, happened>>
    BY <1>3 DEF Enqueue
  <2>2. announcing[q] \in Change /\ announcing[q].ver < clock /\ Announced(announcing[q])
    BY <1>0, <1>3 DEF Enqueue, TypeOK, Past
  <2>3. /\ announcing' \in [Requests -> Change \cup {None}]
        /\ \A p \in Requests : announcing'[p] # None => announcing'[p].ver < clock
    BY <1>0, <1>3 DEF Enqueue, TypeOK, Past
  <2>. QED BY <1>0, <2>1, <2>2, <2>3, PanelDef DEF TypeOK, Past
<1>4. ASSUME NEW r \in Rows, Delete(q, r)
      PROVE  DefInv'
  <2>1. clock \in Times /\ clock' = clock + 1 /\ clock' \in Nat /\ clock <= clock'
        /\ clock < clock' /\ 0 \in Times /\ 0 < clock'
    BY <1>0, <1>4 DEF Delete, Times
  <2>2. /\ master' \in [Rows -> Times] /\ tombs' \subseteq Change /\ happened' \subseteq Scope
        /\ announcing' = announcing
    BY <1>0, <1>4, <2>1 DEF Delete, TypeOK, Change, Happens
  <2>3. \A s \in Rows : master'[s] < clock'
    BY <1>0, <1>4, <2>1, Versions DEF Delete, TypeOK, Past
  <2>4. \A p \in Requests : announcing'[p] # None => announcing'[p].ver < clock'
    BY <1>0, <2>1, <2>2, ChangeFields DEF TypeOK, Past
  <2>5. [row |-> r, ver |-> 0] \in Change /\ [row |-> r, ver |-> 0].ver < clock'
        /\ Announced([row |-> r, ver |-> 0])
    BY <1>4, <2>1 DEF Delete, Change
  <2>. QED BY <1>0, <2>1, <2>2, <2>3, <2>4, <2>5, PanelDef DEF TypeOK
<1>. QED BY <1>1, <1>2, <1>3, <1>4

LEMMA SendingDef ==
  ASSUME DefInv, UNCHANGED transports, OutboxStep
  PROVE  DefInv'
<1>0. TypeOK /\ AtHead /\ Unused /\ PullInHand /\ PastWrite /\ Past /\ OutboxTypeOK
      /\ Len(events) \in Nat
  BY Versions DEF DefInv, TypeOK
<1>1. /\ UNCHANGED <<events, master, tombs, clock, edge, processed, pc, job, stage, todo,
                     manifest, since>>
      /\ happened' \subseteq Scope
      /\ \/ StartFlush \/ Send \/ MarkSent \/ PublishFails \/ MarkFails
         \/ BrokerAccepts \/ LinkLost \/ MasterStops
  BY <1>0, OutboxFrames DEF stores, tasks, pullVars, TypeOK
<1>2. /\ announcing' \in [Requests -> Change \cup {None}] /\ cut' \subseteq Rows
      /\ \A q \in Requests : announcing'[q] = None \/ announcing'[q] = announcing[q]
  <2>1. Announcing \subseteq Rows
    BY <1>0, ChangeFields DEF Announcing, TypeOK
  <2>. QED BY <1>0, <2>1, OutboxFrames DEF TypeOK
<1>3. OutboxTypeOK' /\ Indices' = Indices
  BY <1>0, <1>1, OutboxKeepsTypes DEF Indices
<1>4. TypeOK'
  BY <1>0, <1>1, <1>2, <1>3 DEF TypeOK
<1>5. AtHead'
  <2>1. queue' = queue \/ BrokerAccepts
    BY <1>1 DEF StartFlush, Send, MarkSent, PublishFails, MarkFails, LinkLost, MasterStops, lineVars
  <2>2. queue # <<>> => queue' # <<>> /\ Head(queue') = Head(queue)
    BY <1>0, <2>1, HeadStays
  <2>. QED BY <1>0, <1>1, <2>2 DEF AtHead, Valid
<1>6. Unused' /\ PullInHand' /\ PastWrite'
  BY <1>0, <1>1 DEF Unused, PullInHand, PastWrite
<1>7. Past'
  BY <1>0, <1>1, <1>2, <1>3 DEF Past
<1>. QED BY <1>4, <1>5, <1>6, <1>7 DEF DefInv

-----------------------------------------------------------------------------
(* A step of a worker goes on with its change or ends; the consumer may     *)
(* take the head of the queue with it.                                      *)
LEMMA TaskDef ==
  ASSUME DefInv, NEW w \in Workers, pc[w] # "idle",
         UNCHANGED <<masterVars, events, flushVars, wire, histories, pullVars, happened, transports>>,
         edge' \in [Rows -> Times], \A r \in Rows : edge'[r] < clock,
         processed' \subseteq Key, \A k \in processed' : k.ver < clock,
         \/ Stop(w) /\ (queue' = queue \/ (w = "consumer" /\ queue' = Tail(queue)))
         \/ \E s \in {"write", "link", "mark"} :
              /\ Goto(w, s) /\ UNCHANGED <<job, queue>>
              /\ s \in {"link", "mark"} => job[w].ver # 0 /\ job[w].row \notin Settings
  PROVE  DefInv'
<1>0. TypeOK /\ AtHead /\ Unused /\ PullInHand /\ PastWrite /\ Past
  BY DEF DefInv
<1>1. UNCHANGED <<master, tombs, clock, announcing, cut, events, unsent, attempts, batch, written,
                  wire, late, dropped, stage, todo, manifest, since, happened, transports>>
  BY DEF masterVars, flushVars, histories, pullVars
<1>2. queue' = queue \/ (w = "consumer" /\ queue # <<>> /\ queue' = Tail(queue))
  BY <1>0 DEF AtHead
<1>3. /\ pc' \in [Workers -> {"idle", "check", "write", "link", "mark"}]
      /\ job' \in [Workers -> Change \cup {None}]
      /\ \A v \in Workers : (pc'[v] = "idle") = (job'[v] = None)
  BY <1>0 DEF TypeOK, Stop, Goto
<1>4. OutboxTypeOK' /\ Indices' = Indices
  <2>1. queue' \in Seq(Indices)
    BY <1>0, <1>2, HeadType DEF TypeOK, OutboxTypeOK
  <2>. QED BY <1>0, <1>1, <2>1 DEF TypeOK, OutboxTypeOK, Indices, Sendable, Attempts
<1>5. TypeOK'
  BY <1>0, <1>1, <1>3, <1>4 DEF TypeOK
<1>6. AtHead'
  <2>1. CASE Stop(w)
    BY <1>0, <1>1, <1>2, <2>1 DEF AtHead, Stop, Goto, TypeOK, Workers, Valid
  <2>2. CASE UNCHANGED <<job, queue>>
    BY <1>0, <1>1, <2>2 DEF AtHead, Stop, Goto, TypeOK, Workers, Valid
  <2>. QED BY <2>1, <2>2
<1>7. Unused'
  BY <1>0, <1>1 DEF Unused
<1>8. PullInHand'
  BY <1>0, <1>1 DEF PullInHand, Stop, Goto, TypeOK, Workers
<1>9. PastWrite'
  BY <1>0 DEF PastWrite, Stop, Goto, TypeOK, Workers
<1>10. Past'
  BY <1>0, <1>1, <1>4 DEF Past
<1>. QED BY <1>5, <1>6, <1>7, <1>8, <1>9, <1>10 DEF DefInv

LEMMA JobOf ==
  ASSUME DefInv, NEW w \in Workers, pc[w] # "idle"
  PROVE  /\ job[w] \in Change /\ job[w].row \in Rows /\ job[w].ver \in Nat
         /\ job[w].ver < clock
<1>0. TypeOK /\ AtHead /\ PullInHand /\ Past
  BY DEF DefInv
<1>1. job[w] \in Change
  BY <1>0 DEF TypeOK
<1>2. CASE w = "consumer"
  BY <1>0, <1>1, <1>2, ChangeFields, HeadType DEF AtHead, Past
<1>3. CASE w = "pull"
  BY <1>0, <1>1, <1>3, ChangeFields DEF PullInHand, Past
<1>. QED BY <1>1, <1>2, <1>3, ChangeFields DEF Workers

(* What a worker leaves alone, and what it may do to the queue. *)
LEMMA WorkFrames ==
  ASSUME NEW w \in Workers, TaskStep(w)
  PROVE  /\ pc[w] # "idle"
         /\ UNCHANGED <<masterVars, events, flushVars, wire, histories, pullVars, happened>>
         /\ queue' = queue \/ (w = "consumer" /\ queue' = Tail(queue) /\ Stop(w))
  BY DEF TaskStep, Check, Write, Link, Mark, Ack, Acknowledged, sendVars, outboxVars, lineVars

LEMMA WorkDef ==
  ASSUME DefInv, UNCHANGED transports, NEW w \in Workers, TaskStep(w)
  PROVE  DefInv'
<1>0. TypeOK /\ PastWrite /\ Past
  BY DEF DefInv
<1>1. /\ pc[w] # "idle"
      /\ UNCHANGED <<masterVars, events, flushVars, wire, histories, pullVars, happened>>
      /\ queue' = queue \/ (w = "consumer" /\ queue' = Tail(queue) /\ Stop(w))
  BY WorkFrames
<1>2. edge \in [Rows -> Times] /\ processed \subseteq Key
      /\ (\A r \in Rows : edge[r] < clock) /\ (\A k \in processed : k.ver < clock)
  BY <1>0 DEF TypeOK, Past
<1>3. /\ job[w] \in Change /\ job[w].row \in Rows /\ job[w].ver \in Times
      /\ job[w].ver < clock
  BY <1>1, JobOf DEF Times
<1>4. CASE Check(w)
  <2>1. Stop(w) \/ (Goto(w, "write") /\ UNCHANGED <<job, queue>>)
    BY <1>4 DEF Check, sendVars, outboxVars, lineVars
  <2>. QED BY <1>1, <1>2, <1>4, <2>1, TaskDef DEF Check, stores
<1>5. CASE Write(w)
  <2>1. edge' \in [Rows -> Times] /\ (\A r \in Rows : edge'[r] < clock) /\ processed' = processed
    BY <1>2, <1>3, <1>5 DEF Write, Stored
  <2>2. \/ Stop(w)
        \/ \E s \in {"link", "mark"} :
             /\ Goto(w, s) /\ UNCHANGED <<job, queue>>
             /\ job[w].ver # 0 /\ job[w].row \notin Settings
    BY <1>5 DEF Write, sendVars, outboxVars, lineVars
  <2>. QED BY <1>1, <1>2, <2>1, <2>2, TaskDef
<1>6. CASE Link(w)
  <2>1. job[w].ver # 0 /\ job[w].row \notin Settings
    BY <1>0, <1>6 DEF Link, PastWrite
  <2>2. edge' = edge /\ processed' = processed /\ queue' = queue
    BY <1>6 DEF Link, stores, sendVars, outboxVars, lineVars
  <2>3. Stop(w) \/ (Goto(w, "mark") /\ UNCHANGED job)
    BY <1>6 DEF Link
  <2>. QED BY <1>1, <1>2, <2>1, <2>2, <2>3, TaskDef
<1>7. CASE Mark(w)
  <2>1. KeyOf(w) \in Key /\ KeyOf(w).ver < clock
    BY <1>3 DEF KeyOf, Key
  <2>2. edge' = edge /\ processed' \subseteq Key /\ (\A k \in processed' : k.ver < clock)
    BY <1>2, <1>7, <2>1 DEF Mark
  <2>3. Stop(w)
    BY <1>7 DEF Mark
  <2>. QED BY <1>1, <1>2, <2>2, <2>3, TaskDef
<1>. QED BY <1>4, <1>5, <1>6, <1>7 DEF TaskStep

LEMMA DeliverDef ==
  ASSUME DefInv, UNCHANGED transports, Deliver
  PROVE  DefInv'
<1> PICK c : c = events[Head(queue)]
  OBVIOUS
<1>0. TypeOK /\ AtHead /\ Unused /\ PullInHand /\ PastWrite /\ Past
  BY DEF DefInv
<1>1. /\ queue # <<>> /\ pc["consumer"] = "idle"
      /\ UNCHANGED <<master, tombs, clock, announcing, cut, events, unsent, attempts, batch,
                     written, wire, late, dropped, edge, processed, stage, todo, manifest, since,
                     happened, transports>>
  BY DEF Deliver, Acknowledged, masterVars, stores, pullVars, sendVars, outboxVars, flushVars,
         lineVars, histories
<1>2. c \in Change /\ Tail(queue) \in Seq(Indices)
  BY <1>0, <1>1, HeadType
<1>3. CASE Valid(c)
  <2>1. /\ queue' = queue /\ job' = [job EXCEPT !["consumer"] = c]
        /\ pc' = [pc EXCEPT !["consumer"] = IF c.row \in Settings THEN "write" ELSE "check"]
    BY <1>3 DEF Deliver, Begin, Goto, sendVars, outboxVars, lineVars
  <2>2. TypeOK'
    <3>1. OutboxTypeOK'
      BY <1>0, <1>1, <2>1 DEF TypeOK, OutboxTypeOK, Indices, Sendable, Attempts
    <3>. QED BY <1>0, <1>1, <1>2, <2>1, <3>1, ChangeFields DEF TypeOK, Workers
  <2>3. AtHead'
    BY <1>0, <1>1, <1>3, <2>1 DEF AtHead, TypeOK, Workers, Valid
  <2>4. Unused' /\ PullInHand' /\ PastWrite' /\ Past'
    BY <1>0, <1>1, <2>1 DEF Unused, PullInHand, PastWrite, Past, TypeOK, Workers, Indices
  <2>. QED BY <2>2, <2>3, <2>4 DEF DefInv
<1>4. CASE ~Valid(c)
  <2>1. queue' = Tail(queue) /\ UNCHANGED <<pc, job>>
    BY <1>4 DEF Deliver, Acknowledged, tasks
  <2>2. TypeOK'
    <3>1. OutboxTypeOK'
      BY <1>0, <1>1, <1>2, <2>1 DEF TypeOK, OutboxTypeOK, Indices, Sendable, Attempts
    <3>. QED BY <1>0, <1>1, <2>1, <3>1 DEF TypeOK
  <2>3. AtHead' /\ PullInHand' /\ PastWrite' /\ Unused' /\ Past'
    BY <1>0, <1>1, <2>1 DEF AtHead, PullInHand, PastWrite, Unused, Past, Indices
  <2>. QED BY <2>2, <2>3 DEF DefInv
<1>. QED BY <1>3, <1>4

LEMMA ManifestFields ==
  ASSUME DefInv, NEW from \in Nat
  PROVE  /\ Manifest(from) \subseteq Change
         /\ \A c \in Manifest(from) :
              \/ c.ver # 0 /\ c.ver = master[c.row]
              \/ c.ver = 0 /\ Gone(c.row) /\ c.row \in Forms
         /\ \A c \in Manifest(from) : c.ver < clock
<1>0. TypeOK /\ Past /\ clock \in Nat /\ 0 < clock
  BY Versions DEF DefInv
<1>1. ASSUME NEW c \in Manifest(from)
      PROVE  /\ c \in Change
             /\ \/ c.ver # 0 /\ c.ver = master[c.row]
                \/ c.ver = 0 /\ Gone(c.row) /\ c.row \in Forms
  <2>1. CASE c \in Current(Settings, 0) \cup Current(Forms, from)
    <3>1. PICK r \in Forms \cup Settings : c = [row |-> r, ver |-> master[r]] /\ master[r] # 0
      BY <2>1 DEF Current
    <3>2. r \in Rows /\ master[r] \in Times
      BY <1>0, <3>1 DEF Rows, TypeOK
    <3>. QED BY <3>1, <3>2 DEF Change
  <2>2. CASE c \in Tombstoned(from) /\ c.row \in Forms
    <3>1. PICK t \in tombs : c = [row |-> t.row, ver |-> 0]
      BY <2>2 DEF Tombstoned
    <3>2. t \in Change /\ 0 \in Times
      BY <1>0 DEF TypeOK, Times
    <3>. QED BY <2>2, <3>1, <3>2, ChangeFields DEF Change, Gone
  <2>. QED BY <1>1, <2>1, <2>2 DEF Manifest
<1>2. ASSUME NEW c \in Manifest(from)
      PROVE  c.ver < clock
  BY <1>0, <1>1, ChangeFields DEF Past
<1>. QED BY <1>1, <1>2

LEMMA PullDef ==
  ASSUME DefInv, UNCHANGED transports,
         Fetch(TRUE) \/ Fetch(FALSE) \/ NextStage \/ NextItem \/ EdgeRestart
  PROVE  DefInv'
<1>0. TypeOK /\ AtHead /\ Unused /\ PullInHand /\ PastWrite /\ Past /\ clock \in Nat
  BY Versions DEF DefInv
<1>1. /\ UNCHANGED <<master, tombs, clock, announcing, cut, events, unsent, attempts, batch,
                     written, wire, queue, late, dropped, edge, processed, transports>>
      /\ happened' \subseteq Scope
  BY <1>0
     DEF Fetch, NextStage, NextItem, EdgeRestart, masterVars, sendVars, outboxVars, flushVars,
         lineVars, histories, stores, Happens, TypeOK
<1>a. OutboxTypeOK' /\ Indices' = Indices
  BY <1>0, <1>1 DEF TypeOK, OutboxTypeOK, Indices, Sendable, Attempts
<1>2. CASE Fetch(TRUE) \/ Fetch(FALSE)
  <2>1. PICK from \in Nat : manifest' = Manifest(from)
    BY <1>0, <1>2 DEF Fetch, TypeOK
  <2>2. /\ stage = "idle" /\ "pull" \in transports /\ stage' = "settings"
        /\ todo' \subseteq manifest' /\ UNCHANGED <<pc, job>>
    BY <1>2 DEF Fetch, tasks
  <2>3. since' \in Nat
    BY <1>0, <1>2 DEF Fetch, TypeOK
  <2>4. manifest' \subseteq Change /\ \A c \in manifest' : c.ver < clock
    BY <2>1, ManifestFields
  <2>5. TypeOK'
    BY <1>0, <1>1, <1>a, <2>2, <2>3, <2>4 DEF TypeOK, Stages
  <2>6. AtHead' /\ Unused' /\ PullInHand' /\ PastWrite' /\ Past'
    BY <1>0, <1>1, <1>a, <2>2, <2>4 DEF AtHead, Unused, PullInHand, PastWrite, Past
  <2>. QED BY <2>5, <2>6 DEF DefInv
<1>3. CASE NextStage
  <2>1. /\ stage # "idle" /\ pc["pull"] = "idle" /\ todo' \subseteq manifest'
        /\ UNCHANGED <<pc, job, since>>
        /\ \/ stage' \in {"forms", "deletions"} /\ manifest' = manifest
           \/ stage' = "idle" /\ manifest' = {}
    BY <1>3 DEF NextStage, tasks
  <2>2. TypeOK'
    BY <1>0, <1>1, <1>a, <2>1 DEF TypeOK, Stages
  <2>3. AtHead' /\ Unused' /\ PullInHand' /\ PastWrite' /\ Past'
    BY <1>0, <1>1, <1>a, <2>1 DEF AtHead, Unused, PullInHand, PastWrite, Past
  <2>. QED BY <2>2, <2>3 DEF DefInv
<1>4. CASE NextItem
  <2>1. PICK c \in todo :
          /\ job' = [job EXCEPT !["pull"] = c] /\ todo' = todo \ {c}
          /\ pc' = [pc EXCEPT !["pull"] = IF stage = "forms" THEN "check" ELSE "write"]
          /\ UNCHANGED <<stage, manifest, since>>
    BY <1>4 DEF NextItem, Begin, Goto
  <2>2. c \in Change /\ c # None /\ c \in manifest /\ stage # "idle"
    BY <1>0, ChangeFields DEF TypeOK, PullInHand
  <2>3. TypeOK'
    BY <1>0, <1>1, <1>a, <2>1, <2>2 DEF TypeOK, Workers
  <2>4. AtHead' /\ Unused' /\ PullInHand' /\ PastWrite' /\ Past'
    BY <1>0, <1>1, <1>a, <2>1, <2>2
       DEF AtHead, Unused, PullInHand, PastWrite, Past, TypeOK, Workers
  <2>. QED BY <2>3, <2>4 DEF DefInv
<1>5. CASE EdgeRestart
  <2>1. /\ pc' = [w \in Workers |-> "idle"] /\ job' = [w \in Workers |-> None]
        /\ stage' = "idle" /\ todo' = {} /\ manifest' = {} /\ since' = 0
    BY <1>5 DEF EdgeRestart
  <2>2. TypeOK'
    BY <1>0, <1>1, <1>a, <2>1 DEF TypeOK, Stages
  <2>3. AtHead' /\ Unused' /\ PullInHand' /\ PastWrite' /\ Past'
    BY <1>0, <1>1, <1>a, <2>1 DEF AtHead, Unused, PullInHand, PastWrite, Past, Workers
  <2>. QED BY <2>2, <2>3 DEF DefInv
<1>. QED BY <1>2, <1>3, <1>4, <1>5

LEMMA StayDef == DefInv /\ UNCHANGED <<vars, transports>> => DefInv'
  BY DEF DefInv, vars, masterVars, sendVars, outboxVars, flushVars, lineVars, histories, stores,
         tasks, pullVars, TypeOK, AtHead, Valid, Unused, PullInHand, PastWrite, Past,
         OutboxTypeOK, Indices, Sendable, Attempts

LEMMA NextDef == DefInv /\ [Next]_<<vars, transports>> => DefInv'
<1> SUFFICES ASSUME DefInv, [Next]_<<vars, transports>>
             PROVE  DefInv'
  OBVIOUS
<1>1. CASE UNCHANGED <<vars, transports>>
  BY <1>1, StayDef
<1>2. CASE Next
  BY <1>2, StepKinds, RequestDef, SendingDef, DeliverDef, WorkDef, PullDef DEF EdgeStep
<1>. QED BY <1>1, <1>2

(***************************************************************************)
(* The rows, messages and tasks of both sides keep their types, for any    *)
(* deployment and any overlapping requests; a message is acked only at the *)
(* head of its queue.                                                      *)
(***************************************************************************)
THEOREM DefinitionTypeCorrect == Spec => []TypeOK
<1>1. DefInv => TypeOK
  BY DEF DefInv
<1>. QED BY <1>1, InitDef, NextDef, PTL DEF Spec

-----------------------------------------------------------------------------
QueuePath == "pull" \notin transports
PullPath  == "amqp" \notin transports

OneRequest == \A q, r \in Requests : q = r

LEMMA OneWorks ==
  ASSUME DefInv, OnePath
  PROVE  /\ QueuePath \/ PullPath
         /\ QueuePath => pc["pull"] = "idle"
         /\ PullPath => pc["consumer"] = "idle"
         /\ \A v, w \in Workers : pc[v] # "idle" /\ pc[w] # "idle" => v = w
<1>0. TypeOK /\ AtHead /\ Unused /\ PullInHand
  BY DEF DefInv
<1>1. transports \subseteq {"amqp", "pull"}
  BY <1>0, DefinitionAssumption DEF TypeOK
<1>2. QueuePath \/ PullPath
  BY <1>1 DEF OnePath, QueuePath, PullPath
<1>3. /\ QueuePath => pc["pull"] = "idle"
      /\ PullPath => pc["consumer"] = "idle"
  BY <1>0, NothingSent DEF QueuePath, PullPath, Unused, AtHead, PullInHand
<1>. QED BY <1>2, <1>3 DEF Workers

(***************************************************************************)
(* With one transport the row a worker has written is still what it wrote  *)
(* until it is done.                                                       *)
(***************************************************************************)
Written ==
  \A w \in Workers : pc[w] \in {"link", "mark"} => edge[job[w].row] = job[w].ver

LEMMA WrittenStep ==
  ASSUME DefInv, OnePath, Written, Next
  PROVE  Written'
<1>0. TypeOK
  BY DEF DefInv
<1>1. ASSUME NEW w \in Workers, TaskStep(w)
      PROVE  Written'
  <2>1. pc[w] # "idle"
    BY <1>1 DEF TaskStep, Check, Write, Link, Mark
  <2>2. \A v \in Workers : v # w => pc[v] = "idle"
    BY <2>1, OneWorks
  <2>3. job[w].row \in Rows /\ job[w].ver \in Times
    BY <2>1, JobOf DEF Times
  <2>4. \A v \in Workers : v # w => pc'[v] = "idle"
    BY <1>0, <1>1, <2>2 DEF TaskStep, Check, Write, Link, Mark, Stop, Goto, TypeOK
  <2>5. pc'[w] \in {"link", "mark"} => edge'[job'[w].row] = job'[w].ver
    <3>1. CASE Check(w)
      BY <1>0, <3>1 DEF Check, Stop, Goto, TypeOK
    <3>2. CASE Write(w)
      BY <1>0, <2>3, <3>2 DEF Write, Stored, Stop, Goto, TypeOK
    <3>3. CASE Link(w)
      BY <1>0, <3>3 DEF Written, Link, Stop, Goto, stores, TypeOK
    <3>4. CASE Mark(w)
      BY <1>0, <3>4 DEF Mark, Stop, Goto, TypeOK
    <3>. QED BY <1>1, <3>1, <3>2, <3>3, <3>4 DEF TaskStep
  <2>. QED BY <2>4, <2>5 DEF Written
<1>2. CASE UNCHANGED <<edge, pc, job>>
  BY <1>2 DEF Written
<1>3. CASE Deliver
  BY <1>0, <1>3 DEF Written, Deliver, Begin, Goto, stores, tasks, TypeOK, Workers
<1>4. CASE NextItem
  BY <1>0, <1>4 DEF Written, NextItem, Begin, Goto, stores, TypeOK, Workers
<1>5. CASE EdgeRestart
  BY <1>5 DEF Written, EdgeRestart
<1>6. CASE PanelStep \/ OutboxStep \/ Fetch(TRUE) \/ Fetch(FALSE) \/ NextStage
  BY <1>2, <1>6, PanelFrames, OutboxFrames DEF Fetch, NextStage, stores, tasks
<1>. QED BY <1>1, <1>3, <1>4, <1>5, <1>6, StepKinds DEF EdgeStep

(* Only a worker changes what the edge stores. *)
LEMMA WorkersStore ==
  ASSUME Next
  PROVE  UNCHANGED stores \/ \E w \in Workers : TaskStep(w)
  BY StepKinds, PanelFrames, OutboxFrames
     DEF EdgeStep, Deliver, Fetch, NextStage, NextItem, EdgeRestart
-----------------------------------------------------------------------------
(***************************************************************************)
(* The queue alone, with one request of the panel at a time.  The upserts  *)
(* of forms, by their place in the log, and those the consumer has handled *)
(* are sent in order (SendingInOrder); their versions climb.               *)
(***************************************************************************)
Upserts == {i \in Indices : events[i].row \in Forms /\ events[i].ver # 0}
KeyAt(i) == [via |-> "consumer", row |-> events[i].row, ver |-> events[i].ver]
Handled == {i \in Upserts : KeyAt(i) \in processed}

LogClimbs ==
  \A i, j \in Indices : i < j /\ events[j].ver # 0 => events[i].ver < events[j].ver

LastChange ==
  \A q \in Requests : announcing[q] # None =>
    /\ announcing[q].ver \in {0, clock - 1}
    /\ master[announcing[q].row] = clock - 1
    /\ \A i \in Indices : events[i].ver < clock - 1

(* What is still to come to the edge is not older than what it has, unless *)
(* it is a repetition or came out of order.                                *)
EdgeIsBehind ==
  \A f \in Forms : \A i \in Upserts \cap (unsent \cup Held(Line)) :
    events[i].row = f =>
      edge[f] <= events[i].ver \/ i \in Handled \/ OutOfOrder(EventsOf(f))

(* Only what was sent is recorded, and what is being applied is not yet. *)
KeysOfLog == \A k \in processed : \E i \in Upserts : k = KeyAt(i)
AtWork ==
  pc["consumer"] \in {"write", "link", "mark"} /\ job["consumer"].row \in Forms =>
    KeyOf("consumer") \notin processed

QueueInv ==
  /\ LogClimbs /\ LastChange
  /\ SendingInOrder(Upserts, Handled)
  /\ EdgeIsBehind /\ KeysOfLog /\ AtWork

(* The order of rigid sets, stated of the state's own. *)
LEMMA OrderOfState ==
  ASSUME NEW T, NEW H, T = Upserts', H = Handled', SendingInOrder(T, H)'
  PROVE  SendingInOrder(Upserts, Handled)'
  BY DEF SendingInOrder, TriedIsSomewhere, WrittenIsSomewhere, SentIsSomewhere,
         UntriedIsNext, LineInOrder, HandledInOrder, Somewhere, Started

(* What came out of order remains so. *)
LEMMA StaysOutOfOrder ==
  ASSUME DefInv, Next, NEW r, OutOfOrder(EventsOf(r))
  PROVE  OutOfOrder(EventsOf(r))'
<1>0. TypeOK /\ Unused
  BY DEF DefInv
<1>1. /\ late \subseteq late' /\ dropped \subseteq dropped'
      /\ DOMAIN attempts \subseteq DOMAIN attempts'
  <2>1. CASE PanelStep \/ EdgeStep
    BY <2>1, PanelFrames, EdgeFrames DEF flushVars, histories
  <2>2. CASE OutboxStep
    BY <2>2, OutboxFrames
       DEF StartFlush, Send, MarkSent, PublishFails, MarkFails, Fail, Abort, BrokerAccepts,
           LinkLost, MasterStops, BufferLost, histories, flushVars
  <2>. QED BY <2>1, <2>2, StepKinds
<1>2. Indices \subseteq Indices' /\ \A i \in Indices : events'[i] = events[i]
  <2>1. CASE OutboxStep \/ EdgeStep
    BY <2>1, OutboxFrames, EdgeFrames DEF Indices
  <2>2. CASE PanelStep
    <3> PICK q \in Requests :
          ReadBack(q) \/ Enqueue(q) \/ \E z \in Rows : Save(q, z) \/ Delete(q, z)
      BY <2>2 DEF PanelStep
    <3>1. CASE ReadBack(q) \/ \E z \in Rows : Save(q, z)
      BY <3>1 DEF ReadBack, Save, sendVars, Indices
    <3>2. CASE Enqueue(q)
      BY <1>0, <3>2, LogGrows DEF Enqueue, TypeOK
    <3>3. ASSUME NEW z \in Rows, Delete(q, z)
          PROVE  Indices \subseteq Indices' /\ \A i \in Indices : events'[i] = events[i]
      BY <1>0, <3>3, LogGrows DEF Delete, Change, Times
    <3>. QED BY <3>1, <3>2, <3>3
  <2>. QED BY <2>1, <2>2, StepKinds
<1>3. EventsOf(r) \subseteq EventsOf(r)'
  BY <1>2 DEF EventsOf
<1>. QED BY <1>1, <1>3 DEF OutOfOrder, Overtaken

-----------------------------------------------------------------------------
(* A request of the panel adds at most one event; an upsert has the version *)
(* of the last change.                                                      *)
LEMMA PanelLog ==
  ASSUME DefInv, LastChange, PanelStep
  PROVE  /\ Len(events) \in Nat /\ Len(events') \in Nat /\ Len(events) <= Len(events')
         /\ Len(events') <= Len(events) + 1 /\ Indices \subseteq Indices'
         /\ \A i \in Indices : events'[i] = events[i]
         /\ \A i \in Indices' \ Indices :
              /\ i > Len(events) /\ events'[i].row \in Rows
              /\ \/ events'[i].ver = 0
                 \/ /\ events'[i].ver = clock - 1
                    /\ \A j \in Indices : events[j].ver < clock - 1
         /\ Pending \/ UNCHANGED <<events, unsent>>
         /\ UNCHANGED <<attempts, batch, written, lineVars, histories, stores, tasks>>
<1>0. TypeOK /\ Unused
  BY DEF DefInv
<1>1. UNCHANGED <<attempts, batch, written, lineVars, histories, stores, tasks>>
  BY PanelFrames DEF lineVars, histories
<1> PICK q \in Requests :
      ReadBack(q) \/ Enqueue(q) \/ \E r \in Rows : Save(q, r) \/ Delete(q, r)
  BY DEF PanelStep
<1>2. CASE UNCHANGED <<events, unsent>>
  BY <1>0, <1>1, <1>2, Versions DEF Indices
<1>3. ASSUME NEW c \in Change, Announced(c),
             \/ c.ver = 0
             \/ c.ver = clock - 1 /\ \A j \in Indices : events[j].ver < clock - 1
      PROVE  /\ Len(events) \in Nat /\ Len(events') \in Nat /\ Len(events) <= Len(events')
             /\ Len(events') <= Len(events) + 1 /\ Indices \subseteq Indices'
             /\ \A i \in Indices : events'[i] = events[i]
             /\ \A i \in Indices' \ Indices :
                  /\ i > Len(events) /\ events'[i].row \in Rows
                  /\ \/ events'[i].ver = 0
                     \/ /\ events'[i].ver = clock - 1
                        /\ \A j \in Indices : events[j].ver < clock - 1
             /\ Pending \/ UNCHANGED <<events, unsent>>
  BY <1>0, <1>3, LogGrows, ChangeFields
<1>4. CASE Enqueue(q)
  <2>1. announcing[q] \in Change /\ Announced(announcing[q]) /\ announcing[q].ver # 0
    BY <1>0, <1>4 DEF Enqueue, TypeOK
  <2>2. announcing[q].ver = clock - 1 /\ \A j \in Indices : events[j].ver < clock - 1
    BY <1>4, <2>1 DEF LastChange, Enqueue
  <2>. QED BY <1>1, <1>3, <2>1, <2>2
<1>5. ASSUME NEW r \in Rows, Delete(q, r)
      PROVE  [row |-> r, ver |-> 0] \in Change /\ Announced([row |-> r, ver |-> 0])
  BY <1>5 DEF Delete, Change, Times
<1>6. CASE ReadBack(q) \/ \E r \in Rows : Save(q, r)
  BY <1>2, <1>6 DEF ReadBack, Save, sendVars, outboxVars, flushVars
<1>. QED BY <1>1, <1>3, <1>4, <1>5, <1>6

LEMMA LastChangeStep ==
  ASSUME DefInv, OneRequest, LastChange, Next
  PROVE  LastChange'
<1>0. TypeOK /\ Past /\ Unused
  BY DEF DefInv
<1>1. CASE OutboxStep \/ EdgeStep
  <2>1. UNCHANGED <<master, clock, events>> /\ Indices' = Indices
    BY <1>1, OutboxFrames, EdgeFrames DEF masterVars, Indices
  <2>2. \A q \in Requests : announcing'[q] = None \/ announcing'[q] = announcing[q]
    BY <1>1, OutboxFrames, EdgeFrames DEF masterVars
  <2>. QED BY <2>1, <2>2 DEF LastChange
<1>2. CASE PanelStep
  <2> PICK q \in Requests :
        ReadBack(q) \/ Enqueue(q) \/ \E r \in Rows : Save(q, r) \/ Delete(q, r)
    BY <1>2 DEF PanelStep
  <2>0. \A p \in Requests : p = q
    BY DEF OneRequest
  <2>1. ASSUME NEW r \in Rows, Save(q, r)
        PROVE  LastChange'
    <3>1. clock' = clock + 1 /\ master'[r] = clock /\ clock \in Nat
          /\ announcing'[q].row = r /\ announcing'[q].ver \in {0, clock}
      BY <1>0, <2>1, Versions DEF Save, TypeOK
    <3>2. clock' - 1 = clock
      BY <3>1
    <3>3. events' = events /\ Indices' = Indices /\ \A i \in Indices : events[i].ver < clock
      BY <1>0, <2>1 DEF Save, sendVars, Indices, Past
    <3>. QED BY <2>0, <3>1, <3>2, <3>3 DEF LastChange
  <2>2. CASE ReadBack(q)
    <3>1. UNCHANGED <<master, clock, events>> /\ Indices' = Indices
      BY <2>2 DEF ReadBack, sendVars, Indices
    <3>2. announcing[q] # None /\ master[announcing[q].row] = clock - 1
          /\ \A i \in Indices : events[i].ver < clock - 1
      BY <2>2 DEF ReadBack, LastChange
    <3>3. announcing'[q] # None => announcing'[q].row = announcing[q].row
                                   /\ announcing'[q].ver = master[announcing[q].row]
      BY <1>0, <2>2 DEF ReadBack, TypeOK
    <3>. QED BY <2>0, <3>1, <3>2, <3>3 DEF LastChange
  <2>3. CASE Enqueue(q)
    <3>1. announcing'[q] = None
      BY <1>0, <2>3 DEF Enqueue, TypeOK
    <3>. QED BY <2>0, <3>1 DEF LastChange
  <2>4. ASSUME NEW r \in Rows, Delete(q, r)
        PROVE  LastChange'
    <3>1. announcing'[q] = None
      BY <2>4 DEF Delete
    <3>. QED BY <2>0, <3>1 DEF LastChange
  <2>. QED BY <2>1, <2>2, <2>3, <2>4
<1>. QED BY <1>1, <1>2, StepKinds

LEMMA PanelQueue ==
  ASSUME DefInv, QueueInv, PanelStep, LastChange', \A r : OutOfOrder(EventsOf(r)) => OutOfOrder(EventsOf(r))'
  PROVE  QueueInv'
<1>0. TypeOK /\ Past /\ OutboxTypeOK /\ LastChange
  BY DEF DefInv, TypeOK, QueueInv
<1>1. /\ Len(events) \in Nat /\ Len(events') \in Nat /\ Len(events) <= Len(events')
      /\ Len(events') <= Len(events) + 1 /\ Indices \subseteq Indices'
      /\ \A i \in Indices : events'[i] = events[i]
      /\ \A i \in Indices' \ Indices :
           /\ i > Len(events) /\ events'[i].row \in Rows
           /\ \/ events'[i].ver = 0
              \/ /\ events'[i].ver = clock - 1
                 /\ \A j \in Indices : events[j].ver < clock - 1
      /\ Pending \/ UNCHANGED <<events, unsent>>
      /\ UNCHANGED <<attempts, batch, written, lineVars, histories, stores, tasks>>
  BY <1>0, PanelLog
<1>2. UNCHANGED <<edge, processed, queue, wire, pc, job>>
  BY <1>1 DEF stores, tasks, lineVars
<1>3. LogClimbs'
  <2> SUFFICES ASSUME NEW i \in Indices', NEW j \in Indices', i < j, events'[j].ver # 0
               PROVE  events'[i].ver < events'[j].ver
    BY DEF LogClimbs
  <2>1. CASE j \in Indices
    <3>1. i \in Indices
      BY <1>1, <2>1 DEF Indices
    <3>. QED BY <1>1, <2>1, <3>1 DEF QueueInv, LogClimbs
  <2>2. CASE j \notin Indices
    <3>1. i \in Indices
      BY <1>1, <2>2 DEF Indices
    <3>. QED BY <1>1, <2>2, <3>1
  <2>. QED BY <2>1, <2>2
<1>4. Upserts \subseteq Indices /\ Upserts' \subseteq Indices' /\ Upserts' \cap Indices = Upserts
  BY <1>1 DEF Upserts
<1>5. Handled' = Handled
  <2>1. ASSUME NEW i \in Upserts'
        PROVE  i \in Handled' <=> i \in Handled
    <3>1. CASE i \in Indices
      BY <1>1, <1>2, <1>4, <2>1, <3>1 DEF Handled, KeyAt
    <3>2. CASE i \notin Indices
      <4>1. events'[i].ver = clock - 1 /\ \A j \in Indices : events[j].ver < clock - 1
        BY <1>1, <1>4, <2>1, <3>2 DEF Upserts
      <4>2. KeyAt(i)' \notin processed
        <5>1. ASSUME NEW j \in Upserts, KeyAt(i)' = KeyAt(j)
              PROVE  FALSE
          <6>1. events'[i].ver = events[j].ver /\ events[j].ver < clock - 1
                /\ events[j].ver \in Nat
            BY <1>0, <1>4, <4>1, <5>1, Versions DEF KeyAt
          <6>. QED BY <4>1, <6>1
        <5>. QED BY <5>1 DEF QueueInv, KeysOfLog
      <4>. QED BY <1>2, <1>4, <3>2, <4>2 DEF Handled
    <3>. QED BY <3>1, <3>2
  <2>. QED BY <1>4, <2>1 DEF Handled
<1>6. SendingInOrder(Upserts, Handled)'
  <2>1. Handled \subseteq Upserts /\ SendingInOrder(Upserts, Handled)
    BY DEF Handled, QueueInv
  <2>2. Pending \/ (Upserts = Upserts' /\ UNCHANGED unsent)
    <3>1. UNCHANGED <<events, unsent>> => Upserts' = Upserts
      BY DEF Upserts, Indices
    <3>. QED BY <1>1, <3>1
  <2>3. PICK T \in SUBSET Indices' : T = Upserts'
    BY <1>4
  <2>4. PICK H \in SUBSET Upserts : H = Handled
    BY <2>1
  <2>5. PICK S \in SUBSET Indices : S = Upserts
    BY <1>4
  <2>6. SendingInOrder(T, H)'
    <3>1. H \in SUBSET S /\ SendingInOrder(S, H) /\ T \cap Indices = S
          /\ (Pending \/ (S = T /\ UNCHANGED unsent))
      BY <1>4, <2>1, <2>2, <2>3, <2>4, <2>5
    <3>. QED BY <1>0, <1>1, <3>1, AnnouncedOrder
  <2>. QED BY <1>5, <2>3, <2>4, <2>6, OrderOfState
<1>7. EdgeIsBehind'
  <2> SUFFICES ASSUME NEW f \in Forms, NEW i \in Upserts', i \in (unsent \cup Held(Line))',
                      events'[i].row = f
               PROVE  edge[f] <= events'[i].ver \/ i \in Handled \/ OutOfOrder(EventsOf(f))'
    BY <1>2, <1>5 DEF EdgeIsBehind
  <2>1. CASE i \in Indices
    <3>1. i \in Upserts /\ events'[i] = events[i]
      BY <1>1, <1>4, <2>1
    <3>2. i \in unsent \cup Held(Line)
      <4>1. Held(Line)' = Held(Line)
        BY <1>2 DEF Held, Line
      <4>2. i \in unsent' => i \in unsent
        BY <1>1, <2>1 DEF Pending
      <4>. QED BY <4>1, <4>2
    <3>. QED BY <3>1, <3>2 DEF QueueInv, EdgeIsBehind
  <2>2. CASE i \notin Indices
    <3>1. events'[i].ver = clock - 1 /\ events'[i].row \in Rows
      BY <1>1, <1>4, <2>2 DEF Upserts
    <3>2. edge[events'[i].row] < clock /\ edge[events'[i].row] \in Nat /\ clock \in Nat \ {0}
      BY <1>0, <3>1, Versions DEF Past
    <3>3. edge[f] <= events'[i].ver
      BY <3>1, <3>2
    <3>. QED BY <3>3
  <2>. QED BY <2>1, <2>2
<1>8. KeysOfLog'
  <2>1. \A i \in Upserts : i \in Upserts' /\ KeyAt(i)' = KeyAt(i)
    BY <1>1, <1>4 DEF KeyAt
  <2>. QED BY <1>2, <2>1 DEF QueueInv, KeysOfLog
<1>9. AtWork'
  BY <1>2 DEF QueueInv, AtWork, KeyOf
<1>. QED BY <1>3, <1>6, <1>7, <1>8, <1>9 DEF QueueInv

LEMMA SendingQueue ==
  ASSUME DefInv, QueueInv, OutboxStep, LastChange', \A r : OutOfOrder(EventsOf(r)) => OutOfOrder(EventsOf(r))'
  PROVE  QueueInv'
<1>0. OutboxTypeOK /\ Len(events) \in Nat
  BY Versions DEF DefInv, TypeOK
<1>1. /\ UNCHANGED <<events, edge, processed, pc, job>>
      /\ \/ StartFlush \/ Send \/ MarkSent \/ PublishFails \/ MarkFails
         \/ BrokerAccepts \/ LinkLost \/ MasterStops
  BY OutboxFrames DEF stores, tasks
<1>2. Upserts' = Upserts /\ Handled' = Handled /\ Indices' = Indices
  BY <1>1 DEF Upserts, Handled, KeyAt, Indices
<1>3. SendingInOrder(Upserts, Handled)'
  <2>1. PICK S \in SUBSET Indices : S = Upserts
    BY DEF Upserts
  <2>2. PICK H \in SUBSET S : H = Handled
    BY <2>1 DEF Handled
  <2>3. SendingInOrder(S, H)
    BY <2>1, <2>2 DEF QueueInv
  <2>4. SendingInOrder(S, H)'
    BY <1>0, <1>1, <2>3, OutboxOrder
  <2>. QED BY <1>2, <2>1, <2>2, <2>4, OrderOfState
<1>4. EdgeIsBehind'
  <2>1. (unsent \cup Held(Line))' \subseteq unsent \cup Held(Line)
    BY <1>0, <1>1, NothingNew
  <2>. QED BY <1>1, <1>2, <2>1 DEF QueueInv, EdgeIsBehind
<1>5. LogClimbs'
  BY <1>1, <1>2 DEF QueueInv, LogClimbs
<1>6. KeysOfLog' /\ AtWork'
  BY <1>1, <1>2 DEF QueueInv, KeysOfLog, KeyAt, AtWork, KeyOf
<1>. QED BY <1>3, <1>4, <1>5, <1>6 DEF QueueInv

-----------------------------------------------------------------------------
(* The edge takes the head of the queue, once it has handled it, or leaves  *)
(* the queue as it is.                                                      *)
LEMMA Settles ==
  ASSUME DefInv, QueueInv, EdgeStep,
         NEW H, H = Handled',
         H = Handled \/ (queue # <<>> /\ Head(queue) \in Upserts
                                      /\ H = Handled \cup {Head(queue)}),
         queue' = queue \/ (queue # <<>> /\ queue' = Tail(queue)
                                         /\ (Head(queue) \in Upserts => Head(queue) \in H))
  PROVE  /\ UNCHANGED <<events, unsent>> /\ Upserts' = Upserts /\ Indices' = Indices
         /\ Held(Line)' \subseteq Held(Line) /\ Handled \subseteq H
         /\ LogClimbs' /\ SendingInOrder(Upserts, Handled)'
<1>0. OutboxTypeOK /\ Len(events) \in Nat
  BY Versions DEF DefInv, TypeOK
<1>1. UNCHANGED <<events, unsent, attempts, batch, written, wire, late, dropped>>
  BY EdgeFrames DEF flushVars, histories
<1>2. Upserts' = Upserts /\ Indices' = Indices /\ Handled \subseteq H
  BY <1>1 DEF Upserts, Indices
<1>3. LogClimbs'
  BY <1>1, <1>2 DEF QueueInv, LogClimbs
<1>4. PICK S \in SUBSET Indices : S = Upserts
  BY DEF Upserts
<1>5. PICK G \in SUBSET S : G = Handled
  BY <1>4 DEF Handled
<1>6. SendingInOrder(S, G)
  BY <1>4, <1>5 DEF QueueInv
<1>7. SendingInOrder(S, H) /\ H \in SUBSET S
  <2>1. CASE H = Handled
    BY <1>5, <1>6, <2>1
  <2>2. CASE queue # <<>> /\ Head(queue) \in Upserts /\ H = Handled \cup {Head(queue)}
    BY <1>0, <1>4, <1>5, <1>6, <2>2, HeadHandled
  <2>. QED BY <2>1, <2>2
<1>8. SendingInOrder(S, H)' /\ Held(Line)' \subseteq Held(Line)
  <2>1. CASE queue' = queue
    <3>1. UNCHANGED outboxVars
      BY <1>1, <2>1 DEF outboxVars, flushVars, lineVars, histories
    <3>2. Held(Line)' = Held(Line)
      BY <1>1, <2>1 DEF Held, Line
    <3>. QED BY <1>7, <3>1, <3>2, SameOrder
  <2>2. CASE queue # <<>> /\ queue' = Tail(queue) /\ (Head(queue) \in Upserts => Head(queue) \in H)
    BY <1>0, <1>1, <1>4, <1>7, <2>2, AckOrder
  <2>. QED BY <2>1, <2>2
<1>9. SendingInOrder(Upserts, Handled)'
  BY <1>2, <1>4, <1>8, OrderOfState
<1>. QED BY <1>1, <1>2, <1>3, <1>8, <1>9

(* The forms the edge has are as they were. *)
LEMMA SettlesBehind ==
  ASSUME DefInv, QueueInv, EdgeStep,
         \A r : OutOfOrder(EventsOf(r)) => OutOfOrder(EventsOf(r))',
         \A f \in Forms : edge'[f] = edge[f],
         NEW H, H = Handled',
         H = Handled \/ (queue # <<>> /\ Head(queue) \in Upserts
                                      /\ H = Handled \cup {Head(queue)}),
         queue' = queue \/ (queue # <<>> /\ queue' = Tail(queue)
                                         /\ (Head(queue) \in Upserts => Head(queue) \in H))
  PROVE  EdgeIsBehind'
<1>1. /\ UNCHANGED <<events, unsent>> /\ Upserts' = Upserts
      /\ Held(Line)' \subseteq Held(Line) /\ Handled \subseteq H
  BY Settles
<1> SUFFICES ASSUME NEW f \in Forms, NEW i \in Upserts', i \in (unsent \cup Held(Line))',
                    events'[i].row = f
             PROVE  edge'[f] <= events'[i].ver \/ i \in H \/ OutOfOrder(EventsOf(f))'
  BY DEF EdgeIsBehind
<1>2. i \in Upserts /\ i \in unsent \cup Held(Line) /\ events[i].row = f
  BY <1>1
<1>3. edge[f] <= events[i].ver \/ i \in Handled \/ OutOfOrder(EventsOf(f))
  BY <1>2 DEF QueueInv, EdgeIsBehind
<1>. QED BY <1>1, <1>3

(* The consumer's message is the head of the queue, and its key that of the *)
(* head's event.                                                            *)
LEMMA ConsumersHead ==
  ASSUME DefInv, pc["consumer"] # "idle"
  PROVE  /\ queue # <<>> /\ job["consumer"] = events[Head(queue)]
         /\ Head(queue) \in Indices /\ Head(queue) \in Held(Line)
         /\ KeyOf("consumer") = KeyAt(Head(queue))
         /\ Head(queue) \in Upserts <=> job["consumer"].row \in Forms
<1>0. TypeOK /\ AtHead
  BY DEF DefInv
<1>1. queue # <<>> /\ job["consumer"] = events[Head(queue)] /\ Valid(job["consumer"])
  BY <1>0 DEF AtHead
<1>2. Head(queue) \in Indices /\ Head(queue) \in Held(Line)
  BY <1>0, <1>1, HeadType
<1>3. KeyOf("consumer") = KeyAt(Head(queue))
  BY <1>1 DEF KeyOf, KeyAt
<1>4. Head(queue) \in Upserts <=> job["consumer"].row \in Forms
  BY <1>1, <1>2, DefinitionAssumption DEF Upserts, Valid
<1>. QED BY <1>1, <1>2, <1>3, <1>4

(* What the consumer writes of a form is not older than what the edge has,  *)
(* unless the form's events came out of order.                              *)
LEMMA ConsumerClimbs ==
  ASSUME DefInv, QueueInv, Write("consumer"), job["consumer"].row \in Forms
  PROVE  \/ edge[job["consumer"].row] <= job["consumer"].ver
         \/ OutOfOrder(EventsOf(job["consumer"].row))
<1>1. pc["consumer"] = "write"
  BY DEF Write
<1>2. /\ Head(queue) \in Upserts /\ Head(queue) \in Held(Line)
      /\ job["consumer"] = events[Head(queue)] /\ KeyOf("consumer") = KeyAt(Head(queue))
  BY <1>1, ConsumersHead
<1>3. Head(queue) \notin Handled
  BY <1>1, <1>2 DEF QueueInv, AtWork, Handled
<1>. QED BY <1>2, <1>3 DEF QueueInv, EdgeIsBehind

LEMMA WriteBehind ==
  ASSUME DefInv, QueueInv, Write("consumer"), job["consumer"].row \in Forms,
         LastChange', \A r : OutOfOrder(EventsOf(r)) => OutOfOrder(EventsOf(r))'
  PROVE  QueueInv'
<1>0. TypeOK /\ OutboxTypeOK /\ Len(events) \in Nat /\ AtHead
  BY Versions DEF DefInv, TypeOK
<1>1. PICK c : c = job["consumer"]
  OBVIOUS
<1>2. PICK h : h = Head(queue)
  OBVIOUS
<1>3. /\ pc["consumer"] = "write" /\ edge' = [edge EXCEPT ![c.row] = c.ver]
      /\ UNCHANGED <<processed, events, queue>>
      /\ pc' = [pc EXCEPT !["consumer"] = "link"] /\ job' = job /\ EdgeStep
  <2>1. c.row \notin Settings /\ c.ver # 0 /\ c.row \in Forms
    <3>1. Valid(c) /\ c.row \in Forms
      BY <1>0, <1>1 DEF Write, AtHead
    <3>. QED BY <3>1, DefinitionAssumption DEF Valid
  <2>2. EdgeStep
    BY DEF EdgeStep, TaskStep, Workers
  <2>. QED BY <1>1, <2>1, <2>2 DEF Write, Stored, Goto, sendVars, outboxVars, lineVars
<1>4. /\ h \in Upserts /\ h \in Held(Line) /\ h \in Indices /\ queue # <<>>
      /\ c = events[h] /\ KeyOf("consumer") = KeyAt(h)
  BY <1>1, <1>2, <1>3, ConsumersHead
<1>5. Handled' = Handled
  BY <1>3 DEF Handled, Upserts, Indices, KeyAt
<1>6. /\ UNCHANGED <<events, unsent>> /\ Upserts' = Upserts /\ Indices' = Indices
      /\ Held(Line)' \subseteq Held(Line)
      /\ LogClimbs' /\ SendingInOrder(Upserts, Handled)'
  BY <1>3, <1>5, Settles
<1>7. EdgeIsBehind'
  <2> SUFFICES ASSUME NEW f \in Forms, NEW i \in Upserts', i \in (unsent \cup Held(Line))',
                      events'[i].row = f
               PROVE  edge'[f] <= events'[i].ver \/ i \in Handled \/ OutOfOrder(EventsOf(f))'
    BY <1>5 DEF EdgeIsBehind
  <2>1. i \in Upserts /\ i \in unsent \cup Held(Line) /\ events[i].row = f /\ i \in Indices
    BY <1>6 DEF Upserts
  <2>2. CASE f # c.row
    <3>1. edge'[f] = edge[f]
      BY <1>0, <1>3, <2>2 DEF TypeOK, Rows
    <3>2. edge[f] <= events[i].ver \/ i \in Handled \/ OutOfOrder(EventsOf(f))
      BY <2>1 DEF QueueInv, EdgeIsBehind
    <3>. QED BY <1>6, <3>1, <3>2
  <2>3. CASE f = c.row
    <3>1. edge'[f] = c.ver /\ c.ver \in Nat /\ events[i].ver \in Nat /\ i \in Nat /\ h \in Nat
      BY <1>0, <1>3, <1>4, <2>1, <2>3, Versions DEF TypeOK, Rows
    <3>2. CASE i < h
      <4>1. PICK S \in SUBSET Indices : S = Upserts
        BY DEF Upserts
      <4>2. PICK H \in SUBSET S : H = Handled
        BY <4>1 DEF Handled
      <4>3. i \in H \/ Overtaken(i)
        <5>1. SendingInOrder(S, H) /\ Head(queue) \in S /\ i \in S \cap (unsent \cup Held(Line))
              /\ i < Head(queue)
          BY <1>2, <1>4, <2>1, <3>2, <4>1, <4>2 DEF QueueInv
        <5>. QED BY <1>0, <1>4, <5>1, BehindHead
      <4>4. Overtaken(i) => OutOfOrder(EventsOf(f))
        BY <1>4, <2>1, <2>3, <3>2 DEF OutOfOrder, EventsOf
      <4>. QED BY <4>2, <4>3, <4>4
    <3>3. CASE i >= h
      <4>1. c.ver <= events[i].ver
        <5>1. CASE i = h
          BY <1>4, <3>1, <5>1
        <5>2. CASE i # h
          <6>1. h < i /\ events[i].ver # 0
            BY <2>1, <3>1, <3>3, <5>2 DEF Upserts
          <6>2. events[h].ver < events[i].ver
            BY <1>4, <2>1, <6>1 DEF QueueInv, LogClimbs
          <6>. QED BY <1>4, <3>1, <6>2
        <5>. QED BY <5>1, <5>2
      <4>. QED BY <1>6, <3>1, <4>1
    <3>. QED BY <3>1, <3>2, <3>3
  <2>. QED BY <2>2, <2>3
<1>8. KeysOfLog'
  BY <1>3, <1>6 DEF QueueInv, KeysOfLog, KeyAt
<1>9. AtWork'
  BY <1>3 DEF QueueInv, AtWork, KeyOf
<1>. QED BY <1>6, <1>7, <1>8, <1>9 DEF QueueInv

-----------------------------------------------------------------------------
(* The other steps of the edge: no form of its changes. *)
LEMMA SettlesQueue ==
  ASSUME DefInv, QueueInv, EdgeStep, LastChange',
         \A r : OutOfOrder(EventsOf(r)) => OutOfOrder(EventsOf(r))',
         \A f \in Forms : edge'[f] = edge[f],
         NEW H, H = Handled',
         H = Handled \/ (queue # <<>> /\ Head(queue) \in Upserts
                                      /\ H = Handled \cup {Head(queue)}),
         queue' = queue \/ (queue # <<>> /\ queue' = Tail(queue)
                                         /\ (Head(queue) \in Upserts => Head(queue) \in H)),
         \A k \in processed' : k \in processed \/ (\E i \in Upserts : k = KeyAt(i)),
         AtWork'
  PROVE  QueueInv'
<1>1. /\ UNCHANGED events /\ Upserts' = Upserts
      /\ LogClimbs' /\ SendingInOrder(Upserts, Handled)'
  BY Settles
<1>2. EdgeIsBehind'
  BY SettlesBehind
<1>3. KeysOfLog'
  BY <1>1 DEF QueueInv, KeysOfLog, KeyAt
<1>. QED BY <1>1, <1>2, <1>3 DEF QueueInv

LEMMA EdgeQueue ==
  ASSUME DefInv, QueuePath, QueueInv, EdgeStep, LastChange',
         \A r : OutOfOrder(EventsOf(r)) => OutOfOrder(EventsOf(r))'
  PROVE  /\ QueueInv'
         /\ \A f \in Forms : edge'[f] >= edge[f] \/ OutOfOrder(EventsOf(f))
<1>0. TypeOK /\ AtHead /\ PullInHand /\ PastWrite /\ stage = "idle" /\ pc["pull"] = "idle"
  BY DEF DefInv, QueuePath, Unused, PullInHand
<1>1. \A f \in Forms : edge[f] \in Nat
  BY <1>0, Versions DEF Rows
<1>a. UNCHANGED events /\ Upserts' = Upserts
  BY EdgeFrames DEF Upserts, Indices
<1>b. UNCHANGED processed => Handled' = Handled
  BY <1>a DEF Handled, KeyAt
<1>c. (\A f \in Forms : edge'[f] = edge[f]) => \A f \in Forms : edge'[f] >= edge[f]
  BY <1>1
<1>2. CASE Deliver
  <2>1. UNCHANGED <<edge, processed>> /\ Handled' = Handled /\ queue # <<>>
    BY <1>2, <1>b DEF Deliver, stores
  <2>2. queue' = queue \/ (queue' = Tail(queue) /\ Head(queue) \notin Upserts)
    BY <1>2, DefinitionAssumption
       DEF Deliver, Valid, Acknowledged, sendVars, outboxVars, lineVars, Upserts
  <2>3. AtWork'
    BY <1>0, <1>2, DefinitionAssumption
       DEF Deliver, Begin, Goto, AtWork, KeyOf, TypeOK, Workers, tasks, stores, QueueInv
  <2>. QED BY <1>c, <2>1, <2>2, <2>3, SettlesQueue
<1>3. CASE Check("consumer")
  <2>1. UNCHANGED <<edge, processed>> /\ Handled' = Handled
    BY <1>3, <1>b DEF Check, stores
  <2>2. /\ queue # <<>> /\ KeyOf("consumer") = KeyAt(Head(queue))
        /\ pc["consumer"] # "idle"
    BY <1>3, ConsumersHead DEF Check
  <2>3. queue' = queue \/ (queue' = Tail(queue) /\ (Head(queue) \in Upserts => Head(queue) \in Handled))
    BY <1>3, <2>2
       DEF Check, Known, Ack, Acknowledged, sendVars, outboxVars, lineVars, Handled
  <2>4. AtWork'
    BY <1>0, <1>3, <2>1 DEF Check, Known, Stop, Goto, AtWork, KeyOf, TypeOK, Workers
  <2>. QED BY <1>c, <2>1, <2>2, <2>3, <2>4, SettlesQueue
<1>4. CASE Write("consumer")
  <2>0. pc["consumer"] = "write"
    BY <1>4 DEF Write
  <2>1. CASE job["consumer"].row \in Forms
    <3>1. QueueInv'
      BY <1>4, <2>1, WriteBehind
    <3>2. PICK c : c = job["consumer"]
      OBVIOUS
    <3>3. edge' = [edge EXCEPT ![c.row] = c.ver] /\ c.ver \in Nat /\ c.row \in Forms
      BY <1>4, <2>0, <2>1, <3>2, JobOf DEF Write, Stored, Workers
    <3>4. edge[c.row] <= c.ver \/ OutOfOrder(EventsOf(c.row))
      BY <1>4, <2>1, <3>2, ConsumerClimbs
    <3>. QED BY <1>0, <1>1, <3>1, <3>3, <3>4 DEF TypeOK, Rows
  <2>2. CASE job["consumer"].row \notin Forms
    <3>1. /\ job["consumer"].row \in Settings
      BY <1>0, <2>0, <2>2 DEF AtHead, Valid
    <3>2. /\ queue # <<>> /\ Head(queue) \notin Upserts
      BY <2>0, <2>2, ConsumersHead
    <3>3. queue' = Tail(queue) /\ UNCHANGED processed /\ Stop("consumer")
      BY <1>4, <3>1 DEF Write, Ack, Acknowledged
    <3>4. \A f \in Forms : edge'[f] = edge[f]
      BY <1>0, <1>4, <2>2 DEF Write, Stored, TypeOK, Rows
    <3>5. AtWork'
      BY <1>0, <3>3 DEF AtWork, Stop, Goto, TypeOK, Workers
    <3>6. Handled' = Handled
      BY <1>b, <3>3
    <3>. QED BY <1>c, <3>2, <3>3, <3>4, <3>5, <3>6, SettlesQueue
  <2>. QED BY <2>1, <2>2
<1>5. CASE Link("consumer")
  <2>1. UNCHANGED <<edge, processed, queue>> /\ Handled' = Handled
    BY <1>5, <1>b DEF Link, stores, sendVars, outboxVars, lineVars
  <2>2. AtWork'
    BY <1>0, <1>5, <2>1 DEF Link, Stop, Goto, AtWork, KeyOf, TypeOK, Workers, QueueInv
  <2>. QED BY <1>c, <2>1, <2>2, SettlesQueue
<1>6. CASE Mark("consumer")
  <2>0. pc["consumer"] = "mark"
    BY <1>6 DEF Mark
  <2>1. /\ queue # <<>> /\ Head(queue) \in Indices /\ KeyOf("consumer") = KeyAt(Head(queue))
        /\ Head(queue) \in Upserts
    BY <1>0, <2>0, ConsumersHead DEF AtHead, Valid, PastWrite, Workers
  <2>2. /\ UNCHANGED edge /\ processed' = processed \cup {KeyAt(Head(queue))}
        /\ queue' = Tail(queue) /\ Stop("consumer")
    BY <1>6, <2>1 DEF Mark, Ack, Acknowledged
  <2>3. AtWork'
    BY <1>0, <2>2 DEF AtWork, Stop, Goto, TypeOK, Workers
  <2>4. /\ Handled' = {i \in Upserts : KeyAt(i) \in processed \cup {KeyAt(Head(queue))}}
    BY <1>a, <2>2 DEF Handled, KeyAt
  <2>5. LogClimbs /\ Upserts \subseteq Indices /\ \A i \in Indices : i \in Nat /\ events[i].ver \in Nat
    BY <1>0, Versions DEF QueueInv, Upserts
  <2>6. \A i \in Upserts : KeyAt(i) = KeyAt(Head(queue)) => i = Head(queue)
    <3> SUFFICES ASSUME NEW i \in Upserts, KeyAt(i) = KeyAt(Head(queue)), i # Head(queue)
                 PROVE  FALSE
      OBVIOUS
    <3>1. PICK h \in Upserts : h = Head(queue)
      BY <2>1
    <3>2. events[i].ver = events[h].ver /\ events[i].ver # 0
      BY <3>1 DEF KeyAt, Upserts
    <3>3. i < h \/ h < i
      BY <2>5, <3>1
    <3>. QED BY <2>5, <3>2, <3>3 DEF LogClimbs
  <2>7. Handled' = Handled \cup {Head(queue)}
    BY <2>1, <2>4, <2>6 DEF Handled
  <2>. QED BY <1>c, <2>1, <2>2, <2>3, <2>7, SettlesQueue
<1>7. CASE EdgeRestart
  <2>1. UNCHANGED <<edge, processed, queue>> /\ Handled' = Handled
    BY <1>7, <1>b DEF EdgeRestart, stores, sendVars, outboxVars, lineVars
  <2>2. AtWork'
    BY <1>7 DEF EdgeRestart, AtWork, Workers
  <2>. QED BY <1>c, <2>1, <2>2, SettlesQueue
<1>8. ~TaskStep("pull") /\ ~Fetch(TRUE) /\ ~Fetch(FALSE) /\ ~NextStage
  BY <1>0 DEF TaskStep, Check, Write, Link, Mark, Fetch, NextStage, QueuePath
<1>9. ~NextItem
  BY <1>0 DEF NextItem, PullInHand
<1>. QED BY <1>2, <1>3, <1>4, <1>5, <1>6, <1>7, <1>8, <1>9 DEF EdgeStep, TaskStep, Workers

-----------------------------------------------------------------------------
(***************************************************************************)
(* The pull alone: what the edge has is not newer than the manifest that   *)
(* it is applying, and that not newer than the master's row.               *)
(***************************************************************************)
PullInv ==
  /\ \A c \in manifest : c.ver # 0 =>
       /\ edge[c.row] <= c.ver
       /\ \A d \in manifest : d.row = c.row => d.ver <= c.ver
  /\ \A r \in Rows : master[r] # 0 =>
       /\ edge[r] <= master[r]
       /\ \A c \in manifest : c.row = r => c.ver <= master[r]

\* Where no row is created again, a tombstone is newer than all that was known
\* of its row.
TombsAreLast ==
  \A t \in tombs :
    /\ t.ver \in 1..clock - 1 /\ master[t.row] = 0
    /\ \A k \in processed : k.row = t.row => k.ver < t.ver
    /\ \A c \in manifest : c.row = t.row => c.ver < t.ver

PullApplied ==
  /\ TombsAreLast
  /\ \A c \in manifest : c.ver = 0 => Gone(c.row)
  /\ \A k \in processed : edge[k.row] >= k.ver \/ Gone(k.row)

\* A worker that only the pull feeds, with a change of the manifest in hand.
LEMMA PullSteps ==
  ASSUME DefInv, PullPath, NEW w \in Workers, pc[w] # "idle"
  PROVE  w = "pull" /\ job[w] \in manifest
  BY NothingSent DEF DefInv, AtHead, PullInHand, PullPath, Workers

LEMMA PullInvStep ==
  ASSUME DefInv, PullPath, PullInv, Next
  PROVE  PullInv'
<1>0. TypeOK /\ Past
  BY DEF DefInv
<1>1. /\ clock \in Nat \ {0}
      /\ \A r \in Rows : master[r] \in Nat /\ edge[r] \in Nat /\ edge[r] < clock
      /\ \A c \in manifest : c.ver \in Nat /\ c.row \in Rows /\ c.ver < clock
  BY <1>0, Versions DEF Past
<1>2. ASSUME NEW q \in Requests, NEW r \in Rows, Save(q, r)
      PROVE  PullInv'
  <2>1. /\ master' = [master EXCEPT ![r] = clock] /\ edge' = edge /\ manifest' = manifest
    BY <1>2 DEF Save, stores, pullVars
  <2>2. \A s \in Rows : master'[s] = IF s = r THEN clock ELSE master[s]
    BY <1>0, <2>1 DEF TypeOK
  <2>3. \A s \in Rows : master'[s] # 0 =>
          /\ edge[s] <= master'[s]
          /\ \A c \in manifest : c.row = s => c.ver <= master'[s]
    BY <1>1, <2>2 DEF PullInv
  <2>. QED BY <2>1, <2>3 DEF PullInv
<1>3. ASSUME NEW q \in Requests, NEW r \in Rows, Delete(q, r)
      PROVE  PullInv'
  <2>1. /\ master' = [master EXCEPT ![r] = 0] /\ edge' = edge /\ manifest' = manifest
    BY <1>3 DEF Delete, stores, pullVars
  <2>2. \A s \in Rows : master'[s] # 0 => master'[s] = master[s]
    BY <1>0, <2>1 DEF TypeOK
  <2>3. \A s \in Rows : master'[s] # 0 =>
          /\ edge[s] <= master'[s]
          /\ \A c \in manifest : c.row = s => c.ver <= master'[s]
    BY <2>2 DEF PullInv
  <2>. QED BY <2>1, <2>3 DEF PullInv
<1>4. CASE UNCHANGED <<master, edge, manifest>>
  BY <1>4 DEF PullInv
<1>5. ASSUME UNCHANGED <<master, edge>>, manifest' = {}
      PROVE  PullInv'
  BY <1>5 DEF PullInv
<1>6. ASSUME NEW w \in Workers, Write(w)
      PROVE  PullInv'
  <2>1. /\ UNCHANGED <<master, manifest>> /\ edge' = [edge EXCEPT ![job[w].row] = job[w].ver]
        /\ job[w] \in manifest
    BY <1>6, PullSteps DEF Write, Stored, masterVars, pullVars
  <2>2. \A s \in Rows : edge'[s] = IF s = job[w].row THEN job[w].ver ELSE edge[s]
    BY <1>0, <2>1 DEF TypeOK
  <2>3. \A c \in manifest : c.ver # 0 => edge'[c.row] <= c.ver
    BY <1>1, <2>1, <2>2 DEF PullInv
  <2>4. \A r \in Rows : master[r] # 0 => edge'[r] <= master[r]
    BY <1>1, <2>1, <2>2 DEF PullInv
  <2>. QED BY <2>1, <2>3, <2>4 DEF PullInv
<1>7. ASSUME Fetch(TRUE) \/ Fetch(FALSE)
      PROVE  PullInv'
  <2>1. PICK from \in Nat : manifest' = Manifest(from)
    BY <1>0, <1>7 DEF Fetch, TypeOK
  <2>2. UNCHANGED <<master, edge>>
    BY <1>7 DEF Fetch, masterVars, stores
  <2>3. \A c \in manifest' : c.row \in Rows /\ c.ver \in Nat
          /\ (c.ver = 0 \/ c.ver = master[c.row])
    <3>1. \A n \in Times : n \in Nat
      BY DefinitionAssumption DEF Times
    <3>. QED BY <2>1, <3>1, ManifestFields, ChangeFields
  <2>4. \A c \in manifest' : c.ver # 0 =>
          edge[c.row] <= c.ver /\ \A d \in manifest' : d.row = c.row => d.ver <= c.ver
    BY <1>1, <2>3 DEF PullInv
  <2>5. \A r \in Rows : master[r] # 0 =>
          edge[r] <= master[r] /\ \A c \in manifest' : c.row = r => c.ver <= master[r]
    BY <1>1, <2>3 DEF PullInv
  <2>. QED BY <2>2, <2>4, <2>5 DEF PullInv
<1>8. ASSUME NEW w \in Workers, Check(w) \/ Link(w) \/ Mark(w)
      PROVE  PullInv'
  BY <1>4, <1>8 DEF Check, Link, Mark, masterVars, stores, pullVars
<1>9. CASE NextStage
  BY <1>4, <1>5, <1>9 DEF NextStage, masterVars, stores
<1>10. CASE EdgeRestart
  BY <1>5, <1>10 DEF EdgeRestart, masterVars, stores
<1>11. CASE OutboxStep
  BY <1>4, <1>11, OutboxFrames DEF stores, pullVars
<1>12. CASE Deliver \/ NextItem \/ \E q \in Requests : ReadBack(q) \/ Enqueue(q)
  BY <1>4, <1>12 DEF Deliver, NextItem, ReadBack, Enqueue, masterVars, stores, pullVars
<1>. QED
  BY <1>2, <1>3, <1>6, <1>7, <1>8, <1>9, <1>10, <1>11, <1>12, StepKinds
     DEF PanelStep, EdgeStep, TaskStep

LEMMA TombsStep ==
  ASSUME DefInv, PullPath, "recreate" \notin Scope, TombsAreLast, Next
  PROVE  TombsAreLast'
<1>0. TypeOK /\ Past /\ PullInHand
  BY DEF DefInv
<1>1. /\ clock \in Nat \ {0}
      /\ \A c \in manifest : c.ver \in Nat /\ c.ver < clock
      /\ \A k \in processed : k.ver \in Nat /\ k.ver < clock
      /\ \A t \in tombs : t.row \in Rows
  BY <1>0, Versions, ChangeFields DEF Past, TypeOK
<1>2. ASSUME NEW q \in Requests, NEW r \in Rows, Save(q, r)
      PROVE  TombsAreLast'
  <2>1. ~Gone(r)
    <3>1. Gone(r) => master[r] = 0
      BY DEF TombsAreLast, Gone
    <3>. QED BY <1>2, <3>1 DEF Save, Happens
  <2>2. /\ master' = [master EXCEPT ![r] = clock] /\ clock' = clock + 1
        /\ UNCHANGED <<tombs, processed, manifest>>
    BY <1>2 DEF Save, stores, pullVars
  <2>3. \A t \in tombs : master'[t.row] = master[t.row] /\ t.ver \in 1..clock' - 1
    BY <1>0, <1>1, <2>1, <2>2 DEF Gone, TypeOK, TombsAreLast
  <2>. QED BY <2>2, <2>3 DEF TombsAreLast
<1>3. ASSUME NEW q \in Requests, NEW r \in Rows, Delete(q, r)
      PROVE  TombsAreLast'
  <2>1. /\ master' = [master EXCEPT ![r] = 0] /\ clock' = clock + 1
        /\ tombs' = tombs \cup {[row |-> r, ver |-> clock]}
        /\ UNCHANGED <<processed, manifest>>
    BY <1>3 DEF Delete, stores, pullVars
  <2>2. \A t \in tombs' :
          \/ t \in tombs
          \/ t.row = r /\ t.ver = clock
    BY <2>1
  <2>3. \A s \in Rows : master[s] = 0 => master'[s] = 0
    BY <1>0, <2>1 DEF TypeOK
  <2>4. master'[r] = 0
    BY <1>0, <2>1 DEF TypeOK
  <2>5. \A t \in tombs' : t.ver \in 1..clock' - 1 /\ master'[t.row] = 0
    BY <1>1, <2>1, <2>2, <2>3, <2>4 DEF TombsAreLast
  <2>6. \A t \in tombs' :
          /\ \A k \in processed : k.row = t.row => k.ver < t.ver
          /\ \A c \in manifest : c.row = t.row => c.ver < t.ver
    BY <1>1, <2>2 DEF TombsAreLast
  <2>. QED BY <2>1, <2>5, <2>6 DEF TombsAreLast
<1>4. CASE UNCHANGED <<master, tombs, clock, processed, manifest>>
  BY <1>4 DEF TombsAreLast
<1>5. ASSUME UNCHANGED <<master, tombs, clock, processed>>, manifest' = {}
      PROVE  TombsAreLast'
  BY <1>5 DEF TombsAreLast
<1>6. ASSUME NEW w \in Workers, Mark(w)
      PROVE  TombsAreLast'
  <2>1. /\ UNCHANGED <<master, tombs, clock, manifest>>
        /\ processed' = processed \cup {[via |-> w, row |-> job[w].row, ver |-> job[w].ver]}
        /\ job[w] \in manifest
    BY <1>6, PullSteps DEF Mark, KeyOf, masterVars, pullVars
  <2>2. \A k \in processed' : k \in processed \/ (k.row = job[w].row /\ k.ver = job[w].ver)
    BY <2>1
  <2>. QED BY <2>1, <2>2 DEF TombsAreLast
<1>7. ASSUME Fetch(TRUE) \/ Fetch(FALSE)
      PROVE  TombsAreLast'
  <2>1. PICK from \in Nat : manifest' = Manifest(from)
    BY <1>0, <1>7 DEF Fetch, TypeOK
  <2>2. UNCHANGED <<master, tombs, clock, processed>>
    BY <1>7 DEF Fetch, masterVars, stores
  <2>3. \A t \in tombs, c \in manifest' : c.row = t.row => c.ver = 0
    BY <2>1, ManifestFields DEF TombsAreLast
  <2>4. \A t \in tombs : 0 < t.ver
    BY <1>1 DEF TombsAreLast
  <2>. QED BY <2>2, <2>3, <2>4 DEF TombsAreLast
<1>8. ASSUME NEW w \in Workers, Check(w) \/ Write(w) \/ Link(w)
      PROVE  TombsAreLast'
  BY <1>4, <1>8 DEF Check, Write, Link, masterVars, stores, pullVars
<1>9. CASE NextStage
  BY <1>4, <1>5, <1>9 DEF NextStage, masterVars, stores
<1>10. CASE EdgeRestart
  BY <1>5, <1>10 DEF EdgeRestart, masterVars, stores
<1>11. CASE OutboxStep
  BY <1>4, <1>11, OutboxFrames DEF stores, pullVars
<1>12. CASE Deliver \/ NextItem \/ \E q \in Requests : ReadBack(q) \/ Enqueue(q)
  BY <1>4, <1>12 DEF Deliver, NextItem, ReadBack, Enqueue, masterVars, stores, pullVars
<1>. QED
  BY <1>2, <1>3, <1>6, <1>7, <1>8, <1>9, <1>10, <1>11, <1>12, StepKinds
     DEF PanelStep, EdgeStep, TaskStep

\* Tombstones stay.
LEMMA GoneStays ==
  ASSUME DefInv, Next, NEW r, Gone(r)
  PROVE  Gone(r)'
<1>1. tombs \subseteq tombs'
  BY StepKinds, OutboxFrames, EdgeFrames
     DEF PanelStep, Save, ReadBack, Enqueue, Delete, masterVars
<1>. QED BY <1>1 DEF Gone

LEMMA PullAppliedStep ==
  ASSUME DefInv, PullPath, "recreate" \notin Scope, PullInv, PullApplied, Written, Next
  PROVE  PullApplied'
<1>0. TypeOK /\ Past /\ PullInHand
  BY DEF DefInv
<1>1. TombsAreLast'
  BY TombsStep DEF PullApplied
<1>2. \A c \in manifest' : c.ver = 0 => Gone(c.row)'
  <2>1. CASE manifest' \in {manifest, {}}
    BY <2>1, GoneStays DEF PullApplied
  <2>2. ASSUME Fetch(TRUE) \/ Fetch(FALSE)
        PROVE  \A c \in manifest' : c.ver = 0 => Gone(c.row)'
    <3>1. PICK from \in Nat : manifest' = Manifest(from)
      BY <1>0, <2>2 DEF Fetch, TypeOK
    <3>. QED BY <3>1, ManifestFields, GoneStays
  <2>3. CASE PanelStep \/ OutboxStep
    BY <2>1, <2>3, PanelFrames, OutboxFrames DEF pullVars
  <2>4. CASE EdgeStep
    BY <2>1, <2>2, <2>4
       DEF EdgeStep, Deliver, TaskStep, Check, Write, Link, Mark, NextStage, NextItem,
           EdgeRestart, pullVars
  <2>. QED BY <2>3, <2>4, StepKinds
<1>3. \A k \in processed : edge'[k.row] >= k.ver \/ Gone(k.row)'
  <2> SUFFICES ASSUME NEW k \in processed
               PROVE  edge'[k.row] >= k.ver \/ Gone(k.row)'
    OBVIOUS
  <2>0. k.row \in Rows /\ k.ver \in Nat /\ edge[k.row] \in Nat
    BY <1>0, Versions
  <2>1. CASE Gone(k.row)
    BY <2>1, GoneStays
  <2>2. CASE ~Gone(k.row)
    <3>1. edge[k.row] >= k.ver
      BY <2>2 DEF PullApplied
    <3>2. CASE UNCHANGED edge
      BY <3>1, <3>2
    <3>3. ASSUME NEW w \in Workers, Write(w)
          PROVE  edge'[k.row] >= k.ver
      <4>1. job[w] \in manifest /\ edge' = [edge EXCEPT ![job[w].row] = job[w].ver]
        BY <3>3, PullSteps DEF Write, Stored
      <4>2. CASE k.row # job[w].row
        BY <1>0, <2>0, <3>1, <4>1, <4>2 DEF TypeOK
      <4>3. CASE k.row = job[w].row
        <5>1. job[w].ver # 0
          BY <2>2, <4>1, <4>3 DEF PullApplied
        <5>2. edge[k.row] <= job[w].ver /\ job[w].ver \in Nat
          BY <1>0, <4>1, <4>3, <5>1, Versions DEF PullInv
        <5>3. edge'[k.row] = job[w].ver
          BY <1>0, <2>0, <4>1, <4>3 DEF TypeOK
        <5>. QED BY <2>0, <3>1, <5>2, <5>3
      <4>. QED BY <4>2, <4>3
    <3>. QED BY <3>2, <3>3, WorkersStore DEF stores, TaskStep, Check, Link, Mark
  <2>. QED BY <2>1, <2>2
<1>4. \A k \in processed' : edge'[k.row] >= k.ver \/ Gone(k.row)'
  <2>1. CASE UNCHANGED processed
    BY <1>3, <2>1
  <2>2. ASSUME NEW w \in Workers, Mark(w)
        PROVE  \A k \in processed' : edge'[k.row] >= k.ver \/ Gone(k.row)'
    <3>1. pc[w] = "mark" /\ processed' = processed \cup {KeyOf(w)} /\ edge' = edge
      BY <2>2 DEF Mark
    <3>2. edge[job[w].row] = job[w].ver /\ job[w].ver \in Nat
      BY <3>1, JobOf, DefinitionAssumption DEF Written, Times
    <3>. QED BY <1>3, <3>1, <3>2 DEF KeyOf
  <2>. QED
    BY <2>1, <2>2, WorkersStore DEF stores, TaskStep, Check, Write, Link
<1>. QED BY <1>1, <1>2, <1>4 DEF PullApplied, Gone

-----------------------------------------------------------------------------
\* The queue never takes back what it brought, unless it came out of order.
QueueApplied ==
  \A k \in processed :
    k.row \in Forms /\ (edge[k.row] >= k.ver \/ OutOfOrder(EventsOf(k.row)))

LEMMA QueueStep ==
  ASSUME DefInv, OneRequest, QueuePath, QueueInv, Next
  PROVE  /\ QueueInv'
         /\ \A f \in Forms : edge'[f] >= edge[f] \/ OutOfOrder(EventsOf(f))
<1>1. LastChange'
  BY LastChangeStep DEF QueueInv
<1>2. \A r : OutOfOrder(EventsOf(r)) => OutOfOrder(EventsOf(r))'
  BY StaysOutOfOrder
<1>3. UNCHANGED edge => \A f \in Forms : edge'[f] >= edge[f]
  BY Versions DEF DefInv, Rows
<1>4. CASE PanelStep
  BY <1>1, <1>2, <1>3, <1>4, PanelQueue, PanelFrames DEF stores
<1>5. CASE OutboxStep
  BY <1>1, <1>2, <1>3, <1>5, SendingQueue, OutboxFrames DEF stores
<1>6. CASE EdgeStep
  BY <1>1, <1>2, <1>6, EdgeQueue
<1>. QED BY <1>4, <1>5, <1>6, StepKinds

LEMMA QueueAppliedStep ==
  ASSUME DefInv, OneRequest, QueuePath, QueueInv, QueueApplied, Written, Next
  PROVE  QueueApplied'
<1>0. TypeOK /\ PastWrite /\ AtHead
  BY DEF DefInv
<1>1. \A k \in processed : k.row \in Forms /\ k.ver \in Nat
  BY <1>0, Versions DEF QueueApplied
<1>2. \A r \in Forms : edge[r] \in Nat /\ edge'[r] \in Nat
  BY <1>0, Versions, NextDef DEF DefInv, TypeOK, Rows, Times
<1>3. \A k \in processed :
        k.row \in Forms /\ (edge'[k.row] >= k.ver \/ OutOfOrder(EventsOf(k.row))')
  BY <1>1, <1>2, QueueStep, StaysOutOfOrder DEF QueueApplied
<1>4. CASE UNCHANGED processed
  BY <1>3, <1>4 DEF QueueApplied
<1>5. ASSUME NEW w \in Workers, Mark(w)
      PROVE  QueueApplied'
  <2>1. pc[w] = "mark" /\ processed' = processed \cup {KeyOf(w)} /\ edge' = edge
    BY <1>5 DEF Mark
  <2>2. w = "consumer"
    BY <2>1 DEF DefInv, Unused, PullInHand, QueuePath, Workers
  <2>3. job[w].row \in Forms /\ edge[job[w].row] = job[w].ver /\ job[w].ver \in Nat
    BY <1>0, <2>1, <2>2, JobOf DEF AtHead, Valid, PastWrite, Written
  <2>. QED BY <1>3, <2>1, <2>3 DEF QueueApplied, KeyOf
<1>. QED
  BY <1>4, <1>5, WorkersStore DEF stores, TaskStep, Check, Write, Link
-----------------------------------------------------------------------------
\* What is the same without and with a row created again.
OrderInv ==
  /\ DefInv
  /\ QueuePath => QueueInv
  /\ PullPath => PullInv

AppliedInv ==
  /\ OrderInv
  /\ OnePath => Written
  /\ QueuePath => QueueApplied
  /\ PullPath => PullApplied

LEMMA InitOrder == Init => AppliedInv
<1> SUFFICES ASSUME Init
             PROVE  AppliedInv
  OBVIOUS
<1>1. DefInv
  BY InitDef
<1>2. Indices = {} /\ unsent = {} /\ DOMAIN attempts = {} /\ written = FALSE
  BY DEF Init, OutboxInit, Indices
<1>3. Upserts = {} /\ Handled = {}
  BY <1>2 DEF Upserts, Handled
<1>4. SendingInOrder(Upserts, Handled)
  BY <1>2, <1>3 DEF SendingInOrder, TriedIsSomewhere, WrittenIsSomewhere, SentIsSomewhere,
     UntriedIsNext, LineInOrder, HandledInOrder
<1>5. QueueInv /\ QueueApplied
  BY <1>2, <1>3, <1>4
     DEF Init, QueueInv, LogClimbs, LastChange, EdgeIsBehind, KeysOfLog, AtWork, QueueApplied,
         Workers
<1>6. PullInv /\ PullApplied
  BY DEF Init, PullInv, PullApplied, TombsAreLast
<1>7. Written
  BY DEF Init, Written
<1>. QED BY <1>1, <1>5, <1>6, <1>7 DEF AppliedInv, OrderInv

LEMMA NextOrder ==
  ASSUME OneRequest, OrderInv, [Next]_<<vars, transports>>
  PROVE  OrderInv'
<1>0. DefInv /\ DefInv'
  BY NextDef DEF OrderInv
<1>1. CASE Next
  <2>1. transports' = transports
    BY <1>1 DEF Next
  <2>2. QueuePath' => QueueInv'
    BY <1>0, <1>1, <2>1, QueueStep DEF OrderInv, QueuePath
  <2>3. PullPath' => PullInv'
    BY <1>0, <1>1, <2>1, PullInvStep DEF OrderInv, PullPath
  <2>. QED BY <1>0, <2>2, <2>3 DEF OrderInv
<1>2. CASE UNCHANGED <<vars, transports>>
  <2>1. UNCHANGED <<master, clock, announcing, events, edge, processed, pc, job, manifest,
                    outboxVars, transports>>
    BY <1>2 DEF vars, masterVars, sendVars, stores, tasks, pullVars
  <2>2. PullPath' => PullInv'
    BY <2>1 DEF OrderInv, PullPath, PullInv
  <2>3. ASSUME QueueInv
        PROVE  QueueInv'
    <3>1. /\ Upserts' = Upserts /\ Handled' = Handled /\ Held(Line)' = Held(Line)
          /\ Indices' = Indices /\ unsent' = unsent
      BY <2>1 DEF Upserts, Handled, KeyAt, Indices, Held, Line, outboxVars, flushVars, lineVars
    <3>2. SendingInOrder(Upserts, Handled)'
      <4>1. PICK S : S = Upserts
        OBVIOUS
      <4>2. PICK H : H = Handled
        OBVIOUS
      <4>3. SendingInOrder(S, H)'
        BY <2>1, <2>3, <4>1, <4>2, SameOrder DEF QueueInv
      <4>. QED BY <3>1, <4>1, <4>2, <4>3, OrderOfState
    <3>3. EdgeIsBehind'
      <4>1. \A f \in Forms : OutOfOrder(EventsOf(f)) => OutOfOrder(EventsOf(f))'
        BY <2>1 DEF OutOfOrder, Overtaken, EventsOf, Indices, outboxVars, flushVars, histories
      <4>. QED BY <2>1, <2>3, <3>1, <4>1 DEF QueueInv, EdgeIsBehind
    <3>4. LogClimbs' /\ LastChange' /\ KeysOfLog' /\ AtWork'
      BY <2>1, <2>3, <3>1
         DEF QueueInv, LogClimbs, LastChange, KeysOfLog, KeyAt, AtWork, KeyOf
    <3>. QED BY <3>2, <3>3, <3>4 DEF QueueInv
  <2>4. QueuePath' => QueueInv'
    BY <2>1, <2>3 DEF OrderInv, QueuePath
  <2>. QED BY <1>0, <2>2, <2>4 DEF OrderInv
<1>. QED BY <1>1, <1>2

LEMMA NextApplied ==
  ASSUME OneRequest, "recreate" \notin Scope, AppliedInv, [Next]_<<vars, transports>>
  PROVE  AppliedInv'
<1>0. OrderInv /\ DefInv /\ OrderInv'
  BY NextOrder DEF AppliedInv, OrderInv
<1>1. CASE Next
  <2>1. transports' = transports
    BY <1>1 DEF Next
  <2>2. OnePath' => Written'
    BY <1>0, <1>1, <2>1, WrittenStep DEF AppliedInv, OnePath
  <2>3. (QueuePath => OnePath) /\ (PullPath => OnePath)
    BY DEF QueuePath, PullPath, OnePath
  <2>5. QueuePath' => QueueApplied'
    BY <1>0, <1>1, <2>1, <2>3, QueueAppliedStep DEF AppliedInv, OrderInv, QueuePath
  <2>6. PullPath' => PullApplied'
    BY <1>0, <1>1, <2>1, <2>3, PullAppliedStep DEF AppliedInv, OrderInv, PullPath
  <2>. QED BY <1>0, <2>2, <2>5, <2>6 DEF AppliedInv
<1>2. CASE UNCHANGED <<vars, transports>>
  <2>1. UNCHANGED <<master, tombs, clock, events, late, dropped, attempts, edge, processed, pc,
                    job, manifest, transports>>
    BY <1>2 DEF vars, masterVars, sendVars, outboxVars, flushVars, histories, stores, tasks,
                pullVars
  <2>2. (OnePath' => Written') /\ (QueuePath' => QueueApplied')
    BY <2>1 DEF AppliedInv, OnePath, QueuePath, Written, QueueApplied, OutOfOrder, Overtaken,
                EventsOf, Indices
  <2>3. PullPath' => PullApplied'
    BY <2>1 DEF AppliedInv, PullPath, PullApplied, TombsAreLast, Gone
  <2>. QED BY <1>0, <2>2, <2>3 DEF AppliedInv
<1>. QED BY <1>1, <1>2

LEMMA AppliedIsProcessed == AppliedInv => ProcessedIsApplied
<1> SUFFICES ASSUME AppliedInv, OnePath, NEW k \in processed
             PROVE  \/ edge[k.row] >= k.ver
                    \/ \E t \in tombs : t.row = k.row /\ t.ver > k.ver
                    \/ OutOfOrder(EventsOf(k.row))
  BY DEF ProcessedIsApplied
<1>1. DefInv /\ TypeOK
  BY DEF AppliedInv, OrderInv, DefInv
<1>2. CASE QueuePath
  BY <1>2 DEF AppliedInv, QueueApplied
<1>3. CASE PullPath
  <2>1. TombsAreLast /\ (edge[k.row] >= k.ver \/ Gone(k.row))
    BY <1>3 DEF AppliedInv, PullApplied
  <2>2. k.ver \in Nat /\ clock \in Nat /\ \A t \in tombs : t.ver \in 1..clock - 1
    BY <1>1, <2>1, Versions DEF TombsAreLast
  <2>3. ASSUME NEW t \in tombs, t.row = k.row
        PROVE  t.ver > k.ver
    BY <2>1, <2>2, <2>3 DEF TombsAreLast
  <2>. QED BY <2>1, <2>3 DEF Gone
<1>. QED BY <1>1, <1>2, <1>3, OneWorks

LEMMA NoStepBack ==
  ASSUME OneRequest, OrderInv, [Next]_<<vars, transports>>, OnePath, NEW f \in Forms,
         edge'[f] # 0, ~OutOfOrder(EventsOf(f))
  PROVE  edge'[f] >= edge[f]
<1>0. DefInv /\ TypeOK
  BY DEF OrderInv, DefInv
<1>1. f \in Rows /\ edge[f] \in Nat
  BY <1>0, Versions DEF Rows
<1>2. CASE UNCHANGED edge
  BY <1>1, <1>2
<1>3. CASE Next /\ QueuePath
  BY <1>0, <1>3, QueueStep DEF OrderInv
<1>4. CASE Next /\ PullPath
  <2>1. ASSUME NEW w \in Workers, Write(w)
        PROVE  edge'[f] >= edge[f]
    <3>1. job[w] \in manifest /\ edge' = [edge EXCEPT ![job[w].row] = job[w].ver]
      BY <1>0, <1>4, <2>1, PullSteps DEF Write, Stored
    <3>2. job[w].ver \in Nat /\ (job[w].ver # 0 => edge[job[w].row] <= job[w].ver)
      BY <1>0, <1>4, <3>1, Versions DEF OrderInv, PullInv
    <3>. QED BY <1>0, <1>1, <3>1, <3>2 DEF TypeOK
  <2>. QED BY <1>0, <1>2, <1>4, <2>1, WorkersStore DEF stores, TaskStep, Check, Link, Mark
<1>. QED BY <1>0, <1>2, <1>3, <1>4, OneWorks DEF vars, stores

(***************************************************************************)
(* For any forms, products, settings, number of changes and failures of    *)
(* the outbox: where one request of the panel runs at a time and no row is *)
(* created again, a key is recorded as processed only when the edge has    *)
(* that definition or a later one, when the row was deleted since, or when *)
(* the row's events came out of order.                                     *)
(***************************************************************************)
THEOREM ProcessedAreApplied ==
  ASSUME OneRequest, "recreate" \notin Scope
  PROVE  Spec => []ProcessedIsApplied
<1>1. Init /\ [][Next]_<<vars, transports>> => []AppliedInv
  BY InitOrder, NextApplied, PTL
<1>. QED BY <1>1, AppliedIsProcessed, PTL DEF Spec

(***************************************************************************)
(* The same, with rows created again or not: with one transport a form the *)
(* edge keeps never goes back to an older definition, unless its events    *)
(* came out of order.                                                      *)
(***************************************************************************)
THEOREM FormsNeverRegress ==
  ASSUME OneRequest
  PROVE  Spec => FormNeverRegresses
<1>1. Init => OrderInv
  BY InitOrder DEF AppliedInv
<1>2. Init /\ [][Next]_<<vars, transports>> => []OrderInv
  BY <1>1, NextOrder, PTL
<1>3. OrderInv /\ [Next]_<<vars, transports>> =>
        [OnePath => \A f \in Forms :
           edge'[f] # 0 /\ ~OutOfOrder(EventsOf(f)) => edge'[f] >= edge[f]]_vars
  BY NoStepBack
<1>. QED BY <1>2, <1>3, PTL DEF Spec, FormNeverRegresses
=============================================================================
