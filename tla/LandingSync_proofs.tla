-------------------------- MODULE LandingSync_proofs --------------------------
(***************************************************************************)
(* Proofs about LandingSync for any landings, packages, requests, number   *)
(* of changes and failures, and with either path or both.                  *)
(***************************************************************************)
EXTENDS LandingSync, MasterOutbox_proofs

LEMMA MessagesAreMessages ==
  ASSUME NEW s \in Slugs
  PROVE  /\ \A v \in Times : \A k \in Checksum :
              Confirmed(s, v, k) \in Message /\ Resent(s, v, k) \in Message
         /\ \A v \in Nat : Deletion(s, v) \in Message
<1> USE DeployAssumption DEF Message, Kinds, Times, Checksum
<1>1. \A v \in Times : \A k \in Checksum : Confirmed(s, v, k) \in Message
  BY DEF Confirmed
<1>2. \A v \in Times : \A k \in Checksum : Resent(s, v, k) \in Message
  BY DEF Resent
<1>3. \A v \in Nat : Deletion(s, v) \in Message
  BY DEF Deletion
<1>. QED BY <1>1, <1>2, <1>3

LEMMA ListedAreMessages ==
  ASSUME DeployTypeOK, NEW from \in Nat
  PROVE  Listed(from) \subseteq Message /\ Tombstoned(from) \subseteq Slugs
<1>1. \A s \in Slugs : landing[s] # None =>
        landing[s].ver \in Times /\ landing[s].sum \in Checksum
  BY DEF DeployTypeOK, LandingRow
<1>2. Listed(from) \subseteq Message
  BY <1>1, MessagesAreMessages DEF Listed
<1>3. Tombstoned(from) \subseteq Slugs
  BY DEF DeployTypeOK, Tombstoned
<1>. QED BY <1>2, <1>3
-----------------------------------------------------------------------------
(***************************************************************************)
(* Types of the master's requests.                                         *)
(***************************************************************************)
LEMMA BeginTypeOK ==
  ASSUME DeployTypeOK, NEW r \in Requests, Admin(r)
  PROVE  DeployTypeOK'
<1> USE DeployAssumption
    DEF DeployTypeOK, deployTables, Begin, At, Checksum
<1>1. ASSUME NEW s \in Slugs, NEW k \in Packages, BeginConfirm(r, s, k)
      PROVE  DeployTypeOK'
  BY <1>1 DEF BeginConfirm
<1>2. ASSUME NEW s \in Slugs, BeginResend(r, s)
      PROVE  DeployTypeOK'
  BY <1>2 DEF BeginResend
<1>3. ASSUME NEW s \in Slugs, BeginDelete(r, s)
      PROVE  DeployTypeOK'
  BY <1>3 DEF BeginDelete
<1>. QED BY <1>1, <1>2, <1>3 DEF Admin

LEMMA NewArg ==
  ASSUME NEW a \in [slug : Slugs, sum : Checksum \cup {None}, ver : Nat],
         NEW v \in Times, NEW k \in Checksum
  PROVE  LET new == [a EXCEPT !.ver = v, !.sum = k]
         IN  /\ new \in [slug : Slugs, sum : Checksum \cup {None}, ver : Nat]
             /\ new.slug \in Slugs /\ new.sum # None /\ new.ver # 0
  BY DeployAssumption DEF Times, Checksum

(* The argument of a request that runs. *)
LEMMA RunningArg ==
  ASSUME DeployTypeOK, NEW r \in Requests, step[r] # "idle"
  PROVE  /\ arg[r] \in [slug : Slugs, sum : Checksum \cup {None}, ver : Nat]
         /\ arg[r].slug \in Slugs
         /\ landing[arg[r].slug] # None =>
              landing[arg[r].slug] \in LandingRow
  BY DeployAssumption DEF DeployTypeOK, NoArg

(* A committed change leaves the tables well typed. *)
LEMMA ChangeTypeOK ==
  ASSUME DeployTypeOK, NEW r \in Requests, NEW s \in Slugs,
         NEW row \in LandingRow \cup {None}, NEW m \in Message,
         SetRow(s, row), Announce(m), clock' = clock + 1
  PROVE  /\ landing' \in [Slugs -> LandingRow \cup {None}]
         /\ events' \in Seq(Message)
         /\ clock' \in Times
  BY DEF DeployTypeOK, SetRow, Announce, Times

LEMMA StepTypeOK ==
  ASSUME DeployTypeOK, NEW r \in Requests, DeployStep(r)
  PROVE  DeployTypeOK'
<1>1. CASE ReadVersion(r)
  <2>1. NextVersion(landing[arg[r].slug]) \in Times
    BY <1>1, RunningArg DEF ReadVersion, NextVersion, LandingRow, Times
  <2>. QED
    BY <1>1, <2>1, RunningArg
       DEF ReadVersion, DeployTypeOK, deployTables, At, Times
<1>2. CASE Publish(r)
  <2> DEFINE a == arg[r]
  <2>1. a.slug \in Slugs /\ a.ver \in Times /\ a.sum \in Checksum
    BY <1>2, RunningArg DEF Publish, DeployTypeOK, Times
  <2>2. Confirmed(a.slug, a.ver, a.sum) \in Message
    BY <2>1, MessagesAreMessages
  <2>3. Row(a.ver, a.sum) \in LandingRow
    BY <2>1 DEF DeployTypeOK, Row, LandingRow
  <2>4. /\ landing' \in [Slugs -> LandingRow \cup {None}]
        /\ events' \in Seq(Message)
        /\ clock' \in Times
        /\ tombs' = tombs
    BY <1>2, <2>1, <2>2, <2>3, ChangeTypeOK
       DEF Publish, deployTables, DeployTypeOK
  <2>. QED BY <1>2, <2>4 DEF Publish, DeployTypeOK, End, At
<1>3. CASE Rebuild(r)
  <2>1. landing[arg[r].slug] # None => landing[arg[r].slug].ver \in Times
    BY <1>3, RunningArg DEF Rebuild, LandingRow
  <2>2. clock \in Checksum \ {None} /\ clock + 1 \in Times
    BY DeployAssumption DEF DeployTypeOK, Times, Checksum
  <2>3. CASE landing[arg[r].slug] = None \/ site[arg[r].slug] = None
    BY <1>3, <2>3 DEF Rebuild, DeployTypeOK, End, At
  <2>4. CASE ~(landing[arg[r].slug] = None \/ site[arg[r].slug] = None)
    <3> DEFINE new == [arg[r] EXCEPT !.ver = landing[arg[r].slug].ver + 1,
                                     !.sum = clock]
    <3>1. /\ new \in [slug : Slugs, sum : Checksum \cup {None}, ver : Nat]
          /\ new.slug \in Slugs /\ new.sum # None /\ new.ver # 0
      <4>1. arg[r] \in [slug : Slugs, sum : Checksum \cup {None}, ver : Nat]
        BY <1>3, RunningArg DEF Rebuild
      <4>2. landing[arg[r].slug].ver + 1 \in Times /\ clock \in Checksum
        BY <2>1, <2>2, <2>4 DEF Times
      <4>. QED BY <4>1, <4>2, NewArg
    <3>2. arg' = [arg EXCEPT ![r] = new]
      BY <1>3, <2>4, Zenon DEF Rebuild
    <3>3. /\ site' = [site EXCEPT ![arg[r].slug] = clock]
          /\ clock' = clock + 1
          /\ At(r, "rebuild")
          /\ UNCHANGED <<landing, events, tombs, begun>>
      BY <1>3, <2>4 DEF Rebuild
    <3> HIDE DEF new
    <3>. QED
      BY <2>2, <3>1, <3>2, <3>3 DEF DeployTypeOK, At
  <2>. QED BY <2>3, <2>4
<1>4. CASE Republish(r)
  <2> DEFINE a == arg[r]
  <2>1. a.slug \in Slugs /\ a.ver \in Times /\ a.sum \in Checksum
    BY <1>4, RunningArg DEF Republish, DeployTypeOK, Times
  <2>2. Resent(a.slug, a.ver, a.sum) \in Message
    BY <2>1, MessagesAreMessages
  <2>3. Row(a.ver, a.sum) \in LandingRow
    BY <2>1 DEF DeployTypeOK, Row, LandingRow
  <2>4. /\ landing' \in [Slugs -> LandingRow \cup {None}]
        /\ events' \in Seq(Message)
        /\ clock' \in Times
        /\ tombs' = tombs
    BY <1>4, <2>1, <2>2, <2>3, ChangeTypeOK
       DEF Republish, deployTables, DeployTypeOK
  <2>. QED BY <1>4, <2>4 DEF Republish, DeployTypeOK, End, At
<1>5. CASE FindLanding(r)
  BY <1>5 DEF FindLanding, DeployTypeOK, deployTables, End, At
<1>6. CASE DeleteRow(r)
  <2> DEFINE s == arg[r].slug
  <2>1. s \in Slugs
    BY <1>6, RunningArg DEF DeleteRow
  <2>2. Deletion(s, clock) \in Message /\ clock \in Times
    BY <2>1, MessagesAreMessages DEF DeployTypeOK, Times
  <2>3. /\ landing' \in [Slugs -> LandingRow \cup {None}]
        /\ events' \in Seq(Message)
        /\ clock' \in Times
        /\ tombs' \subseteq [slug : Slugs, at : Times]
    BY <1>6, <2>1, <2>2, ChangeTypeOK DEF DeleteRow, deployTables, DeployTypeOK
  <2>. QED BY <1>6, <2>3 DEF DeleteRow, DeployTypeOK, End, At
<1>7. CASE CleanSite(r)
  BY <1>7 DEF CleanSite, DeployTypeOK, deployTables, End, At
<1>. QED BY <1>1, <1>2, <1>3, <1>4, <1>5, <1>6, <1>7 DEF DeployStep

(* Events are only added. *)
LEMMA EventsGrow ==
  ASSUME DeployTypeOK, NEW r \in Requests, Admin(r) \/ DeployStep(r)
  PROVE  /\ Len(events') >= Len(events)
         /\ \A i \in 1..Len(events) : events'[i] = events[i]
<1>1. events' = events \/ \E m : events' = Append(events, m)
  BY DEF Admin, DeployStep, BeginConfirm, BeginResend, BeginDelete, ReadVersion,
         Publish, Rebuild, Republish, FindLanding, DeleteRow, CleanSite,
         deployTables, Announce
<1>. QED BY <1>1 DEF DeployTypeOK
-----------------------------------------------------------------------------
(***************************************************************************)
(* Types of the edge's tasks and of its pull.                              *)
(***************************************************************************)
LEMMA RunningJob ==
  ASSUME EdgeTypeOK, NEW t \in Tasks, pc[t] # "idle"
  PROVE  /\ job[t] \in Message
         /\ Slug(t) \in Slugs
         /\ job[t].kind # "delete" =>
              job[t].ver \in Times /\ job[t].sum \in Checksum
  BY DEF EdgeTypeOK, Slug, Message, Times

LEMMA TaskTypeOK ==
  ASSUME EdgeTypeOK, NEW t \in Tasks, TaskStep(t)
  PROVE  EdgeTypeOK'
<1> USE DEF EdgeTypeOK, Goto, stores, pullVars
<1>1. CASE Check(t)
  BY <1>1 DEF Check
<1>2. CASE Compare(t)
  BY <1>2 DEF Compare
<1>3. CASE Lock(t)
  BY <1>3, RunningJob DEF Lock
<1>4. CASE Downloaded(t)
  BY <1>4, RunningJob DEF Downloaded
<1>5. CASE Store(t)
  BY <1>5, RunningJob DEF Store, Local
<1>6. CASE Find(t)
  BY <1>6 DEF Find
<1>7. CASE Drop(t)
  BY <1>7, RunningJob DEF Drop
<1>8. CASE Remove(t)
  BY <1>8, RunningJob DEF Remove, Remaining
<1>9. CASE Mark(t)
  BY <1>9, RunningJob DEF Mark
<1>. QED BY <1>1, <1>2, <1>3, <1>4, <1>5, <1>6, <1>7, <1>8, <1>9 DEF TaskStep

LEMMA DownloadTypeOK ==
  ASSUME EdgeTypeOK, NEW t \in Tasks,
         DownloadFails(t, "failed") \/ DownloadFails(t, "corrupt")
  PROVE  EdgeTypeOK'
  BY DEF EdgeTypeOK, DownloadFails, Goto, stores, pullVars

LEMMA PullTypeOK ==
  ASSUME EdgeTypeOK, PullStep
  PROVE  EdgeTypeOK'
<1> USE DEF EdgeTypeOK, Goto, stores, taskVars, pullVars, Start, Stop
<1>1. CASE Reap
  <2> PICK s \in todo : /\ Start(Reaper, Deletion(s, 0), "find")
                        /\ todo' = todo \ {s}
    BY <1>1 DEF Reap
  <2>1. mode # "apply" /\ s \in Slugs
    BY <1>1 DEF Reap
  <2>2. Deletion(s, 0) \in Message
    BY <2>1, MessagesAreMessages
  <2>3. UNCHANGED <<stores, locks, tries, mode, full, items, since>>
    BY <1>1 DEF Reap
  <2>. QED BY <2>1, <2>2, <2>3 DEF Tasks
<1>2. CASE Reaped
  BY <1>2 DEF Reaped
<1>3. CASE BeginItems
  BY <1>3 DEF BeginItems
<1>4. CASE EndItems
  BY <1>4 DEF EndItems, Unlisted
<1>5. CASE EndPull
  BY <1>5 DEF EndPull
<1>6. ASSUME NEW s \in Slugs, StartItem(s)
      PROVE  EdgeTypeOK'
  BY <1>6 DEF StartItem, Tasks
<1>7. ASSUME NEW s \in Slugs, ItemEnds(s)
      PROVE  EdgeTypeOK'
  BY <1>7 DEF ItemEnds, Tasks
<1>. QED BY <1>1, <1>2, <1>3, <1>4, <1>5, <1>6, <1>7 DEF PullStep

LEMMA FetchTypeOK ==
  ASSUME DeployTypeOK, EdgeTypeOK, NEW isFull \in BOOLEAN, Fetch(isFull)
  PROVE  EdgeTypeOK'
<1> DEFINE start == IF isFull THEN 0 ELSE since
<1>1. start \in Nat
  BY DEF EdgeTypeOK
<1>2. items' \subseteq Message /\ todo' \subseteq Slugs
  BY <1>1, ListedAreMessages DEF Fetch
<1>3. since' \in Nat
  BY DEF Fetch, EdgeTypeOK, DeployTypeOK, Times
<1>. QED BY <1>2, <1>3 DEF Fetch, EdgeTypeOK, stores, taskVars
-----------------------------------------------------------------------------
(***************************************************************************)
(* Types of the whole.                                                     *)
(***************************************************************************)
LEMMA InitTypeOK == Init => TypeOK
<1> SUFFICES ASSUME Init PROVE TypeOK
  OBVIOUS
<1>1. DeployTypeOK
  <2>1. events \in Seq(Message)
    BY DEF Init, OutboxInit
  <2>. QED BY <2>1, DeployAssumption DEF Init, DeployInit, DeployTypeOK, Times
<1>2. EdgeTypeOK
  BY DEF Init, EdgeInit, EdgeTypeOK
<1>3. OutboxTypeOK
  BY InitOutboxTypeOK DEF Init
<1>. QED
  BY <1>1, <1>2, <1>3, SyncAssumption DEF Init, TypeOK

(* The steps of the outbox, a crash of the master, and all others. *)
LEMMA OutboxFrames ==
  ASSUME OutboxAct \/ MasterCrash
  PROVE  /\ UNCHANGED <<events, landing, site, tombs, clock, begun, edgeVars, spoilt>>
         /\ \/ StartFlush \/ Send \/ MarkSent \/ PublishFails \/ MarkFails
            \/ BrokerAccepts \/ LinkLost \/ MasterStops
         /\ queue' = queue \/ BrokerAccepts
         /\ OutboxAct => UNCHANGED deployVars
         /\ MasterCrash => MasterStops /\ RequestsEnd
<1>1. CASE OutboxAct
  <2>1. /\ UNCHANGED <<landing, site, tombs, clock, begun, step, arg, edgeVars, spoilt>>
        /\ \/ StartFlush \/ Send \/ MarkSent \/ PublishFails \/ MarkFails
           \/ BrokerAccepts \/ LinkLost
    BY <1>1 DEF OutboxAct
  <2>2. UNCHANGED events /\ (queue' = queue \/ BrokerAccepts)
    BY <2>1 DEF StartFlush, Send, MarkSent, PublishFails, MarkFails, LinkLost,
                BrokerAccepts, lineVars
  <2>3. MasterCrash => MasterStops /\ RequestsEnd
    BY DEF MasterCrash
  <2>. QED BY <2>1, <2>2, <2>3 DEF deployVars
<1>2. CASE MasterCrash
  <2>1. OutboxAct => UNCHANGED deployVars
    BY DEF OutboxAct, StartFlush, Send, MarkSent, PublishFails, MarkFails, LinkLost,
           BrokerAccepts, deployVars
  <2>. QED BY <1>2, <2>1 DEF MasterCrash, MasterStops, RequestsEnd
<1>. QED BY <1>1, <1>2

LEMMA OtherFrames ==
  ASSUME [Next]_vars, ~MasterAct, ~OutboxAct, ~MasterCrash
  PROVE  /\ UNCHANGED deployVars
         /\ ~Settle => UNCHANGED <<outboxVars, spoilt>>
  BY DEF Next, vars, Deliver, Settle, EdgeAct, Pull, DownloadLost, EdgeCrash

(* A request writes at most one event, at the end of the log. *)
LEMMA MasterFrames ==
  ASSUME TypeOK, MasterAct
  PROVE  /\ UNCHANGED <<edgeVars, attempts, batch, written, lineVars, histories, spoilt, faults>>
         /\ IF UseAmqp THEN Pending ELSE UNCHANGED unsent
         /\ DeployTypeOK'
         /\ Len(events) \in Nat /\ Len(events') \in Nat /\ Len(events) <= Len(events')
         /\ \A i \in 1..Len(events) : events'[i] = events[i]
         /\ Indices \subseteq Indices'
<1> PICK r \in Requests : Admin(r) \/ DeployStep(r)
  BY DEF MasterAct
<1>1. DeployTypeOK /\ DeployTypeOK'
  BY BeginTypeOK, StepTypeOK DEF TypeOK
<1>2. /\ Len(events) \in Nat /\ Len(events') \in Nat /\ Len(events) <= Len(events')
      /\ \A i \in 1..Len(events) : events'[i] = events[i]
  BY <1>1, EventsGrow DEF DeployTypeOK
<1>3. Indices \subseteq Indices'
  BY <1>2 DEF Indices
<1>. QED BY <1>1, <1>2, <1>3 DEF MasterAct

LEMMA RequestsEndTypeOK == DeployTypeOK /\ UNCHANGED events /\ RequestsEnd => DeployTypeOK'
  BY DEF DeployTypeOK, RequestsEnd

(* The consumer acks the head of its queue: there has to be one. *)
LEMMA NextTypeOK == TypeOK /\ ConsumerAtHead /\ [Next]_vars => TypeOK'
<1> SUFFICES ASSUME TypeOK, ConsumerAtHead, [Next]_vars
             PROVE  TypeOK'
  OBVIOUS
<1> USE SyncAssumption DEF TypeOK, Fault
<1>0. Len(events) \in Nat
  BY DEF DeployTypeOK
<1>a. UNCHANGED deployVars => DeployTypeOK' /\ events' = events
  BY DEF deployVars, DeployTypeOK
<1>b. UNCHANGED edgeVars => EdgeTypeOK'
  BY DEF edgeVars, stores, taskVars, pullVars, EdgeTypeOK
<1>c. UNCHANGED <<events, outboxVars>> => OutboxTypeOK'
  BY DEF OutboxTypeOK, outboxVars, flushVars, lineVars, histories, Indices, Sendable, Attempts
<1>1. CASE MasterAct
  <2>1. OutboxTypeOK'
    BY <1>1, MasterFrames, AnnouncedKeepsTypes
  <2>. QED BY <1>1, <1>b, <2>1, MasterFrames
<1>2. CASE OutboxAct \/ MasterCrash
  <2>1. OutboxTypeOK'
    BY <1>0, <1>2, OutboxFrames, OutboxKeepsTypes
  <2>2. DeployTypeOK' /\ EdgeTypeOK' /\ spoilt' = spoilt
    BY <1>2, <1>a, <1>b, OutboxFrames, RequestsEndTypeOK
  <2>3. faults' \in 0..FaultBound
    BY <1>2 DEF OutboxAct, MasterCrash
  <2>. QED BY <2>1, <2>2, <2>3
<1>4. CASE Deliver
  <2>1. events[Head(queue)] \in Message
    <3>1. Head(queue) \in 1..Len(events)
      BY <1>4 DEF Deliver, OutboxTypeOK, Indices
    <3>. QED BY <3>1 DEF DeployTypeOK
  <2>2. EdgeTypeOK'
    BY <1>4, <2>1
       DEF Deliver, EdgeTypeOK, Start, Goto, stores, pullVars, Tasks
  <2>. QED BY <1>4, <1>a, <1>c, <2>2 DEF Deliver
<1>5. CASE Settle
  <2>1. EdgeTypeOK'
    BY <1>5 DEF Settle, EdgeTypeOK, Stop, Goto, stores, pullVars, Tasks
  <2>2. pc[Consumer] = "corrupt" => job[Consumer] \in Message
    BY DEF EdgeTypeOK, Tasks
  <2>3. queue # <<>>
    BY <1>5 DEF Settle, Ended, ConsumerAtHead
  <2>4. spoilt' \subseteq Message
    BY <1>5, <2>2 DEF Settle
  <2>5. UNCHANGED <<events, unsent, attempts, batch, written, wire, late, dropped>>
    BY <1>5 DEF Settle, deployVars, flushVars, histories
  <2>6. queue' \in Seq(Indices)
    BY <1>5, <2>3 DEF Settle, OutboxTypeOK
  <2>7. OutboxTypeOK'
    BY <2>5, <2>6 DEF OutboxTypeOK, Indices, Sendable, Attempts
  <2>. QED BY <1>5, <1>a, <2>1, <2>4, <2>7 DEF Settle
<1>6. CASE EdgeAct
  BY <1>6, <1>a, <1>c, TaskTypeOK, PullTypeOK DEF EdgeAct
<1>7. ASSUME NEW isFull \in BOOLEAN, Pull(isFull)
      PROVE  TypeOK'
  BY <1>7, <1>a, <1>c, FetchTypeOK DEF Pull
<1>8. CASE DownloadLost
  BY <1>8, <1>a, <1>c, DownloadTypeOK DEF DownloadLost
<1>9. CASE EdgeCrash
  <2>1. EdgeTypeOK'
    BY <1>9 DEF EdgeCrash, EdgeRestart, EdgeTypeOK, stores
  <2>. QED BY <1>9, <1>a, <1>c, <2>1 DEF EdgeCrash
<1>10. CASE UNCHANGED vars
  BY <1>10, <1>a, <1>b, <1>c DEF vars
<1>. QED
  BY <1>1, <1>2, <1>4, <1>5, <1>6, <1>7, <1>8, <1>9, <1>10 DEF Next
-----------------------------------------------------------------------------
(***************************************************************************)
(* The lock.  A task step is the only one that takes it, and only when it  *)
(* is free; it is released with the step out of download or store.         *)
(***************************************************************************)
LEMMA SameApplying ==
  ASSUME OneApplier, UNCHANGED locks,
         \A t \in Tasks : pc'[t] \in {"download", "store"} =>
           pc[t] \in {"download", "store"} /\ job'[t] = job[t],
         \A t \in Tasks : pc[t] \in {"download", "store"} =>
           pc'[t] \in {"download", "store"} /\ job'[t] = job[t]
  PROVE  OneApplier'
<1>1. \A s \in Slugs : Applying(s)' = Applying(s)
  BY DEF Applying, Slug
<1>. QED BY <1>1, Zenon DEF OneApplier

(* A task that has the lock of its slug gives it back. *)
LEMMA Released ==
  ASSUME EdgeTypeOK, OneApplier, NEW t \in Tasks, NEW st \in {"mark", "failed", "corrupt"},
         pc[t] \in {"download", "store"}, Goto(t, st), UNCHANGED job,
         locks' = locks \ {Slug(t)}
  PROVE  OneApplier'
<1>1. \A s \in Slugs : Applying(s)' = Applying(s) \ {t}
  BY DEF EdgeTypeOK, Applying, Slug, Goto
<1>2. Slug(t) \in Slugs /\ t \in Applying(Slug(t))
  BY RunningJob DEF Applying
<1>3. \A s \in Slugs : s # Slug(t) => t \notin Applying(s)
  BY DEF Applying
<1>4. \A u \in Applying(Slug(t)) : u = t
  BY <1>2 DEF OneApplier
<1>5. \A s \in Slugs : s \in locks' <=> Applying(s)' # {}
  <2>1. ASSUME NEW s \in Slugs, s # Slug(t)
        PROVE  s \in locks' <=> Applying(s)' # {}
    BY <1>1, <1>3, <2>1 DEF OneApplier
  <2>2. ASSUME NEW s \in Slugs, s = Slug(t)
        PROVE  s \in locks' <=> Applying(s)' # {}
    BY <1>1, <1>2, <1>4, <2>2
  <2>. QED BY <2>1, <2>2
<1>6. \A s \in Slugs : \A u, v \in Applying(s)' : u = v
  BY <1>1 DEF OneApplier
<1>. QED BY <1>5, <1>6 DEF OneApplier

LEMMA TaskLock ==
  ASSUME EdgeTypeOK, OneApplier, NEW t \in Tasks, TaskStep(t)
  PROVE  OneApplier'
<1> USE DEF EdgeTypeOK, Goto, stores, pullVars
<1>1. CASE Check(t) \/ Compare(t) \/ Find(t) \/ Drop(t) \/ Remove(t) \/ Mark(t)
  BY <1>1, SameApplying DEF Check, Compare, Find, Drop, Remove, Mark
<1>2. CASE Lock(t)
  <2>1. CASE pc'[t] = "mark"
    BY <1>2, <2>1, SameApplying DEF Lock
  <2>2. CASE pc'[t] # "mark"
    <3>1. /\ pc' = [pc EXCEPT ![t] = "download"]
          /\ locks' = locks \cup {Slug(t)}
          /\ Slug(t) \notin locks
          /\ pc[t] = "lock" /\ job' = job
      BY <1>2, <2>2 DEF Lock, Locked
    <3>2. Slug(t) \in Slugs
      BY <3>1, RunningJob
    <3>3. \A s \in Slugs :
            Applying(s)' = IF s = Slug(t) THEN Applying(s) \cup {t} ELSE Applying(s)
      BY <3>1 DEF Applying, Slug
    <3>4. Applying(Slug(t)) = {}
      BY <3>1, <3>2 DEF OneApplier
    <3>5. \A s \in Slugs : s \in locks' <=> Applying(s)' # {}
      <4>1. ASSUME NEW s \in Slugs, s # Slug(t)
            PROVE  s \in locks' <=> Applying(s)' # {}
        BY <3>1, <3>3, <4>1 DEF OneApplier
      <4>2. ASSUME NEW s \in Slugs, s = Slug(t)
            PROVE  s \in locks' <=> Applying(s)' # {}
        BY <3>1, <3>3, <4>2
      <4>. QED BY <4>1, <4>2
    <3>6. \A s \in Slugs : \A u, v \in Applying(s)' : u = v
      BY <3>3, <3>4 DEF OneApplier
    <3>. QED BY <3>5, <3>6 DEF OneApplier
  <2>. QED BY <2>1, <2>2
<1>3. CASE Downloaded(t)
  BY <1>3, SameApplying DEF Downloaded
<1>4. CASE Store(t)
  BY <1>4, Released DEF Store
<1>. QED BY <1>1, <1>2, <1>3, <1>4 DEF TaskStep

LEMMA NextLock == TypeOK /\ OneApplier /\ [Next]_vars => OneApplier'
<1> SUFFICES ASSUME TypeOK, OneApplier, [Next]_vars
             PROVE  OneApplier'
  OBVIOUS
<1> USE DEF TypeOK, Goto
<1>1. CASE UNCHANGED edgeVars
  BY <1>1, SameApplying DEF edgeVars, taskVars
<1>2. CASE Deliver \/ Settle
  BY <1>2, SameApplying
     DEF Deliver, Settle, Start, Stop, Ended, EdgeTypeOK
<1>3. ASSUME NEW t \in Tasks, TaskStep(t)
      PROVE  OneApplier'
  BY <1>3, TaskLock
<1>4. CASE PullStep
  BY <1>4, SameApplying
     DEF PullStep, Reap, Reaped, BeginItems, StartItem, ItemEnds, EndItems,
         EndPull, Start, Stop, Ended, EdgeTypeOK, taskVars
<1>5. ASSUME NEW isFull \in BOOLEAN, Fetch(isFull)
      PROVE  OneApplier'
  BY <1>5, SameApplying DEF Fetch, taskVars
<1>6. CASE DownloadLost
  BY <1>6, Released DEF DownloadLost, DownloadFails
<1>7. CASE EdgeRestart
  <2>1. \A s \in Slugs : Applying(s)' = {}
    BY <1>7 DEF EdgeRestart, Applying
  <2>. QED BY <1>7, <2>1 DEF EdgeRestart, OneApplier
<1>. QED
  BY <1>1, <1>2, <1>3, <1>4, <1>5, <1>6, <1>7
     DEF Next, vars, MasterAct, OutboxAct, MasterCrash, EdgeAct, Pull, EdgeCrash
-----------------------------------------------------------------------------
(***************************************************************************)
(* The consumer and the head of its queue.                                 *)
(***************************************************************************)
LEMMA NextAtHead == TypeOK /\ ConsumerAtHead /\ [Next]_vars => ConsumerAtHead'
<1> SUFFICES ASSUME TypeOK, ConsumerAtHead, [Next]_vars
             PROVE  ConsumerAtHead'
  OBVIOUS
<1> USE EdgeAssumption DEF TypeOK, Tasks
<1>0. queue \in Seq(Indices) /\ Len(events) \in Nat
  BY DEF OutboxTypeOK, DeployTypeOK
<1>1. CASE UNCHANGED <<pc, job, processed, queue, events>>
  BY <1>1, Zenon DEF ConsumerAtHead
<1>2. CASE MasterAct
  <2>1. UNCHANGED <<pc, job, processed, queue>>
    BY <1>2, MasterFrames DEF edgeVars, taskVars, stores, lineVars
  <2>2. queue # <<>> => events'[Head(queue)] = events[Head(queue)]
    BY <1>0, <1>2, MasterFrames DEF Indices
  <2>. QED BY <2>1, <2>2 DEF ConsumerAtHead
<1>3. CASE OutboxAct \/ MasterCrash
  <2>1. UNCHANGED <<pc, job, processed, events>>
    BY <1>3, OutboxFrames DEF edgeVars, taskVars, stores
  <2>2. queue # <<>> => queue' # <<>> /\ Head(queue') = Head(queue)
    BY <1>3, OutboxFrames, HeadStays
  <2>. QED BY <2>1, <2>2 DEF ConsumerAtHead
<1>9. CASE Deliver
  BY <1>9
     DEF Deliver, Start, Goto, ConsumerAtHead, EdgeTypeOK, outboxVars, lineVars,
         deployVars
<1>4. CASE Settle
  BY <1>4 DEF Settle, Stop, Goto, ConsumerAtHead, EdgeTypeOK
<1>5. ASSUME NEW t \in Tasks, TaskStep(t), UNCHANGED <<queue, events>>
      PROVE  ConsumerAtHead'
  <2>1. job' = job /\ processed \subseteq processed'
    BY <1>5
       DEF TaskStep, Check, Compare, Lock, Downloaded, Store, Find, Drop,
           Remove, Mark, stores
  <2>2. CASE t = Consumer
    <3>1. pc[Consumer] # "idle"
      BY <1>5, <2>2
         DEF TaskStep, Check, Compare, Lock, Downloaded, Store, Find, Drop,
             Remove, Mark
    <3>2. pc'[Consumer] = "done" => job[Consumer] \in processed'
      BY <1>5, <2>2
         DEF TaskStep, Check, Compare, Lock, Downloaded, Store, Find, Drop,
             Remove, Mark, Goto, stores, EdgeTypeOK
    <3>. QED BY <1>5, <2>1, <3>1, <3>2 DEF ConsumerAtHead
  <2>3. CASE t # Consumer
    <3>1. pc'[Consumer] = pc[Consumer]
      BY <1>5, <2>3
         DEF TaskStep, Check, Compare, Lock, Downloaded, Store, Find, Drop,
             Remove, Mark, Goto, EdgeTypeOK
    <3>. QED BY <1>5, <2>1, <3>1 DEF ConsumerAtHead
  <2>. QED BY <2>2, <2>3
<1>6. CASE PullStep /\ UNCHANGED <<queue, events>>
  <2>1. /\ pc'[Consumer] = pc[Consumer]
        /\ job'[Consumer] = job[Consumer]
        /\ processed' = processed
    BY <1>6
       DEF PullStep, Reap, Reaped, BeginItems, StartItem, ItemEnds, EndItems,
           EndPull, Start, Stop, Goto, EdgeTypeOK, taskVars, stores
  <2>. QED BY <1>6, <2>1 DEF ConsumerAtHead
<1>7. CASE DownloadLost
  <2>1. /\ pc'[Consumer] # "done" \/ pc'[Consumer] = pc[Consumer]
        /\ pc'[Consumer] # "idle" => pc[Consumer] # "idle"
        /\ UNCHANGED <<job, processed, queue, events>>
    BY <1>7
       DEF DownloadLost, DownloadFails, Goto, EdgeTypeOK, stores, outboxVars,
           lineVars, deployVars
  <2>. QED BY <2>1 DEF ConsumerAtHead
<1>8. CASE EdgeCrash
  BY <1>8 DEF EdgeCrash, EdgeRestart, ConsumerAtHead
<1>. QED
  BY <1>1, <1>2, <1>3, <1>4, <1>5, <1>6, <1>7, <1>8, <1>9
     DEF Next, vars, edgeVars, outboxVars, lineVars, deployVars, taskVars, stores,
         EdgeAct, Pull, Fetch


(* The messages the edge has handled, or given up as corrupt. *)
Handled == {i \in Indices : events[i] \in processed \cup spoilt}

(* Nothing forgets a message that was handled. *)
LEMMA HandledStays ==
  ASSUME TypeOK, [Next]_vars
  PROVE  /\ processed \subseteq processed' /\ spoilt \subseteq spoilt'
         /\ Handled \subseteq Handled' /\ Indices \subseteq Indices'
         /\ \A i \in Indices : events'[i] = events[i]
         /\ ~Settle => spoilt' = spoilt
<1>1. UNCHANGED edgeVars => processed' = processed
  BY DEF edgeVars, stores
<1>2. ASSUME NEW t \in Tasks, TaskStep(t)
      PROVE  processed \subseteq processed'
  BY <1>2
     DEF TaskStep, Check, Compare, Lock, Downloaded, Store, Find, Drop, Remove,
         Mark, stores
<1>3. PullStep => processed' = processed
  BY DEF PullStep, Reap, Reaped, BeginItems, StartItem, ItemEnds, EndItems,
         EndPull, stores
<1>4. processed \subseteq processed'
  <2>1. CASE MasterAct
    BY <1>1, <2>1, MasterFrames
  <2>2. CASE OutboxAct \/ MasterCrash
    BY <1>1, <2>2, OutboxFrames
  <2>3. CASE ~MasterAct /\ ~OutboxAct /\ ~MasterCrash
    BY <1>1, <1>2, <1>3, <2>3
       DEF Next, vars, Deliver, Settle, EdgeAct, Pull, Fetch, DownloadLost,
           DownloadFails, EdgeCrash, EdgeRestart, stores
  <2>. QED BY <2>1, <2>2, <2>3
<1>5. spoilt \subseteq spoilt' /\ (~Settle => spoilt' = spoilt)
  <2>1. CASE MasterAct
    BY <2>1, MasterFrames
  <2>2. CASE OutboxAct \/ MasterCrash
    BY <2>2, OutboxFrames
  <2>3. CASE Settle
    BY <2>3 DEF Settle
  <2>4. CASE ~MasterAct /\ ~OutboxAct /\ ~MasterCrash /\ ~Settle
    BY <2>4, OtherFrames
  <2>. QED BY <2>1, <2>2, <2>3, <2>4
<1>6. Indices \subseteq Indices' /\ \A i \in Indices : events'[i] = events[i]
  <2>1. CASE MasterAct
    BY <2>1, MasterFrames DEF Indices
  <2>2. CASE OutboxAct \/ MasterCrash
    BY <2>2, OutboxFrames DEF Indices
  <2>3. CASE ~MasterAct /\ ~OutboxAct /\ ~MasterCrash
    BY <2>3, OtherFrames DEF Indices, deployVars
  <2>. QED BY <2>1, <2>2, <2>3
<1>7. Handled \subseteq Handled'
  BY <1>4, <1>5, <1>6 DEF Handled
<1>. QED BY <1>4, <1>5, <1>6, <1>7

(***************************************************************************)
(* Why nothing is dropped: the event whose row is about to be marked SENT  *)
(* is in the line already, or handled, or was in a lost buffer.  Without   *)
(* AMQP no flush ever runs.                                                *)
(***************************************************************************)
PlacesInv ==
  /\ WrittenIsSomewhere(Indices, Handled)
  /\ UseAmqp => SentIsSomewhere(Indices, Handled)
  /\ ~UseAmqp => unsent = {}

LEMMA PlacesSuffice == TypeOK /\ PlacesInv => NothingDropped
  BY LineType
     DEF TypeOK, PlacesInv, NothingDropped, SentIsSomewhere, Somewhere, Started, Handled

LEMMA NextPlaces == TypeOK /\ ConsumerAtHead /\ PlacesInv /\ [Next]_vars => PlacesInv'
<1> SUFFICES ASSUME TypeOK, ConsumerAtHead, PlacesInv, [Next]_vars
             PROVE  PlacesInv'
  OBVIOUS
<1>0. Len(events) \in Nat /\ OutboxTypeOK
  BY DEF TypeOK, DeployTypeOK
<1> USE DEF PlacesInv, WrittenIsSomewhere, SentIsSomewhere, Somewhere, Started
<1>1. CASE MasterAct
  <2>1. UNCHANGED <<batch, written, queue, wire, dropped>>
    BY <1>1, MasterFrames DEF lineVars, histories
  <2>2. Held(Line)' = Held(Line) /\ Handled \subseteq Handled'
    BY <2>1, HandledStays DEF Line
  <2>3. UseAmqp => \A i \in Indices' : i \in Indices \/ i \in unsent'
    BY <1>1, MasterFrames DEF Pending, Indices
  <2>4. UseAmqp => unsent \subseteq unsent'
    BY <1>1, MasterFrames DEF Pending
  <2>5. written => First(batch) \in Indices
    BY <1>0, BatchType DEF OutboxTypeOK
  <2>6. ~UseAmqp => unsent' = {}
    BY <1>1, MasterFrames
  <2>. QED BY <2>1, <2>2, <2>3, <2>4, <2>5, <2>6
<1>2. CASE OutboxAct \/ MasterCrash
  <2>1. /\ UNCHANGED <<events, processed, spoilt>>
        /\ \/ StartFlush \/ Send \/ MarkSent \/ PublishFails \/ MarkFails
           \/ BrokerAccepts \/ LinkLost \/ MasterStops
    BY <1>2, OutboxFrames DEF edgeVars, stores
  <2>2. Handled' = Handled /\ Indices' = Indices
    BY <2>1 DEF Handled, Indices
  <2>3. PICK S : S = Indices
    OBVIOUS
  <2>4. PICK H : H = Handled
    OBVIOUS
  <2>5. CASE UseAmqp
    <3>1. WrittenIsSomewhere(S, H)' /\ SentIsSomewhere(S, H)'
      BY <1>0, <2>1, <2>3, <2>4, <2>5, OutboxPlaces
    <3>. QED BY <2>2, <2>3, <2>4, <2>5, <3>1
  <2>6. CASE ~UseAmqp
    <3>1. unsent = {} /\ Sendable = {} /\ batch = {} /\ ~written
      BY <1>0, <2>6 DEF OutboxTypeOK, Sendable
    <3>2. unsent' = {} /\ ~written'
      BY <2>1, <3>1
         DEF StartFlush, Send, MarkSent, PublishFails, MarkFails, BrokerAccepts,
             LinkLost, MasterStops, flushVars
    <3>. QED BY <2>6, <3>2
  <2>. QED BY <2>5, <2>6
<1>3. CASE Settle
  <2>1. /\ UNCHANGED <<events, unsent, batch, written, wire, dropped>>
        /\ queue \in Seq(Indices) /\ queue # <<>> /\ Indices \subseteq Nat
    BY <1>0, <1>3
       DEF Settle, Ended, ConsumerAtHead, deployVars, flushVars, histories, OutboxTypeOK,
           Indices
  <2>2. Held(queue) \subseteq Held(queue') \cup Handled'
    <3>1. CASE queue' = queue
      BY <3>1
    <3>2. CASE queue' # queue
      <4>1. Acked(pc[Consumer]) /\ queue' = Tail(queue)
        BY <1>3, <3>2 DEF Settle
      <4>2. queue[1] \in Handled'
        <5>1. job[Consumer] \in processed \cup spoilt' /\ processed \subseteq processed'
          BY <1>3, <4>1, HandledStays DEF Settle, Acked, ConsumerAtHead
        <5>2. job[Consumer] = events[queue[1]] /\ queue[1] \in Indices
          BY <1>3, <2>1 DEF Settle, Ended, ConsumerAtHead
        <5>. QED BY <2>1, <5>1, <5>2 DEF Handled, Indices
      <4>3. ASSUME NEW k \in 1..Len(queue), k # 1
            PROVE  queue[k] \in Held(queue')
        <5>1. k - 1 \in 1..Len(queue') /\ queue'[k - 1] = queue[k]
          BY <2>1, <4>1, <4>3
        <5>. QED BY <5>1 DEF Held
      <4>. QED BY <4>2, <4>3 DEF Held
    <3>. QED BY <3>1, <3>2
  <2>3. Held(Line) \subseteq Held(Line') \cup Handled'
    <3>0. wire \in Seq(Nat) /\ queue \in Seq(Nat)
      BY <1>0, <2>1 DEF OutboxTypeOK
    <3>1. queue' \in Seq(Nat)
      <4>1. CASE queue' = queue
        BY <3>0, <4>1
      <4>2. CASE queue' = Tail(queue)
        BY <2>1, <3>0, <4>2
      <4>. QED BY <1>3, <4>1, <4>2 DEF Settle
    <3>2. Held(Line') = Held(queue') \cup Held(wire) /\ Held(Line) = Held(queue) \cup Held(wire)
      BY <2>1, <3>0, <3>1, HeldTogether DEF Line
    <3>. QED BY <2>2, <3>2
  <2>4. Handled \subseteq Handled' /\ Indices' = Indices
    BY <2>1, HandledStays DEF Indices
  <2>. QED BY <2>1, <2>3, <2>4
<1>4. CASE ~MasterAct /\ ~OutboxAct /\ ~MasterCrash /\ ~Settle
  <2>1. UNCHANGED <<events, unsent, batch, written, queue, wire, dropped>>
    BY <1>4, OtherFrames
       DEF outboxVars, flushVars, lineVars, histories, deployVars
  <2>2. Handled \subseteq Handled' /\ Indices' = Indices /\ Line' = Line
    BY <2>1, HandledStays DEF Indices, Line
  <2>. QED BY <2>1, <2>2
<1>. QED BY <1>1, <1>2, <1>3, <1>4
-----------------------------------------------------------------------------
LandingInd == TypeOK /\ OneApplier /\ ConsumerAtHead /\ PlacesInv

LEMMA InitInv == Init => LandingInd
<1> SUFFICES ASSUME Init PROVE LandingInd
  OBVIOUS
<1>1. TypeOK
  BY InitTypeOK
<1>2. OneApplier
  BY DEF Init, EdgeInit, OneApplier, Applying
<1>3. ConsumerAtHead
  BY DEF Init, EdgeInit, ConsumerAtHead, Tasks
<1>4. PlacesInv
  BY DEF Init, OutboxInit, PlacesInv, WrittenIsSomewhere, SentIsSomewhere, Indices
<1>. QED BY <1>1, <1>2, <1>3, <1>4 DEF LandingInd

LEMMA NextInv == LandingInd /\ [Next]_vars => LandingInd'
  BY NextTypeOK, NextLock, NextAtHead, NextPlaces DEF LandingInd

(***************************************************************************)
(* The safety of the landing synchronisation, under every failure.         *)
(***************************************************************************)
THEOREM LandingInvariant == Spec => []LandingInv
<1>1. Spec => []LandingInd
  BY InitInv, NextInv, PTL DEF Spec
<1>2. LandingInd => LandingInv
  BY PlacesSuffice DEF LandingInd, LandingInv
<1>. QED BY <1>1, <1>2, PTL

(***************************************************************************)
(* The variables of both sides keep their types.                           *)
(***************************************************************************)
THEOREM LandingTypeCorrect == Spec => []TypeOK
<1>1. LandingInv => TypeOK
  BY DEF LandingInv
<1>. QED BY <1>1, LandingInvariant, PTL

(***************************************************************************)
(* At most one task downloads and replaces the files of a slug, and        *)
(* exactly then its lock is held, whatever fails or restarts.              *)
(***************************************************************************)
THEOREM OneTaskApplies == Spec => []OneApplier
<1>1. LandingInv => OneApplier
  BY DEF LandingInv
<1>. QED BY <1>1, LandingInvariant, PTL

(***************************************************************************)
(* An event the edge has not handled is still to be sent, on its way, or   *)
(* was in a socket buffer when the connection or the master was lost,      *)
(* whatever fails: publications, the rows' own updates, downloads, crashes *)
(* of either side.                                                         *)
(***************************************************************************)
THEOREM NoEventIsDropped == Spec => []NothingDropped
<1>1. LandingInv => NothingDropped
  BY DEF LandingInv
<1>. QED BY <1>1, LandingInvariant, PTL

-----------------------------------------------------------------------------
(***************************************************************************)
(* The events and the rows.  A committed change announces the new row last *)
(* of the slug's events.                                                   *)
(***************************************************************************)
LEMMA ChangeAnnounced ==
  ASSUME DeployTypeOK, RowIsAnnounced, NEW s \in Slugs, NEW row, NEW m \in Message,
         SetRow(s, row), Announce(m), m.slug = s, Announces(m, row)
  PROVE  RowIsAnnounced'
<1>1. /\ events' \in Seq(Message)
      /\ Len(events) \in Nat
      /\ Len(events') = Len(events) + 1
      /\ events'[Len(events) + 1] = m
      /\ \A i \in 1..Len(events) : events'[i] = events[i]
  BY DEF Announce, DeployTypeOK
<1>2. /\ landing'[s] = row
      /\ \A z \in Slugs : z # s => landing'[z] = landing[z]
  BY DEF SetRow, DeployTypeOK
<1> SUFFICES ASSUME NEW z \in Slugs
             PROVE  /\ (\A i \in 1..Len(events') : events'[i].slug # z)
                         => landing'[z] = None
                    /\ \A i \in 1..Len(events') :
                         /\ events'[i].slug = z
                         /\ \A j \in i+1..Len(events') : events'[j].slug # z
                         => Announces(events'[i], landing'[z])
  BY DEF RowIsAnnounced, Announces
<1>3. CASE z = s
  BY <1>1, <1>2, <1>3
<1>4. CASE z # s
  <2>1. (\A i \in 1..Len(events') : events'[i].slug # z) => landing'[z] = None
    BY <1>1, <1>2, <1>4 DEF RowIsAnnounced
  <2>2. ASSUME NEW i \in 1..Len(events'), events'[i].slug = z,
               \A j \in i+1..Len(events') : events'[j].slug # z
        PROVE  Announces(events'[i], landing'[z])
    <3>1. i \in 1..Len(events) /\ events[i].slug = z
      BY <1>1, <1>4, <2>2
    <3>2. \A j \in i+1..Len(events) : events[j].slug # z
      BY <1>1, <2>2
    <3>3. Announces(events[i], landing[z])
      BY <3>1, <3>2 DEF RowIsAnnounced
    <3>. QED BY <1>1, <1>2, <1>4, <3>1, <3>3
  <2>. QED BY <2>1, <2>2
<1>. QED BY <1>3, <1>4

LEMMA NextAnnounced == TypeOK /\ RowIsAnnounced /\ [Next]_vars => RowIsAnnounced'
<1> SUFFICES ASSUME TypeOK, RowIsAnnounced, [Next]_vars
             PROVE  RowIsAnnounced'
  OBVIOUS
<1>1. CASE UNCHANGED <<landing, events>>
  BY <1>1 DEF RowIsAnnounced, Announces
<1>2. CASE MasterAct
  <2> PICK r \in Requests : Admin(r) \/ DeployStep(r)
    BY <1>2 DEF MasterAct
  <2> DEFINE a == arg[r]
  <2>0. /\ DeployTypeOK
        /\ step[r] # "idle" => a.slug \in Slugs
        /\ step[r] \in {"publish", "rebuild"} =>
             a.ver \in Times /\ a.sum \in Checksum
    BY RunningArg DEF TypeOK, DeployTypeOK, Times
  <2>1. CASE Publish(r)
    <3>1. Confirmed(a.slug, a.ver, a.sum) \in Message
      BY <2>0, <2>1, MessagesAreMessages DEF Publish
    <3>2. Row(a.ver, a.sum) # None
      BY <2>0, <2>1, RowAssumption DEF Publish, Row, LandingRow, DeployTypeOK
    <3>3. Announces(Confirmed(a.slug, a.ver, a.sum), Row(a.ver, a.sum))
      BY <3>2 DEF Announces, Confirmed, Row
    <3>4. Confirmed(a.slug, a.ver, a.sum).slug = a.slug
      BY DEF Confirmed
    <3>. QED BY <1>1, <2>0, <2>1, <3>1, <3>3, <3>4, ChangeAnnounced
             DEF Publish, deployTables
  <2>2. CASE Republish(r)
    <3>1. Resent(a.slug, a.ver, a.sum) \in Message
      BY <2>0, <2>2, MessagesAreMessages DEF Republish
    <3>2. Row(a.ver, a.sum) # None
      BY <2>0, <2>2, RowAssumption DEF Republish, Row, LandingRow, DeployTypeOK
    <3>3. Announces(Resent(a.slug, a.ver, a.sum), Row(a.ver, a.sum))
      BY <3>2 DEF Announces, Resent, Row
    <3>4. Resent(a.slug, a.ver, a.sum).slug = a.slug
      BY DEF Resent
    <3>. QED BY <1>1, <2>0, <2>2, <3>1, <3>3, <3>4, ChangeAnnounced
             DEF Republish, deployTables
  <2>3. CASE DeleteRow(r)
    <3>1. Deletion(a.slug, clock) \in Message
      BY <2>0, <2>3, MessagesAreMessages DEF DeleteRow, DeployTypeOK, Times
    <3>2. Announces(Deletion(a.slug, clock), None)
      BY DEF Announces, Deletion
    <3>3. Deletion(a.slug, clock).slug = a.slug
      BY DEF Deletion
    <3>. QED BY <1>1, <2>0, <2>3, <3>1, <3>2, <3>3, ChangeAnnounced
             DEF DeleteRow, deployTables
  <2>4. CASE Admin(r) \/ ReadVersion(r) \/ Rebuild(r) \/ FindLanding(r) \/ CleanSite(r)
    BY <1>1, <2>4 DEF Admin, BeginConfirm, BeginResend, BeginDelete, ReadVersion,
                      Rebuild, FindLanding, CleanSite, deployTables
  <2>. QED BY <2>1, <2>2, <2>3, <2>4 DEF DeployStep
<1>3. CASE ~MasterAct
  BY <1>1, <1>3, OutboxFrames, OtherFrames DEF deployVars
<1>. QED BY <1>2, <1>3

(***************************************************************************)
(* However the admin's requests overlap, the last event of a slug          *)
(* announces its row, and a slug without events has none: the outbox event *)
(* is written in the transaction of the row.                               *)
(***************************************************************************)
THEOREM RowsAreAnnounced == Spec => []RowIsAnnounced
<1>1. Init => RowIsAnnounced
  <2> SUFFICES ASSUME Init PROVE RowIsAnnounced
    OBVIOUS
  <2>1. /\ 1..Len(events) = {}
        /\ \A s \in Slugs : landing[s] = None
    BY DEF Init, DeployInit, OutboxInit
  <2>. QED BY <2>1, Zenon DEF RowIsAnnounced
<1>2. LandingInv /\ RowIsAnnounced /\ [Next]_vars => RowIsAnnounced'
  BY NextAnnounced DEF LandingInv
<1>. QED BY <1>1, <1>2, LandingInvariant, PTL DEF Spec

-----------------------------------------------------------------------------
(***************************************************************************)
(* With one request at a time: the events since the last deletion of a     *)
(* slug climb up to its row, a version is free when it is used, and the    *)
(* files are those of the row or of the request at work on them.           *)
(***************************************************************************)
OneAtATime == \A q, r \in Requests : q = r

(* A deletion of the slug was logged between two places of the log. *)
DeletedBetween(log, s, i, j) ==
  \E k \in i+1..j-1 : log[k].kind = "delete" /\ log[k].slug = s

EventsBelowRow ==
  \A i \in 1..Len(events) :
    LET s == events[i].slug
    IN  events[i].kind # "delete" /\ ~DeletedBetween(events, s, i, Len(events) + 1) =>
          landing[s] # None /\ events[i].ver <= landing[s].ver

VersionsClimb ==
  \A i, j \in 1..Len(events) :
    LET s == events[i].slug
    IN  /\ i < j /\ events[j].slug = s
        /\ events[i].kind # "delete" /\ events[j].kind # "delete"
        /\ ~DeletedBetween(events, s, i, j)
        => events[i].ver < events[j].ver

DeletionsLeaveTombs ==
  \A i \in 1..Len(events) :
    events[i].kind = "delete" => events[i].slug \notin Kept

VersionIsFree ==
  \A r \in Requests :
    step[r] \in {"publish", "rebuild"} =>
      /\ arg[r].ver = NextVersion(landing[arg[r].slug])
      /\ step[r] = "rebuild" => landing[arg[r].slug] # None

Replacing(r) == step[r] \in {"version", "publish", "rebuild"}

(* Not when the master stops between the files and the row. *)
Matches(s) ==
  "master" \in Faults \/ site[s] = IF landing[s] = None THEN None ELSE landing[s].sum

SiteInHand ==
  /\ \A r \in Requests :
       /\ Replacing(r) /\ arg[r].slug \in Kept => site[arg[r].slug] = arg[r].sum
       /\ step[r] = "clean" => arg[r].slug \notin Kept
  /\ \A s \in Kept :
       (\A r \in Requests : Replacing(r) => arg[r].slug # s) => Matches(s)

LogInv == EventsBelowRow /\ VersionsClimb /\ DeletionsLeaveTombs

OneInv == LogInv /\ VersionIsFree /\ SiteInHand

(* The log after a transaction. *)
LEMMA LogAfter ==
  ASSUME DeployTypeOK, NEW m \in Message, Announce(m)
  PROVE  /\ Len(events) \in Nat /\ Len(events') = Len(events) + 1
         /\ events'[Len(events) + 1] = m
         /\ \A i \in 1..Len(events) :
              /\ events'[i] = events[i]
              /\ events[i].slug \in Slugs /\ events[i].ver \in Nat
         /\ \A s \in Slugs : \A i \in 1..Len(events) :
              /\ \A j \in 1..Len(events) + 1 :
                   DeletedBetween(events', s, i, j) <=> DeletedBetween(events, s, i, j)
              /\ DeletedBetween(events', s, i, Len(events) + 2) <=>
                   \/ DeletedBetween(events, s, i, Len(events) + 1)
                   \/ m.kind = "delete" /\ m.slug = s
<1>1. /\ Len(events) \in Nat /\ Len(events') = Len(events) + 1
      /\ events'[Len(events) + 1] = m
      /\ \A i \in 1..Len(events) : events'[i] = events[i]
  BY DEF Announce, DeployTypeOK
<1>2. \A i \in 1..Len(events) : events[i].slug \in Slugs /\ events[i].ver \in Nat
  <2>1. \A i \in 1..Len(events) : events[i] \in Message
    BY DEF DeployTypeOK
  <2>. QED BY <2>1 DEF Message
<1>3. ASSUME NEW s \in Slugs, NEW i \in 1..Len(events), NEW j \in 1..Len(events) + 1
      PROVE  DeletedBetween(events', s, i, j) <=> DeletedBetween(events, s, i, j)
  <2>1. \A k \in i+1..j-1 : events'[k] = events[k]
    BY <1>1
  <2>. QED BY <2>1 DEF DeletedBetween
<1>4. ASSUME NEW s \in Slugs, NEW i \in 1..Len(events)
      PROVE  DeletedBetween(events', s, i, Len(events) + 2) <=>
               \/ DeletedBetween(events, s, i, Len(events) + 1)
               \/ m.kind = "delete" /\ m.slug = s
  <2> DEFINE n == Len(events)
  <2>1. \A k : k \in i+1..(n+2)-1 <=> k \in i+1..(n+1)-1 \/ k = n + 1
    BY <1>1
  <2>2. \A k \in i+1..(n+1)-1 : events'[k] = events[k]
    BY <1>1
  <2>3. events'[n + 1] = m
    BY <1>1
  <2>4. DeletedBetween(events', s, i, n + 2) <=>
          \E k \in i+1..(n+2)-1 : events'[k].kind = "delete" /\ events'[k].slug = s
    BY DEF DeletedBetween
  <2> HIDE DEF n
  <2>. QED BY <2>1, <2>2, <2>3, <2>4, Zenon DEF DeletedBetween, n
<1>. QED BY <1>1, <1>2, <1>3, <1>4

(* A transaction publishes the version that the request counted. *)
LEMMA ChangeOne ==
  ASSUME DeployTypeOK, OneAtATime, OneInv, NEW r \in Requests,
         step[r] \in {"publish", "rebuild"}, NEW m \in Message, m.kind # "delete",
         m.slug = arg[r].slug, m.ver = arg[r].ver, m.sum = arg[r].sum,
         SetRow(arg[r].slug, Row(arg[r].ver, arg[r].sum)), Announce(m), End(r),
         UNCHANGED <<tombs, site>>
  PROVE  OneInv'
<1> DEFINE s == arg[r].slug
           n == Len(events)
<1>1. /\ n \in Nat /\ Len(events') = n + 1 /\ events'[n + 1] = m
      /\ \A i \in 1..n : events'[i] = events[i] /\ events[i].slug \in Slugs
                         /\ events[i].ver \in Nat
      /\ \A z \in Slugs : \A i \in 1..n :
           /\ \A j \in 1..n + 1 : DeletedBetween(events', z, i, j) <=> DeletedBetween(events, z, i, j)
           /\ DeletedBetween(events', z, i, n + 2) <=> DeletedBetween(events, z, i, n + 1)
  BY LogAfter
<1>2. /\ s \in Slugs /\ arg[r].ver \in Times /\ arg[r].sum \in Checksum
      /\ landing[s] # None => landing[s].ver \in Times
  BY RunningArg DEF DeployTypeOK, Times, LandingRow
<1>3. Row(arg[r].ver, arg[r].sum) # None
  BY <1>2, RowAssumption DEF Row, LandingRow, DeployTypeOK
<1>4. /\ landing'[s] # None /\ landing'[s].ver = m.ver /\ landing'[s].sum = m.sum
      /\ \A z \in Slugs : z # s => landing'[z] = landing[z]
  BY <1>2, <1>3 DEF SetRow, DeployTypeOK, Row
<1>5. Kept' = Kept
  BY DEF Kept
<1>6. \A i \in 1..n :
        /\ events[i].kind # "delete" /\ events[i].slug = s
        /\ ~DeletedBetween(events, s, i, n + 1)
        => events[i].ver < m.ver
  BY <1>1, <1>2 DEF OneInv, LogInv, EventsBelowRow, VersionIsFree, NextVersion, Times
<1>7. EventsBelowRow'
  <2> SUFFICES ASSUME NEW i \in 1..Len(events'), events'[i].kind # "delete",
                      ~DeletedBetween(events', events'[i].slug, i, Len(events') + 1)
               PROVE  /\ landing'[events'[i].slug] # None
                      /\ events'[i].ver <= landing'[events'[i].slug].ver
    BY DEF EventsBelowRow
  <2>1. CASE i = n + 1
    BY <1>1, <1>2, <1>4, <2>1 DEF Times
  <2>2. CASE i # n + 1
    <3>1. i \in 1..n /\ events'[i] = events[i]
      BY <1>1, <2>2
    <3>2. ~DeletedBetween(events, events[i].slug, i, n + 1)
      BY <1>1, <3>1
    <3>3. CASE events[i].slug = s
      BY <1>1, <1>2, <1>4, <1>6, <3>1, <3>2, <3>3 DEF Times
    <3>4. CASE events[i].slug # s
      BY <1>1, <1>4, <3>1, <3>2, <3>4 DEF OneInv, LogInv, EventsBelowRow
    <3>. QED BY <3>3, <3>4
  <2>. QED BY <2>1, <2>2
<1>8. VersionsClimb'
  <2> SUFFICES ASSUME NEW i \in 1..Len(events'), NEW j \in 1..Len(events'),
                      i < j, events'[j].slug = events'[i].slug,
                      events'[i].kind # "delete", events'[j].kind # "delete",
                      ~DeletedBetween(events', events'[i].slug, i, j)
               PROVE  events'[i].ver < events'[j].ver
    BY DEF VersionsClimb
  <2>1. i \in 1..n /\ events'[i] = events[i] /\ events[i].slug \in Slugs
    BY <1>1
  <2>2. ~DeletedBetween(events, events[i].slug, i, j)
    BY <1>1, <2>1
  <2>3. CASE j = n + 1
    BY <1>1, <1>6, <2>1, <2>2, <2>3
  <2>4. CASE j # n + 1
    <3>1. j \in 1..n
      BY <1>1, <2>4
    <3>2. events'[j] = events[j]
      BY <1>1, <3>1
    <3>. QED BY <2>1, <2>2, <3>1, <3>2 DEF OneInv, LogInv, VersionsClimb
  <2>. QED BY <2>3, <2>4
<1>9. DeletionsLeaveTombs'
  BY <1>1, <1>5 DEF OneInv, LogInv, DeletionsLeaveTombs
<1>10. VersionIsFree' /\ ~Replacing(r)' /\ step'[r] # "clean"
  BY DEF VersionIsFree, Replacing, End, At, OneAtATime, DeployTypeOK
<1>11. SiteInHand'
  <2>1. s \in Kept => site[s] = m.sum
    BY DEF OneInv, SiteInHand, Replacing
  <2>2. \A z \in Kept : z # s => Matches(z)
    BY DEF OneInv, SiteInHand, OneAtATime
  <2>3. \A z \in Kept : Matches(z)'
    BY <1>4, <2>1, <2>2 DEF Matches, Kept
  <2>. QED BY <1>5, <1>10, <2>3 DEF SiteInHand, OneAtATime
<1>. QED BY <1>7, <1>8, <1>9, <1>10, <1>11 DEF OneInv, LogInv

(* A step that changes neither rows nor events. *)
LEMMA QuietOne ==
  ASSUME OneInv, UNCHANGED <<landing, events, tombs>>, VersionIsFree', SiteInHand'
  PROVE  OneInv'
<1>1. Kept' = Kept
  BY DEF Kept
<1>. QED BY <1>1 DEF OneInv, LogInv, EventsBelowRow, VersionsClimb, DeletionsLeaveTombs,
                     DeletedBetween

LEMMA StepOne ==
  ASSUME DeployTypeOK, OneAtATime, OneInv, NEW r \in Requests,
         Admin(r) \/ DeployStep(r)
  PROVE  OneInv'
<1> DEFINE s == arg[r].slug
<1>0. /\ step[r] # "idle" => s \in Slugs
      /\ \A q \in Requests : q = r
      /\ Kept \subseteq Slugs
      /\ step[r] \in {"publish", "rebuild"} => arg[r].ver \in Times /\ arg[r].sum \in Checksum
  BY RunningArg DEF OneAtATime, DeployTypeOK, Times, Kept
<1>a. UNCHANGED tombs => Kept' = Kept
  BY DEF Kept
<1>1. ASSUME NEW z \in Slugs, NEW k \in Packages, BeginConfirm(r, z, k)
      PROVE  OneInv'
  BY <1>0, <1>1, <1>a, QuietOne
     DEF BeginConfirm, Begin, At, deployTables, DeployTypeOK, VersionIsFree, OneInv,
         SiteInHand, Replacing, Matches
<1>2. ASSUME NEW z \in Slugs, BeginResend(r, z) \/ BeginDelete(r, z)
      PROVE  OneInv'
  BY <1>0, <1>2, <1>a, QuietOne
     DEF BeginResend, BeginDelete, Begin, At, deployTables, DeployTypeOK, VersionIsFree,
         OneInv, SiteInHand, Replacing, Matches
<1>3. CASE ReadVersion(r)
  <2>1. /\ arg'[r].slug = s /\ arg'[r].sum = arg[r].sum
        /\ arg'[r].ver = NextVersion(landing[s])
        /\ step'[r] = "publish"
    BY <1>0, <1>3, RunningArg DEF ReadVersion, At, DeployTypeOK
  <2>2. UNCHANGED <<landing, events, tombs, site>> /\ step[r] = "version"
    BY <1>3 DEF ReadVersion, deployTables
  <2>3. VersionIsFree'
    BY <1>0, <1>a, <2>1, <2>2 DEF VersionIsFree, NextVersion
  <2>4. SiteInHand'
    BY <1>0, <1>a, <2>1, <2>2 DEF OneInv, SiteInHand, Replacing, Matches
  <2>. QED BY <2>2, <2>3, <2>4, QuietOne
<1>4. CASE Publish(r)
  <2> DEFINE m == Confirmed(s, arg[r].ver, arg[r].sum)
  <2>1. /\ m \in Message /\ m.slug = s /\ m.ver = arg[r].ver /\ m.sum = arg[r].sum
        /\ m.kind # "delete" /\ step[r] = "publish" /\ UNCHANGED site /\ End(r)
    BY <1>0, <1>4, MessagesAreMessages DEF Publish, Confirmed
  <2>2. CASE Logged(m)
    <3>1. s \notin Kept
      <4> SUFFICES ASSUME s \in Kept PROVE FALSE
        OBVIOUS
      <4>1. PICK i \in 1..Len(events) : events[i] = m
        BY <2>2 DEF Logged
      <4>2. landing[s] # None /\ arg[r].ver <= landing[s].ver
        <5>1. events[i].slug = s /\ events[i].kind # "delete" /\ events[i].ver = arg[r].ver
          BY <2>1, <4>1 DEF Confirmed
        <5>2. ~DeletedBetween(events, s, i, Len(events) + 1)
          BY DEF OneInv, LogInv, DeletionsLeaveTombs, DeletedBetween, DeployTypeOK
        <5>. QED BY <5>1, <5>2 DEF OneInv, LogInv, EventsBelowRow
      <4>3. arg[r].ver = landing[s].ver + 1
        BY <2>1, <4>2 DEF OneInv, VersionIsFree, NextVersion
      <4>4. landing[s].ver \in Nat
        BY <2>1, <4>2, RunningArg DEF LandingRow, Times
      <4>. QED BY <4>2, <4>3, <4>4
    <3>2. UNCHANGED <<landing, events, tombs>>
      BY <1>4, <2>2 DEF Publish, deployTables
    <3>3. VersionIsFree'
      BY <1>0, <2>1 DEF VersionIsFree, End, At, DeployTypeOK
    <3>4. SiteInHand'
      BY <1>0, <1>a, <2>1, <3>1, <3>2
         DEF OneInv, SiteInHand, Replacing, Matches, End, At, DeployTypeOK
    <3>. QED BY <3>2, <3>3, <3>4, QuietOne
  <2>3. CASE ~Logged(m)
    <3>1. /\ SetRow(s, Row(arg[r].ver, arg[r].sum)) /\ Announce(m)
          /\ UNCHANGED <<tombs, site>>
      BY <1>4, <2>3 DEF Publish
    <3>. QED BY <2>1, <3>1, ChangeOne
  <2>. QED BY <2>2, <2>3
<1>5. CASE Rebuild(r)
  <2>1. CASE landing[s] = None \/ site[s] = None
    <3>1. UNCHANGED <<landing, events, tombs, site>> /\ End(r) /\ step[r] = "read"
      BY <1>5, <2>1 DEF Rebuild
    <3>2. VersionIsFree'
      BY <1>0, <3>1 DEF VersionIsFree, End, At, DeployTypeOK
    <3>3. SiteInHand'
      BY <1>0, <1>a, <3>1
         DEF OneInv, SiteInHand, Replacing, Matches, End, At, DeployTypeOK
    <3>. QED BY <3>1, <3>2, <3>3, QuietOne
  <2>2. CASE ~(landing[s] = None \/ site[s] = None)
    <3> DEFINE new == [arg[r] EXCEPT !.ver = landing[s].ver + 1, !.sum = clock]
    <3>1. /\ new.slug = s /\ new.sum = clock /\ new.ver = NextVersion(landing[s])
      <4>1. arg[r] \in [slug : Slugs, sum : Checksum \cup {None}, ver : Nat]
        BY <1>5, RunningArg DEF Rebuild
      <4>. QED BY <2>2, <4>1 DEF NextVersion
    <3>2. arg' = [arg EXCEPT ![r] = new]
      BY <1>5, <2>2, Zenon DEF Rebuild
    <3>3. /\ site' = [site EXCEPT ![s] = clock]
          /\ At(r, "rebuild") /\ step[r] = "read"
          /\ UNCHANGED <<landing, events, tombs>>
      BY <1>5, <2>2 DEF Rebuild
    <3> HIDE DEF new
    <3>4. arg'[r] = new /\ step'[r] = "rebuild"
      BY <3>2, <3>3 DEF At, DeployTypeOK
    <3>5. VersionIsFree'
      BY <1>0, <1>a, <2>2, <3>1, <3>3, <3>4 DEF VersionIsFree, NextVersion
    <3>6. s \in Slugs /\ site'[s] = clock /\ \A z \in Slugs : z # s => site'[z] = site[z]
      BY <1>0, <3>3 DEF DeployTypeOK
    <3>7. \A z \in Kept : z # s => Matches(z)'
      BY <1>0, <3>3, <3>6 DEF OneInv, SiteInHand, Replacing, Matches
    <3>8. SiteInHand'
      BY <1>0, <1>a, <3>1, <3>3, <3>4, <3>6, <3>7 DEF SiteInHand, Replacing
    <3>. QED BY <3>3, <3>5, <3>8, QuietOne
  <2>. QED BY <2>1, <2>2
<1>6. CASE Republish(r)
  <2> DEFINE m == Resent(s, arg[r].ver, arg[r].sum)
  <2>1. /\ m \in Message /\ m.slug = s /\ m.ver = arg[r].ver /\ m.sum = arg[r].sum
        /\ m.kind # "delete" /\ step[r] = "rebuild" /\ UNCHANGED site /\ End(r)
    BY <1>0, <1>6, MessagesAreMessages DEF Republish, Resent
  <2>2. landing[s] # None
    BY <2>1 DEF OneInv, VersionIsFree
  <2>3. /\ SetRow(s, Row(arg[r].ver, arg[r].sum)) /\ Announce(m)
        /\ UNCHANGED <<tombs, site>>
    BY <1>6, <2>2 DEF Republish
  <2>. QED BY <2>1, <2>3, ChangeOne
<1>7. CASE FindLanding(r)
  <2>1. UNCHANGED <<landing, events, tombs, site>> /\ step[r] = "find"
    BY <1>7 DEF FindLanding, deployTables
  <2>2. step'[r] \in {"idle", "delete"}
    BY <1>7 DEF FindLanding, End, At, DeployTypeOK
  <2>3. VersionIsFree'
    BY <1>0, <2>2 DEF VersionIsFree
  <2>4. SiteInHand'
    BY <1>0, <1>a, <2>1, <2>2 DEF OneInv, SiteInHand, Replacing, Matches
  <2>. QED BY <2>1, <2>3, <2>4, QuietOne
<1>8. CASE DeleteRow(r)
  <2>1. step[r] = "delete" /\ UNCHANGED site /\ s \in Slugs
    BY <1>0, <1>8 DEF DeleteRow
  <2>2. CASE landing[s] = None
    <3>1. UNCHANGED <<landing, events, tombs>> /\ End(r)
      BY <1>8, <2>2 DEF DeleteRow, deployTables
    <3>2. VersionIsFree'
      BY <1>0, <3>1 DEF VersionIsFree, End, At, DeployTypeOK
    <3>3. SiteInHand'
      BY <1>0, <1>a, <2>1, <3>1
         DEF OneInv, SiteInHand, Replacing, Matches, End, At, DeployTypeOK
    <3>. QED BY <3>1, <3>2, <3>3, QuietOne
  <2>3. CASE landing[s] # None
    <3> DEFINE m == Deletion(s, clock)
               n == Len(events)
    <3>1. /\ \A z \in Slugs : z # s => landing'[z] = landing[z]
          /\ Announce(m) /\ m.kind = "delete" /\ m.slug = s
          /\ step'[r] = "clean" /\ arg' = arg
          /\ tombs' = tombs \cup {[slug |-> s, at |-> clock]}
      BY <1>8, <2>1, <2>3 DEF DeleteRow, SetRow, At, DeployTypeOK, Deletion
    <3>2. Kept' = Kept \ {s}
      <4>1. [slug |-> s, at |-> clock].slug = s
        OBVIOUS
      <4>2. \A z : (\A t \in tombs' : t.slug # z) <=> (\A t \in tombs : t.slug # z) /\ s # z
        BY <3>1, <4>1, Zenon
      <4>. QED BY <4>2 DEF Kept
    <3>3. m \in Message
      BY <2>1, MessagesAreMessages DEF DeployTypeOK, Times
    <3>4. /\ n \in Nat /\ Len(events') = n + 1 /\ events'[n + 1] = m
          /\ \A i \in 1..n : events'[i] = events[i] /\ events[i].slug \in Slugs
          /\ \A z \in Slugs : \A i \in 1..n :
               /\ \A j \in 1..n + 1 :
                    DeletedBetween(events', z, i, j) <=> DeletedBetween(events, z, i, j)
               /\ DeletedBetween(events', z, i, n + 2) <=>
                    DeletedBetween(events, z, i, n + 1) \/ s = z
      BY <3>1, <3>3, LogAfter
    <3> HIDE DEF m
    <3>5. EventsBelowRow'
      <4> SUFFICES ASSUME NEW i \in 1..Len(events'), events'[i].kind # "delete",
                          ~DeletedBetween(events', events'[i].slug, i, Len(events') + 1)
                   PROVE  /\ landing'[events'[i].slug] # None
                          /\ events'[i].ver <= landing'[events'[i].slug].ver
        BY DEF EventsBelowRow
      <4>1. i \in 1..n /\ events'[i] = events[i] /\ events[i].slug # s
        BY <3>1, <3>4
      <4>. QED BY <3>1, <3>4, <4>1 DEF OneInv, LogInv, EventsBelowRow
    <3>6. VersionsClimb'
      <4> SUFFICES ASSUME NEW i \in 1..Len(events'), NEW j \in 1..Len(events'),
                          i < j, events'[j].slug = events'[i].slug,
                          events'[i].kind # "delete", events'[j].kind # "delete",
                          ~DeletedBetween(events', events'[i].slug, i, j)
                   PROVE  events'[i].ver < events'[j].ver
        BY DEF VersionsClimb
      <4>1. /\ i \in 1..n /\ events'[i] = events[i]
            /\ j \in 1..n /\ events'[j] = events[j]
        BY <3>1, <3>4
      <4>. QED BY <3>4, <4>1 DEF OneInv, LogInv, VersionsClimb
    <3>0. DeletionsLeaveTombs'
      BY <3>1, <3>2, <3>4 DEF OneInv, LogInv, DeletionsLeaveTombs
    <3>7. VersionIsFree'
      BY <1>0, <3>1 DEF VersionIsFree
    <3>8. \A z \in Kept' : Matches(z)'
      BY <1>0, <2>1, <3>1, <3>2 DEF OneInv, SiteInHand, Replacing, Matches
    <3>9. SiteInHand'
      BY <1>0, <3>1, <3>2, <3>8 DEF SiteInHand, Replacing
    <3>. QED BY <3>0, <3>5, <3>6, <3>7, <3>9 DEF OneInv, LogInv
  <2>. QED BY <2>2, <2>3
<1>9. CASE CleanSite(r)
  <2>1. /\ UNCHANGED <<landing, events, tombs>> /\ step[r] = "clean"
        /\ site' = [site EXCEPT ![s] = None] /\ End(r)
    BY <1>9 DEF CleanSite, deployTables
  <2>2. VersionIsFree'
    BY <1>0, <2>1 DEF VersionIsFree, End, At, DeployTypeOK
  <2>3. SiteInHand'
    BY <1>0, <1>a, <2>1
       DEF OneInv, SiteInHand, Replacing, Matches, End, At, DeployTypeOK
  <2>. QED BY <2>1, <2>2, <2>3, QuietOne
<1>. QED BY <1>1, <1>2, <1>3, <1>4, <1>5, <1>6, <1>7, <1>8, <1>9 DEF Admin, DeployStep

LEMMA NextOne == OneAtATime /\ TypeOK /\ OneInv /\ [Next]_vars => OneInv'
<1> SUFFICES ASSUME OneAtATime, TypeOK, OneInv, [Next]_vars
             PROVE  OneInv'
  OBVIOUS
<1>1. CASE MasterAct
  BY <1>1, StepOne DEF MasterAct, TypeOK
<1>2. CASE MasterCrash
  <2>1. /\ UNCHANGED <<landing, events, tombs>> /\ "master" \in Faults
        /\ \A r \in Requests : step'[r] = "idle"
    BY <1>2, OutboxFrames DEF MasterCrash, Fault, RequestsEnd
  <2>. QED BY <2>1, QuietOne DEF VersionIsFree, SiteInHand, Replacing, Matches
<1>3. CASE ~MasterAct /\ ~MasterCrash
  <2>1. UNCHANGED deployVars
    BY <1>3, OutboxFrames, OtherFrames
  <2>. QED BY <2>1 DEF deployVars, OneInv, LogInv, EventsBelowRow, VersionsClimb,
                       DeletionsLeaveTombs, DeletedBetween, VersionIsFree, SiteInHand,
                       Replacing, Matches, Kept
<1>. QED BY <1>1, <1>2, <1>3

(***************************************************************************)
(* While the admin's requests run one after the other, the versions of a   *)
(* slug that was never deleted count up from its row, and its files belong *)
(* to the request at work, or to the row unless the master stops.          *)
(***************************************************************************)
THEOREM RequestInvariant == ASSUME OneAtATime PROVE Spec => []OneInv
<1>1. Init => OneInv
  BY DEF Init, DeployInit, OutboxInit, OneInv, LogInv, EventsBelowRow, VersionsClimb,
         DeletionsLeaveTombs, VersionIsFree, SiteInHand, Replacing, Matches, Kept
<1>2. LandingInv /\ OneInv /\ [Next]_vars => OneInv'
  BY OneAtATime, NextOne DEF LandingInv
<1>. QED BY <1>1, <1>2, LandingInvariant, PTL DEF Spec

(***************************************************************************)
(* With requests one after the other, the files the master serves between  *)
(* them are those of the row of each slug that was never deleted.  The     *)
(* master may not stop: it could between the files and the row.            *)
(***************************************************************************)
THEOREM ServedPackageIsPublished ==
  ASSUME OneAtATime, "master" \notin Faults PROVE Spec => []ServedIsPublished
<1>1. OneInv => ServedIsPublished
  BY DEF OneInv, SiteInHand, ServedIsPublished, Replacing, Matches
<1>. QED BY <1>1, OneAtATime, RequestInvariant, LandingInvariant, PTL

(***************************************************************************)
(* With requests one after the other, no version of a slug that was never  *)
(* deleted names two packages.                                             *)
(***************************************************************************)
THEOREM VersionsNamePackages ==
  ASSUME OneAtATime PROVE Spec => []VersionNamesPackage
<1>1. LandingInv /\ OneInv => VersionNamesPackage
  <2> SUFFICES ASSUME LandingInv, OneInv, NEW i \in 1..Len(events), NEW j \in 1..Len(events),
                      events[i].slug \in Kept, events[i].slug = events[j].slug,
                      events[i].ver = events[j].ver, i < j
               PROVE  FALSE
    <3>1. \A i, j \in 1..Len(events) : i < j \/ j < i \/ i = j
      BY DEF LandingInv, TypeOK, DeployTypeOK
    <3>. QED BY <3>1 DEF VersionNamesPackage
  <2>1. events[i].kind # "delete" /\ events[j].kind # "delete"
    BY DEF OneInv, LogInv, DeletionsLeaveTombs
  <2>2. ~DeletedBetween(events, events[i].slug, i, j)
    BY DEF OneInv, LogInv, DeletionsLeaveTombs, DeletedBetween, LandingInv, TypeOK,
           DeployTypeOK
  <2>3. events[i].ver < events[j].ver
    BY <2>1, <2>2 DEF OneInv, LogInv, VersionsClimb
  <2>4. events[i] \in Message
    BY DEF LandingInv, TypeOK, DeployTypeOK
  <2>. QED BY <2>3, <2>4 DEF Message
<1>. QED BY <1>1, OneAtATime, RequestInvariant, LandingInvariant, PTL

-----------------------------------------------------------------------------
(***************************************************************************)
(* With one path: a pull runs its items or its reaper, a queue its         *)
(* consumer, so that no two tasks are at work on one slug.                 *)
(***************************************************************************)
OnePath == ~UseAmqp \/ ~UsePull

PathInv ==
  /\ ~UsePull => mode = "idle"
  /\ ~UseAmqp => unsent = {} /\ wire = <<>> /\ queue = <<>> /\ pc[Consumer] = "idle"
  /\ mode # "apply" => \A s \in Slugs : pc[s] = "idle"
  /\ mode \in {"idle", "apply"} => pc[Reaper] = "idle"
  /\ \A s \in Slugs : pc[s] # "idle" => Slug(s) = s

RowServed(s) ==
  edgeSite[s] = IF edgeRow[s] = None THEN None ELSE edgeRow[s].sum

(* What the task that is at work on a slug knows of its files and row. *)
TaskKnows(t) ==
  /\ pc[t] = "store" => edgeSite[Slug(t)] = job[t].sum
  /\ pc[t] = "remove" => edgeRow[Slug(t)] = None
  /\ pc[t] \notin {"idle", "store", "remove"} => RowServed(Slug(t))

ServeInv == PathInv /\ ServedIsRow /\ \A t \in Tasks : TaskKnows(t)

LEMMA NextPath == OnePath /\ TypeOK /\ PathInv /\ [Next]_vars => PathInv'
<1> SUFFICES ASSUME OnePath, TypeOK, PathInv, [Next]_vars
             PROVE  PathInv'
  OBVIOUS
<1> USE EdgeAssumption DEF Tasks
<1>1. CASE UNCHANGED <<mode, unsent, wire, queue, pc, job>>
  BY <1>1 DEF PathInv, Slug
<1>2. CASE MasterAct
  <2>1. UNCHANGED <<mode, wire, queue, pc, job>> /\ (~UseAmqp => unsent' = unsent)
    BY <1>2, MasterFrames DEF edgeVars, taskVars, pullVars, lineVars
  <2>. QED BY <2>1 DEF PathInv, Slug
<1>10. CASE OutboxAct \/ MasterCrash
  <2>1. UNCHANGED <<mode, pc, job>>
    BY <1>10, OutboxFrames DEF edgeVars, taskVars, pullVars
  <2>2. ~UseAmqp => batch = {} /\ unsent = {} /\ ~written /\ wire = <<>> /\ queue = <<>>
    BY DEF PathInv, TypeOK, OutboxTypeOK, Sendable
  <2>3. ~UseAmqp => unsent' = {} /\ wire' = <<>> /\ queue' = <<>>
    BY <1>10, <2>2, OutboxFrames
       DEF StartFlush, Send, MarkSent, PublishFails, MarkFails, BrokerAccepts, LinkLost,
           MasterStops, BufferLost, Sendable, lineVars
  <2>. QED BY <2>1, <2>3 DEF PathInv, Slug
<1>3. CASE Deliver
  BY <1>3
     DEF Deliver, Start, Goto, PathInv, Slug, TypeOK, EdgeTypeOK, pullVars, outboxVars,
         lineVars, flushVars
<1>4. CASE Settle
  BY <1>4
     DEF Settle, Stop, Goto, PathInv, Slug, TypeOK, EdgeTypeOK, pullVars, flushVars, Ended
<1>5. ASSUME NEW t \in Tasks, TaskStep(t), UNCHANGED <<unsent, wire, queue>>
      PROVE  PathInv'
  <2>1. /\ pc[t] # "idle" /\ job' = job /\ mode' = mode
        /\ pc' = [pc EXCEPT ![t] = pc'[t]]
    BY <1>5 DEF TaskStep, Check, Compare, Lock, Downloaded, Store, Find, Drop, Remove,
                Mark, Goto, pullVars, TypeOK, EdgeTypeOK
  <2>. QED BY <1>5, <2>1 DEF PathInv, Slug, TypeOK, EdgeTypeOK
<1>6. CASE DownloadLost
  <2> PICK t \in Tasks : DownloadFails(t, "failed") \/ DownloadFails(t, "corrupt")
    BY <1>6 DEF DownloadLost
  <2>1. /\ pc[t] # "idle" /\ job' = job /\ mode' = mode
        /\ pc' = [pc EXCEPT ![t] = pc'[t]]
    BY DEF DownloadFails, Goto, pullVars, TypeOK, EdgeTypeOK
  <2>2. UNCHANGED <<unsent, wire, queue>>
    BY <1>6 DEF DownloadLost, outboxVars, flushVars, lineVars
  <2>. QED BY <2>1, <2>2 DEF PathInv, Slug, TypeOK, EdgeTypeOK
<1>7. CASE PullStep /\ UNCHANGED <<unsent, wire, queue>>
  <2>1. UNCHANGED <<unsent, wire, queue>>
    BY <1>7
  <2>2. CASE Reap \/ Reaped \/ BeginItems \/ EndItems \/ EndPull
    BY <2>1, <2>2
       DEF Reap, Reaped, BeginItems, EndItems, EndPull, Start, Stop, Goto, PathInv, Slug,
           TypeOK, EdgeTypeOK, taskVars
  <2>3. ASSUME NEW s \in Slugs, StartItem(s) \/ ItemEnds(s)
        PROVE  PathInv'
    BY <2>1, <2>3
       DEF StartItem, ItemEnds, Start, Stop, Goto, PathInv, Slug, TypeOK, EdgeTypeOK,
           pullVars, Ended
  <2>. QED BY <1>7, <2>2, <2>3 DEF PullStep
<1>8. ASSUME NEW isFull \in BOOLEAN, Pull(isFull)
      PROVE  PathInv'
  BY <1>8 DEF Pull, Fetch, PathInv, Slug, taskVars, outboxVars, flushVars, lineVars
<1>9. CASE EdgeCrash
  BY <1>9 DEF EdgeCrash, EdgeRestart, PathInv, Slug, outboxVars, flushVars, lineVars
<1>. QED
  BY <1>1, <1>2, <1>3, <1>4, <1>5, <1>6, <1>7, <1>8, <1>9, <1>10
     DEF Next, EdgeAct, vars, edgeVars, outboxVars, flushVars, lineVars, taskVars, pullVars

(* No two tasks are at work on one slug. *)
LEMMA OneTask ==
  ASSUME OnePath, PathInv, NEW t \in Tasks, NEW u \in Tasks,
         pc[t] # "idle", pc[u] # "idle", Slug(t) = Slug(u)
  PROVE  t = u
  BY EdgeAssumption DEF OnePath, PathInv, Tasks

(* A step of one task, which changes the files or the row of its slug. *)
LEMMA TaskServe ==
  ASSUME OnePath, EdgeTypeOK, PathInv, ServeInv, NEW t \in Tasks, pc[t] # "idle",
         pc' = [pc EXCEPT ![t] = pc'[t]], job' = job,
         \A s \in Slugs : s # Slug(t) => /\ edgeRow'[s] = edgeRow[s]
                                         /\ edgeSite'[s] = edgeSite[s],
         pc'[t] # "idle", TaskKnows(t)'
  PROVE  ServedIsRow' /\ \A u \in Tasks : TaskKnows(u)'
<1>1. /\ pc'[t] # "idle" /\ Slug(t)' = Slug(t)
      /\ \A u \in Tasks : u # t => pc'[u] = pc[u]
  BY DEF EdgeTypeOK, Slug
<1>2. \A u \in Tasks : u # t /\ pc[u] # "idle" => Slug(u) \in Slugs /\ Slug(u) # Slug(t)
  BY RunningJob, OneTask
<1>3. \A u \in Tasks : TaskKnows(u)'
  <2> SUFFICES ASSUME NEW u \in Tasks, u # t
               PROVE  TaskKnows(u)'
    OBVIOUS
  <2>. QED BY <1>1, <1>2 DEF ServeInv, TaskKnows, RowServed, Slug
<1>4. ServedIsRow'
  <2> SUFFICES ASSUME NEW s \in Slugs, \A u \in Tasks : pc'[u] # "idle" => Slug(u)' # s
               PROVE  RowServed(s)'
    BY DEF ServedIsRow, RowServed, Slug
  <2>1. s # Slug(t)
    BY <1>1
  <2>2. \A u \in Tasks : pc[u] # "idle" => Slug(u) # s
    BY <1>1, <2>1 DEF Slug
  <2>. QED BY <2>1, <2>2 DEF ServeInv, ServedIsRow, RowServed
<1>. QED BY <1>3, <1>4

(* A task starts, or ends with what it knows. *)
LEMMA TaskChanges ==
  ASSUME EdgeTypeOK, ServeInv, NEW t \in Tasks, UNCHANGED stores,
         \A u \in Tasks : u # t => pc'[u] = pc[u] /\ job'[u] = job[u],
         \/ /\ pc[t] = "idle" /\ pc'[t] \in {"check", "find"}
            /\ job'[t] \in Message
         \/ pc[t] \in Ended /\ pc'[t] = "idle",
         \A u \in Tasks : pc[u] # "idle" /\ pc[t] = "idle" => Slug(u) # job'[t].slug
  PROVE  ServedIsRow' /\ \A u \in Tasks : TaskKnows(u)'
<1>1. \A u \in Tasks : u # t => TaskKnows(u)'
  BY DEF ServeInv, TaskKnows, RowServed, Slug, stores
<1>2. CASE pc[t] = "idle"
  <2>1. job'[t].slug \in Slugs
    BY <1>2 DEF Ended, Message
  <2>2. RowServed(job'[t].slug)
    BY <1>2, <2>1 DEF ServeInv, ServedIsRow, RowServed, Ended
  <2>3. TaskKnows(t)'
    BY <1>2, <2>2 DEF TaskKnows, RowServed, Slug, Ended, stores
  <2>4. ServedIsRow'
    BY <1>2 DEF ServeInv, ServedIsRow, Slug, stores, Ended
  <2>. QED BY <1>1, <2>3, <2>4
<1>3. CASE pc[t] # "idle"
  <2>1. RowServed(Slug(t)) /\ pc[t] \in Ended /\ pc'[t] = "idle"
    BY <1>3 DEF ServeInv, TaskKnows, Ended
  <2>2. TaskKnows(t)'
    BY <2>1 DEF TaskKnows
  <2>3. ServedIsRow'
    <3> SUFFICES ASSUME NEW s \in Slugs, \A u \in Tasks : pc'[u] # "idle" => Slug(u)' # s
                 PROVE  RowServed(s)
      BY DEF ServedIsRow, RowServed, Slug, stores
    <3>1. CASE Slug(t) = s
      BY <2>1, <3>1
    <3>2. CASE Slug(t) # s
      <4>1. \A u \in Tasks : pc[u] # "idle" => Slug(u) # s
        BY <3>2 DEF Slug
      <4>. QED BY <4>1 DEF ServeInv, ServedIsRow, RowServed
    <3>. QED BY <3>1, <3>2
  <2>. QED BY <1>1, <2>2, <2>3
<1>. QED BY <1>2, <1>3

LEMMA NextServe ==
  OnePath /\ "edge" \notin Faults /\ TypeOK /\ ServeInv /\ [Next]_vars
    => ServedIsRow' /\ \A t \in Tasks : TaskKnows(t)'
<1> SUFFICES ASSUME OnePath, "edge" \notin Faults, TypeOK, ServeInv, [Next]_vars
             PROVE  ServedIsRow' /\ \A t \in Tasks : TaskKnows(t)'
  OBVIOUS
<1>0. PathInv /\ EdgeTypeOK
  BY DEF ServeInv, TypeOK
<1>1. CASE UNCHANGED <<edgeRow, edgeSite, pc, job>>
  BY <1>1 DEF ServeInv, ServedIsRow, TaskKnows, RowServed, Slug
<1>2. CASE Deliver
  <2>1. /\ pc[Consumer] = "idle" /\ UNCHANGED stores
        /\ pc' = [pc EXCEPT ![Consumer] = "check"]
        /\ job' = [job EXCEPT ![Consumer] = events[Head(queue)]]
        /\ events[Head(queue)] \in Message /\ queue # <<>>
    <3>1. Head(queue) \in 1..Len(events)
      BY <1>2 DEF Deliver, TypeOK, OutboxTypeOK, Indices
    <3>2. events[Head(queue)] \in Message
      BY <3>1 DEF TypeOK, DeployTypeOK
    <3>. QED BY <1>2, <3>2 DEF Deliver, Start, Goto
  <2>2. \A u \in Tasks : pc[u] = "idle"
    <3>1. UseAmqp /\ ~UsePull
      BY <1>0, <2>1 DEF OnePath, PathInv
    <3>. QED BY <1>0, <2>1, <3>1 DEF PathInv, Tasks
  <2>3. Consumer \in Tasks
    BY DEF Tasks
  <2>. QED BY <1>0, <2>1, <2>2, <2>3, TaskChanges DEF EdgeTypeOK
<1>3. CASE Settle
  <2>1. /\ pc[Consumer] \in Ended /\ UNCHANGED stores
        /\ pc' = [pc EXCEPT ![Consumer] = "idle"]
        /\ job' = [job EXCEPT ![Consumer] = None]
    BY <1>3 DEF Settle, Stop, Goto
  <2>2. Consumer \in Tasks
    BY DEF Tasks
  <2>. QED BY <1>0, <2>1, <2>2, TaskChanges DEF EdgeTypeOK, Ended
<1>4. ASSUME NEW t \in Tasks, TaskStep(t)
      PROVE  ServedIsRow' /\ \A u \in Tasks : TaskKnows(u)'
  <2>1. pc[t] # "idle" /\ job' = job
    BY <1>4 DEF TaskStep, Check, Compare, Lock, Downloaded, Store, Find, Drop, Remove,
                Mark
  <2>2. Slug(t) \in Slugs /\ Slug(t)' = Slug(t) /\ TaskKnows(t)
    BY <1>0, <2>1, RunningJob DEF ServeInv, Slug
  <2>3. pc' = [pc EXCEPT ![t] = pc'[t]] /\ pc'[t] # "idle"
    BY <1>0, <1>4
       DEF TaskStep, Check, Compare, Lock, Downloaded, Store, Find, Drop, Remove, Mark,
           Goto, EdgeTypeOK
  <2>4. \A s \in Slugs : s # Slug(t) => /\ edgeRow'[s] = edgeRow[s]
                                        /\ edgeSite'[s] = edgeSite[s]
    BY <1>0, <1>4
       DEF TaskStep, Check, Compare, Lock, Downloaded, Store, Find, Drop, Remove, Mark,
           Remaining, EdgeTypeOK, stores
  <2>5. TaskKnows(t)'
    <3> USE <1>0, <2>1, <2>2 DEF TaskKnows, RowServed, Goto, EdgeTypeOK, stores
    <3>1. CASE Check(t)
      BY <3>1 DEF Check
    <3>2. CASE Compare(t)
      BY <3>2 DEF Compare
    <3>3. CASE Lock(t)
      BY <3>3 DEF Lock
    <3>4. CASE Downloaded(t)
      BY <3>4 DEF Downloaded
    <3>5. CASE Store(t)
      <4> DEFINE row == [ver |-> job[t].ver, sum |-> job[t].sum]
      <4>1. row # None
        <5>1. job[t].ver \in Times /\ job[t].sum \in Checksum
          BY <3>5, RunningJob DEF Store
        <5>. QED BY <5>1, LocalAssumption DEF Local
      <4>2. /\ edgeRow' = [edgeRow EXCEPT ![Slug(t)] = row] /\ edgeSite' = edgeSite
            /\ pc[t] = "store" /\ pc' = [pc EXCEPT ![t] = "mark"]
        BY <3>5 DEF Store
      <4>3. row.sum = job[t].sum
        OBVIOUS
      <4> HIDE DEF row
      <4>. QED BY <4>1, <4>2, <4>3
    <3>6. CASE Find(t)
      BY <3>6 DEF Find
    <3>7. CASE Drop(t)
      BY <3>7 DEF Drop
    <3>8. CASE Remove(t)
      BY <3>8 DEF Remove, Remaining
    <3>9. CASE Mark(t)
      BY <3>9 DEF Mark
    <3>. QED BY <1>4, <3>1, <3>2, <3>3, <3>4, <3>5, <3>6, <3>7, <3>8, <3>9 DEF TaskStep
  <2>. QED BY <1>0, <2>1, <2>3, <2>4, <2>5, TaskServe
<1>5. CASE DownloadLost
  <2> PICK t \in Tasks : DownloadFails(t, "failed") \/ DownloadFails(t, "corrupt")
    BY <1>5 DEF DownloadLost
  <2>1. /\ pc[t] = "download" /\ job' = job /\ UNCHANGED stores
        /\ pc' = [pc EXCEPT ![t] = pc'[t]] /\ pc'[t] \in {"failed", "corrupt"}
    BY <1>0 DEF DownloadFails, Goto, EdgeTypeOK
  <2>2. TaskKnows(t)'
    BY <2>1 DEF ServeInv, TaskKnows, RowServed, Slug, stores
  <2>. QED BY <1>0, <2>1, <2>2, TaskServe DEF stores
<1>6. CASE PullStep
  <2>1. CASE BeginItems \/ EndItems \/ EndPull
    BY <1>1, <2>1 DEF BeginItems, EndItems, EndPull, taskVars, stores
  <2>2. CASE Reap
    <3> PICK s \in todo : Start(Reaper, Deletion(s, 0), "find")
      BY <2>2 DEF Reap
    <3>1. /\ pc[Reaper] = "idle" /\ UNCHANGED stores /\ mode \in {"delete", "cleanup"}
          /\ pc' = [pc EXCEPT ![Reaper] = "find"]
          /\ job' = [job EXCEPT ![Reaper] = Deletion(s, 0)]
          /\ s \in Slugs
      BY <1>0, <2>2 DEF Reap, Start, Goto, EdgeTypeOK
    <3>2. Deletion(s, 0) \in Message /\ Deletion(s, 0).slug = s
      BY <3>1, MessagesAreMessages DEF Deletion
    <3>3. \A u \in Tasks : pc[u] = "idle"
      BY <1>0, <3>1 DEF OnePath, PathInv, Tasks
    <3>4. Reaper \in Tasks
      BY DEF Tasks
    <3>. QED BY <1>0, <3>1, <3>2, <3>3, <3>4, TaskChanges DEF EdgeTypeOK
  <2>3. CASE Reaped
    <3>1. /\ pc[Reaper] \in Ended /\ UNCHANGED stores
          /\ pc' = [pc EXCEPT ![Reaper] = "idle"]
          /\ job' = [job EXCEPT ![Reaper] = None]
      BY <2>3 DEF Reaped, Stop, Goto
    <3>2. Reaper \in Tasks
      BY DEF Tasks
    <3>. QED BY <1>0, <3>1, <3>2, TaskChanges DEF EdgeTypeOK, Ended
  <2>4. ASSUME NEW s \in Slugs, StartItem(s)
        PROVE  ServedIsRow' /\ \A u \in Tasks : TaskKnows(u)'
    <3> PICK m \in todo : m.slug = s /\ Start(s, m, "check")
      BY <2>4 DEF StartItem
    <3>1. /\ pc[s] = "idle" /\ UNCHANGED stores /\ mode = "apply"
          /\ pc' = [pc EXCEPT ![s] = "check"]
          /\ job' = [job EXCEPT ![s] = m]
          /\ m \in Message /\ s \in Tasks
      BY <1>0, <2>4 DEF StartItem, Start, Goto, EdgeTypeOK, Tasks
    <3>2. \A u \in Tasks : pc[u] # "idle" => Slug(u) # s
      BY <1>0, <3>1 DEF OnePath, PathInv, Tasks
    <3>. QED BY <1>0, <3>1, <3>2, TaskChanges DEF EdgeTypeOK
  <2>5. ASSUME NEW s \in Slugs, ItemEnds(s)
        PROVE  ServedIsRow' /\ \A u \in Tasks : TaskKnows(u)'
    <3>1. /\ pc[s] \in Ended /\ UNCHANGED stores
          /\ pc' = [pc EXCEPT ![s] = "idle"]
          /\ job' = [job EXCEPT ![s] = None]
          /\ s \in Tasks
      BY <2>5 DEF ItemEnds, Stop, Goto, Tasks
    <3>. QED BY <1>0, <3>1, TaskChanges DEF EdgeTypeOK, Ended
  <2>. QED BY <1>6, <2>1, <2>2, <2>3, <2>4, <2>5 DEF PullStep
<1>7. ~EdgeCrash
  BY DEF EdgeCrash, Fault
<1>. QED
  BY <1>1, <1>2, <1>3, <1>4, <1>5, <1>6, <1>7, OutboxFrames
     DEF Next, vars, edgeVars, stores, taskVars, MasterAct, EdgeAct, Pull, Fetch

(***************************************************************************)
(* With one path, and without a restart, every landing at rest is served   *)
(* as its row says, however many requests and failed downloads there are.  *)
(***************************************************************************)
THEOREM ServedPackageIsRow ==
  ASSUME OnePath, "edge" \notin Faults
  PROVE  Spec => []ServedIsRow
<1>1. Init => ServeInv
  BY DEF Init, OutboxInit, EdgeInit, ServeInv, PathInv, ServedIsRow, TaskKnows, RowServed,
         Tasks
<1>2. LandingInv /\ ServeInv /\ [Next]_vars => ServeInv'
  <2> SUFFICES ASSUME LandingInv, ServeInv, [Next]_vars
               PROVE  ServeInv'
    OBVIOUS
  <2>1. TypeOK /\ PathInv
    BY DEF LandingInv, ServeInv
  <2>2. PathInv'
    BY <2>1, OnePath, NextPath
  <2>3. ServedIsRow' /\ \A t \in Tasks : TaskKnows(t)'
    BY <2>1, OnePath, NextServe
  <2>. QED BY <2>2, <2>3 DEF ServeInv
<1>3. ServeInv => ServedIsRow
  BY DEF ServeInv
<1>. QED BY <1>1, <1>2, <1>3, LandingInvariant, PTL DEF Spec

-----------------------------------------------------------------------------
(***************************************************************************)
(* The keys of the events are unique: a confirmed one is not written when  *)
(* its key exists, and what a resent or deleting one is named by is the    *)
(* time of its request, which no other has.                                *)
(***************************************************************************)
KeysAreUnique == \A i, j \in 1..Len(events) : events[i] = events[j] => i = j

KeysAreFresh ==
  /\ \A i \in 1..Len(events) :
       /\ events[i].kind = "delete" => events[i].ver < clock
       /\ events[i].kind = "resent" => events[i].sum \in 1..clock-1
  /\ \A r \in Requests :
       step[r] = "rebuild" =>
         /\ arg[r].sum \in 1..clock-1
         /\ \A i \in 1..Len(events) :
              events[i].kind = "resent" => events[i].sum # arg[r].sum
         /\ \A q \in Requests :
              q # r /\ step[q] = "rebuild" => arg[q].sum # arg[r].sum

KeyInv == KeysAreUnique /\ KeysAreFresh

(* Another event is written by a request that is then not at "rebuild". *)
LEMMA KeysAfter ==
  ASSUME DeployTypeOK, KeyInv, NEW r \in Requests, NEW m \in Message, Announce(m),
         clock' = clock + 1,
         \A q \in Requests : q # r => step'[q] = step[q] /\ arg'[q] = arg[q],
         step'[r] # "rebuild", ~Logged(m),
         m.kind = "delete" => m.ver = clock,
         m.kind = "resent" =>
           step[r] = "rebuild" /\ m.sum = arg[r].sum
  PROVE  KeyInv'
<1>1. /\ Len(events) \in Nat /\ Len(events') = Len(events) + 1
      /\ events'[Len(events) + 1] = m
      /\ \A i \in 1..Len(events) :
           events'[i] = events[i] /\ events[i] # m /\ events[i].ver \in Nat
  BY LogAfter DEF Logged
<1>2. clock \in Nat /\ clock' = clock + 1
  BY DEF DeployTypeOK, Times
<1>3. KeysAreUnique'
  <2> SUFFICES ASSUME NEW i \in 1..Len(events'), NEW j \in 1..Len(events'),
                      events'[i] = events'[j]
               PROVE  i = j
    BY DEF KeysAreUnique
  <2>1. CASE i = Len(events) + 1 \/ j = Len(events) + 1
    BY <1>1, <2>1
  <2>2. CASE i # Len(events) + 1 /\ j # Len(events) + 1
    <3>1. i \in 1..Len(events) /\ j \in 1..Len(events)
      BY <1>1, <2>2
    <3>. QED BY <1>1, <3>1 DEF KeyInv, KeysAreUnique
  <2>. QED BY <2>1, <2>2
<1>4. \A i \in 1..Len(events') :
        /\ events'[i].kind = "delete" => events'[i].ver < clock'
        /\ events'[i].kind = "resent" => events'[i].sum \in 1..clock'-1
  <2> SUFFICES ASSUME NEW i \in 1..Len(events')
               PROVE  /\ events'[i].kind = "delete" => events'[i].ver < clock'
                      /\ events'[i].kind = "resent" => events'[i].sum \in 1..clock'-1
    OBVIOUS
  <2>1. CASE i = Len(events) + 1
    BY <1>1, <1>2, <2>1 DEF KeyInv, KeysAreFresh
  <2>2. CASE i # Len(events) + 1
    <3>1. i \in 1..Len(events) /\ events'[i] = events[i]
      BY <1>1, <2>2
    <3>. QED BY <1>1, <1>2, <3>1 DEF KeyInv, KeysAreFresh
  <2>. QED BY <2>1, <2>2
<1>5. \A q \in Requests : step'[q] = "rebuild" =>
        /\ q # r /\ step[q] = "rebuild" /\ arg'[q] = arg[q]
        /\ arg[q].sum \in 1..clock'-1
        /\ \A p \in Requests :
             p # q /\ step'[p] = "rebuild" => arg'[p].sum # arg'[q].sum
  BY <1>2 DEF KeyInv, KeysAreFresh
<1>6. ASSUME NEW q \in Requests, step'[q] = "rebuild", NEW i \in 1..Len(events'),
             events'[i].kind = "resent"
      PROVE  events'[i].sum # arg'[q].sum
  <2>1. CASE i = Len(events) + 1
    BY <1>1, <1>5, <1>6, <2>1 DEF KeyInv, KeysAreFresh
  <2>2. CASE i # Len(events) + 1
    <3>1. i \in 1..Len(events) /\ events'[i] = events[i]
      BY <1>1, <2>2
    <3>2. step[q] = "rebuild" /\ arg'[q] = arg[q]
      BY <1>5, <1>6
    <3>3. events[i].sum # arg[q].sum
      BY <1>6, <3>1, <3>2 DEF KeyInv, KeysAreFresh
    <3>. QED BY <3>1, <3>2, <3>3
  <2>. QED BY <2>1, <2>2
<1>. QED BY <1>3, <1>4, <1>5, <1>6 DEF KeyInv, KeysAreFresh

LEMMA StepKeys ==
  ASSUME DeployTypeOK, KeyInv, NEW r \in Requests, Admin(r) \/ DeployStep(r)
  PROVE  KeyInv'
<1> DEFINE s == arg[r].slug
<1>0. /\ step[r] # "idle" => s \in Slugs
      /\ step[r] \in {"publish", "rebuild"} => arg[r].ver \in Times /\ arg[r].sum \in Checksum
      /\ clock \in Nat \ {0}
  BY RunningArg DEF DeployTypeOK, Times
<1>1. CASE /\ UNCHANGED <<events, clock>>
           /\ \A q \in Requests : step'[q] = "rebuild" =>
                step[q] = "rebuild" /\ arg'[q] = arg[q]
  BY <1>1 DEF KeyInv, KeysAreUnique, KeysAreFresh
<1>2. CASE Admin(r) \/ ReadVersion(r) \/ FindLanding(r) \/ CleanSite(r)
  BY <1>1, <1>2 DEF Admin, BeginConfirm, BeginResend, BeginDelete, Begin, ReadVersion,
                    FindLanding, CleanSite, deployTables, End, At, DeployTypeOK
<1>3. CASE Publish(r)
  <2> DEFINE m == Confirmed(s, arg[r].ver, arg[r].sum)
  <2>1. CASE Logged(m)
    BY <1>1, <1>3, <2>1 DEF Publish, deployTables, End, At, DeployTypeOK
  <2>2. CASE ~Logged(m)
    <3>1. m \in Message /\ m.kind = "confirmed"
      BY <1>0, <1>3, MessagesAreMessages DEF Publish, Confirmed
    <3>2. /\ Announce(m) /\ clock' = clock + 1 /\ End(r)
          /\ \A q \in Requests : q # r => step'[q] = step[q] /\ arg'[q] = arg[q]
          /\ step'[r] = "idle"
      BY <1>3, <2>2 DEF Publish, End, At, DeployTypeOK
    <3>. QED BY <2>2, <3>1, <3>2, KeysAfter
  <2>. QED BY <2>1, <2>2
<1>4. CASE Rebuild(r)
  <2>1. CASE landing[s] = None \/ site[s] = None
    BY <1>1, <1>4, <2>1 DEF Rebuild, End, At, DeployTypeOK
  <2>2. CASE ~(landing[s] = None \/ site[s] = None)
    <3> DEFINE new == [arg[r] EXCEPT !.ver = landing[s].ver + 1, !.sum = clock]
    <3>1. new.sum = clock
      <4>1. arg[r] \in [slug : Slugs, sum : Checksum \cup {None}, ver : Nat]
        BY <1>4, RunningArg DEF Rebuild
      <4>. QED BY <4>1
    <3>2. arg' = [arg EXCEPT ![r] = new]
      BY <1>4, <2>2, Zenon DEF Rebuild
    <3>3. UNCHANGED events /\ clock' = clock + 1 /\ At(r, "rebuild")
      BY <1>4, <2>2 DEF Rebuild
    <3> HIDE DEF new
    <3>4. /\ arg'[r].sum = clock
          /\ \A q \in Requests : q # r => step'[q] = step[q] /\ arg'[q] = arg[q]
      BY <3>1, <3>2, <3>3 DEF At, DeployTypeOK
    <3>5. \A i \in 1..Len(events) : events[i].ver \in Nat
      <4>1. \A i \in 1..Len(events) : events[i] \in Message
        BY DEF DeployTypeOK
      <4>. QED BY <4>1 DEF Message
    <3>6. KeysAreFresh'
      BY <1>0, <3>3, <3>4, <3>5 DEF KeyInv, KeysAreFresh
    <3>. QED BY <3>3, <3>6 DEF KeyInv, KeysAreUnique
  <2>. QED BY <2>1, <2>2
<1>5. CASE Republish(r)
  <2> DEFINE m == Resent(s, arg[r].ver, arg[r].sum)
  <2>1. CASE landing[s] = None
    BY <1>1, <1>5, <2>1 DEF Republish, deployTables, End, At, DeployTypeOK
  <2>2. CASE landing[s] # None
    <3>1. m \in Message /\ m.kind = "resent" /\ m.sum = arg[r].sum /\ step[r] = "rebuild"
      BY <1>0, <1>5, MessagesAreMessages DEF Republish, Resent
    <3>2. /\ Announce(m) /\ clock' = clock + 1 /\ End(r)
          /\ \A q \in Requests : q # r => step'[q] = step[q] /\ arg'[q] = arg[q]
          /\ step'[r] = "idle"
      BY <1>5, <2>2 DEF Republish, End, At, DeployTypeOK
    <3>3. ~Logged(m)
      BY <3>1 DEF Logged, KeyInv, KeysAreFresh
    <3>. QED BY <3>1, <3>2, <3>3, KeysAfter
  <2>. QED BY <2>1, <2>2
<1>6. CASE DeleteRow(r)
  <2> DEFINE m == Deletion(s, clock)
  <2>1. CASE landing[s] = None
    BY <1>1, <1>6, <2>1 DEF DeleteRow, deployTables, End, At, DeployTypeOK
  <2>2. CASE landing[s] # None
    <3>1. m \in Message /\ m.kind = "delete" /\ m.ver = clock
      BY <1>0, <1>6, MessagesAreMessages DEF DeleteRow, Deletion
    <3>2. /\ Announce(m) /\ clock' = clock + 1 /\ UNCHANGED arg
          /\ \A q \in Requests : q # r => step'[q] = step[q] /\ arg'[q] = arg[q]
          /\ step'[r] = "clean"
      BY <1>6, <2>2 DEF DeleteRow, At, DeployTypeOK
    <3>3. ~Logged(m)
      BY <1>0, <3>1 DEF Logged, KeyInv, KeysAreFresh
    <3>. QED BY <3>1, <3>2, <3>3, KeysAfter
  <2>. QED BY <2>1, <2>2
<1>. QED BY <1>2, <1>3, <1>4, <1>5, <1>6 DEF DeployStep

LEMMA NextKeys == TypeOK /\ KeyInv /\ [Next]_vars => KeyInv'
<1> SUFFICES ASSUME TypeOK, KeyInv, [Next]_vars
             PROVE  KeyInv'
  OBVIOUS
<1>1. CASE MasterAct
  BY <1>1, StepKeys DEF MasterAct, TypeOK
<1>2. CASE MasterCrash
  <2>1. UNCHANGED <<events, clock>> /\ \A r \in Requests : step'[r] = "idle"
    BY <1>2, OutboxFrames DEF RequestsEnd
  <2>. QED BY <2>1 DEF KeyInv, KeysAreUnique, KeysAreFresh
<1>3. CASE ~MasterAct /\ ~MasterCrash
  <2>1. UNCHANGED deployVars
    BY <1>3, OutboxFrames, OtherFrames
  <2>. QED BY <2>1 DEF deployVars, KeyInv, KeysAreUnique, KeysAreFresh
<1>. QED BY <1>1, <1>2, <1>3

(***************************************************************************)
(* No two events have one idempotencyKey, however requests overlap: the    *)
(* unique column is never violated by another request than a confirmation  *)
(* of what was published before.                                           *)
(***************************************************************************)
THEOREM EventKeysAreUnique == Spec => []KeysAreUnique
<1>1. Init => KeyInv
  BY DEF Init, OutboxInit, DeployInit, KeyInv, KeysAreUnique, KeysAreFresh
<1>2. LandingInv /\ KeyInv /\ [Next]_vars => KeyInv'
  BY NextKeys DEF LandingInv
<1>3. KeyInv => KeysAreUnique
  BY DEF KeyInv
<1>. QED BY <1>1, <1>2, <1>3, LandingInvariant, PTL DEF Spec

-----------------------------------------------------------------------------
(***************************************************************************)
(* The order of the queue, without pulls: the events of the whole log are  *)
(* sent in order (SendingInOrder), and the consumer handles the first of   *)
(* the line.  A row on the edge is that of an event it has handled, or is  *)
(* about to record, and a deletion behind that event is not recorded.      *)
(***************************************************************************)
QueueOnly == UseAmqp /\ ~UsePull

(* A landing whose events came out of order, or were skipped. *)
Irregular(s) == OutOfOrder(EventsOf(s)) \/ Skipped(s)

(* Only events of the log are recorded, a deletion when the row is gone,   *)
(* and what is being applied is not recorded yet.                          *)
ConsumerKnows ==
  /\ pc[Consumer] \in {"remove", "mark"} /\ job[Consumer].kind = "delete" =>
       edgeRow[Slug(Consumer)] = None
  /\ pc[Consumer] \in {"compare", "lock", "download", "store"} => job[Consumer] \notin processed
  /\ pc[Consumer] = "corrupt" => job[Consumer].kind # "delete"
  /\ \A m \in spoilt : m.kind # "delete"
  /\ \A m \in processed \cup spoilt : \E i \in Indices : events[i] = m

RowOf(s, i) ==
  /\ events[i].slug = s /\ events[i].kind # "delete"
  /\ events[i].ver = edgeRow[s].ver
  /\ i \in Handled \/ (queue # <<>> /\ i = Head(queue))
  /\ \A d \in Indices :
       i < d /\ events[d].kind = "delete" /\ events[d].slug = s => events[d] \notin processed

RowBefore ==
  \A s \in Slugs : edgeRow[s] # None => Irregular(s) \/ \E i \in Indices : RowOf(s, i)

OrderInv == SendingInOrder(Indices, Handled) /\ ConsumerKnows /\ RowBefore

(* The order of rigid sets, stated of the state's own. *)
LEMMA OrderOfState ==
  ASSUME NEW T, NEW H, T = Indices', H = Handled', SendingInOrder(T, H)'
  PROVE  SendingInOrder(Indices, Handled)'
  BY DEF SendingInOrder, TriedIsSomewhere, WrittenIsSomewhere, SentIsSomewhere,
         UntriedIsNext, LineInOrder, HandledInOrder, Somewhere, Started

(* What was out of order, or skipped, remains so. *)
LEMMA StaysIrregular ==
  ASSUME TypeOK, [Next]_vars, NEW s, Irregular(s)
  PROVE  Irregular(s)'
<1>1. /\ late \subseteq late' /\ dropped \subseteq dropped'
      /\ DOMAIN attempts \subseteq DOMAIN attempts'
  <2>1. CASE MasterAct
    BY <2>1, MasterFrames DEF histories
  <2>2. CASE OutboxAct \/ MasterCrash
    BY <2>2, OutboxFrames
       DEF StartFlush, Send, MarkSent, PublishFails, MarkFails, Fail, Abort, BrokerAccepts,
           LinkLost, MasterStops, BufferLost, histories, flushVars
  <2>3. CASE Settle
    BY <2>3 DEF Settle, flushVars, histories
  <2>4. CASE ~MasterAct /\ ~OutboxAct /\ ~MasterCrash /\ ~Settle
    BY <2>4, OtherFrames DEF outboxVars, flushVars, histories
  <2>. QED BY <2>1, <2>2, <2>3, <2>4
<1>2. EventsOf(s) \subseteq EventsOf(s)' /\ \A i \in EventsOf(s) : events'[i] = events[i]
  BY HandledStays DEF EventsOf
<1>3. spoilt \subseteq spoilt'
  BY HandledStays
<1>4. OutOfOrder(EventsOf(s)) => OutOfOrder(EventsOf(s))'
  BY <1>1, <1>2 DEF OutOfOrder, Overtaken
<1>5. Skipped(s) => Skipped(s)'
  BY <1>1, <1>2, <1>3 DEF Skipped
<1>. QED BY <1>4, <1>5 DEF Irregular

(* A step that stores no row leaves each that of its event. *)
LEMMA RowsKept ==
  ASSUME TypeOK, [Next]_vars, RowBefore,
         \A s \in Slugs : edgeRow'[s] \in {edgeRow[s], None},
         \A s \in Slugs : \A i \in Indices :
           edgeRow'[s] # None /\ RowOf(s, i) =>
             /\ i \in Handled' \/ (queue' # <<>> /\ i = Head(queue'))
             /\ \A d \in Indices' :
                  /\ i < d /\ events'[d].kind = "delete" /\ events'[d].slug = s
                  /\ d \notin Indices \/ events[d] \notin processed
                  => events'[d] \notin processed'
  PROVE  RowBefore'
<1> SUFFICES ASSUME NEW s \in Slugs, edgeRow'[s] # None, ~Irregular(s)'
             PROVE  \E i \in Indices' : RowOf(s, i)'
  BY DEF RowBefore
<1>1. edgeRow'[s] = edgeRow[s] /\ ~Irregular(s)
  BY StaysIrregular
<1>2. PICK i \in Indices : RowOf(s, i)
  BY <1>1 DEF RowBefore
<1>3. events'[i] = events[i] /\ i \in Indices' /\ \A d \in Indices : events'[d] = events[d]
  BY HandledStays
<1>4. i \in Handled' \/ (queue' # <<>> /\ i = Head(queue'))
  BY <1>2
<1>5. \A d \in Indices' :
        i < d /\ events'[d].kind = "delete" /\ events'[d].slug = s => events'[d] \notin processed'
  BY <1>2, <1>3 DEF RowOf
<1>6. RowOf(s, i)'
  BY <1>1, <1>2, <1>3, <1>4, <1>5 DEF RowOf
<1>. QED BY <1>3, <1>6

LEMMA MasterOrder ==
  ASSUME QueueOnly, TypeOK, OrderInv, KeysAreUnique', MasterAct, [Next]_vars
  PROVE  OrderInv'
<1>1. /\ UNCHANGED <<edgeVars, attempts, batch, written, lineVars, histories, spoilt>>
      /\ Pending /\ Len(events) \in Nat /\ Len(events') \in Nat /\ Len(events) <= Len(events')
      /\ \A i \in 1..Len(events) : events'[i] = events[i]
      /\ OutboxTypeOK
  BY MasterFrames DEF QueueOnly, TypeOK
<1>2. UNCHANGED <<processed, edgeRow, pc, job, queue>>
  BY <1>1 DEF edgeVars, stores, taskVars, lineVars
<1>3. \A i \in Indices' : events'[i] \in processed \cup spoilt => i \in Handled
  <2> SUFFICES ASSUME NEW i \in Indices', events'[i] \in processed \cup spoilt
               PROVE  i \in Handled
    OBVIOUS
  <2>1. PICK j \in Indices : events[j] = events'[i]
    BY DEF OrderInv, ConsumerKnows
  <2>2. j \in Indices' /\ events'[j] = events[j]
    BY <1>1 DEF Indices
  <2>3. i = j
    BY <2>1, <2>2 DEF KeysAreUnique, Indices
  <2>. QED BY <2>1, <2>2, <2>3 DEF Handled
<1>4. Handled' = Handled
  BY <1>1, <1>2, <1>3 DEF Handled, Indices
<1>5. SendingInOrder(Indices, Handled)'
  <2>1. PICK S : S = Indices
    OBVIOUS
  <2>2. PICK H : H = Handled
    OBVIOUS
  <2>3. PICK T : T = Indices'
    OBVIOUS
  <2>4. H \in SUBSET S /\ T \cap Indices = S
    BY <1>1, <2>1, <2>2, <2>3 DEF Handled, Indices
  <2>5. SendingInOrder(S, H)
    BY <2>1, <2>2 DEF OrderInv
  <2>6. SendingInOrder(T, H)'
    BY <1>1, <2>1, <2>3, <2>4, <2>5, AnnouncedOrder
  <2>. QED BY <1>4, <2>2, <2>3, <2>6, OrderOfState
<1>6. ConsumerKnows'
  <2>1. Indices \subseteq Indices' /\ \A i \in Indices : events'[i] = events[i]
    BY <1>1 DEF Indices
  <2>. QED BY <1>1, <1>2, <2>1 DEF OrderInv, ConsumerKnows, Slug
<1>7. RowBefore'
  <2>1. \A s \in Slugs : \A i \in Indices : RowOf(s, i) =>
          i \in Handled' \/ (queue' # <<>> /\ i = Head(queue'))
    BY <1>2, <1>4 DEF RowOf
  <2>2. \A d \in Indices' : d \notin Indices \/ events[d] \notin processed => events'[d] \notin processed'
    BY <1>1, <1>2, <1>3 DEF Handled, Indices
  <2>. QED BY <1>2, <2>1, <2>2, RowsKept DEF OrderInv
<1>. QED BY <1>5, <1>6, <1>7 DEF OrderInv

LEMMA SendingOrder ==
  ASSUME TypeOK, OrderInv, OutboxAct \/ MasterCrash, [Next]_vars
  PROVE  OrderInv'
<1>1. /\ UNCHANGED <<events, edgeVars, spoilt>>
      /\ \/ StartFlush \/ Send \/ MarkSent \/ PublishFails \/ MarkFails
         \/ BrokerAccepts \/ LinkLost \/ MasterStops
  BY OutboxFrames
<1>2. UNCHANGED <<processed, edgeRow, pc, job>>
  BY <1>1 DEF edgeVars, stores, taskVars
<1>3. Indices' = Indices /\ Handled' = Handled
  BY <1>1, <1>2 DEF Indices, Handled
<1>4. SendingInOrder(Indices, Handled)'
  <2>1. PICK S : S = Indices
    OBVIOUS
  <2>2. PICK H : H = Handled
    OBVIOUS
  <2>3. H \in SUBSET S /\ Len(events) \in Nat /\ OutboxTypeOK /\ SendingInOrder(S, H)
    BY <2>1, <2>2 DEF Handled, TypeOK, DeployTypeOK, OrderInv
  <2>4. SendingInOrder(S, H)'
    BY <1>1, <2>1, <2>3, OutboxOrder
  <2>. QED BY <1>3, <2>1, <2>2, <2>4, OrderOfState
<1>5. ConsumerKnows'
  BY <1>1, <1>2, <1>3 DEF OrderInv, ConsumerKnows, Slug
<1>6. queue # <<>> => queue' # <<>> /\ Head(queue') = Head(queue)
  BY OutboxFrames, HeadStays DEF TypeOK
<1>7. RowBefore'
  <2>1. \A s \in Slugs : \A i \in Indices : RowOf(s, i) =>
          i \in Handled' \/ (queue' # <<>> /\ i = Head(queue'))
    BY <1>3, <1>6 DEF RowOf
  <2>. QED BY <1>1, <1>2, <1>3, <2>1, RowsKept DEF OrderInv
<1>. QED BY <1>4, <1>5, <1>7 DEF OrderInv

(* The message at work is the first of the line. *)
LEMMA JobIsHead ==
  ASSUME TypeOK, ConsumerAtHead, pc[Consumer] # "idle"
  PROVE  /\ queue # <<>> /\ Head(queue) \in Indices
         /\ job[Consumer] = events[Head(queue)] /\ Head(queue) \in Held(Line)
<1>1. queue # <<>> /\ job[Consumer] = events[Head(queue)] /\ OutboxTypeOK
  BY DEF ConsumerAtHead, TypeOK
<1>2. Len(queue) >= 1 /\ Head(queue) = queue[1] /\ Head(queue) \in Indices
  BY <1>1 DEF OutboxTypeOK
<1>3. 1 \in 1..Len(Line) /\ Line[1] = Head(queue)
  BY <1>1, <1>2, LineType
<1>. QED BY <1>1, <1>2, <1>3 DEF Held

LEMMA SettleOrder ==
  ASSUME TypeOK, OrderInv, ConsumerAtHead, KeysAreUnique, Settle, [Next]_vars
  PROVE  OrderInv'
<1>1. /\ UNCHANGED <<events, processed, edgeRow, unsent, attempts, batch, written, wire,
                     late, dropped>>
      /\ pc[Consumer] \in Ended /\ pc'[Consumer] = "idle"
      /\ spoilt' = IF pc[Consumer] = "corrupt" THEN spoilt \cup {job[Consumer]} ELSE spoilt
      /\ Indices' = Indices
  BY DEF Settle, Stop, Goto, deployVars, stores, flushVars, histories, TypeOK, EdgeTypeOK,
         Tasks, Indices
<1>2. PICK h : h = Head(queue)
  OBVIOUS
<1>3. /\ queue # <<>> /\ h \in Indices /\ job[Consumer] = events[h]
  BY <1>1, <1>2, JobIsHead DEF Ended
<1>4. ConsumerKnows'
  BY <1>1, <1>3 DEF OrderInv, ConsumerKnows
<1>5. CASE Acked(pc[Consumer])
  <2>1. queue' = Tail(queue)
    BY <1>5 DEF Settle
  <2>2. events[h] \in processed \cup spoilt'
    BY <1>1, <1>3, <1>5 DEF Acked, ConsumerAtHead
  <2>3. Handled' = Handled \cup {h}
    <3>1. \A i \in Indices : events[i] = events[h] => i = h
      BY <1>3 DEF KeysAreUnique, Indices
    <3>2. \A i \in Indices : events[i] \in processed \cup spoilt' <=>
                               events[i] \in processed \cup spoilt \/ i = h
      BY <1>1, <1>3, <2>2, <3>1
    <3>. QED BY <1>1, <1>3, <3>2 DEF Handled
  <2>4. SendingInOrder(Indices, Handled)'
    <3>1. PICK S : S = Indices
      OBVIOUS
    <3>2. PICK H : H = Handled
      OBVIOUS
    <3>3. /\ H \in SUBSET S /\ h \in S /\ Len(events) \in Nat /\ OutboxTypeOK
          /\ SendingInOrder(S, H)
      BY <1>3, <3>1, <3>2 DEF Handled, TypeOK, DeployTypeOK, OrderInv
    <3>4. PICK G : G = H \cup {h}
      OBVIOUS
    <3>5. SendingInOrder(S, G) /\ G \in SUBSET S
      BY <1>2, <1>3, <3>1, <3>3, <3>4, HeadHandled
    <3>6. SendingInOrder(S, G)'
      BY <1>1, <1>2, <1>3, <2>1, <3>1, <3>3, <3>4, <3>5, AckOrder
    <3>. QED BY <1>1, <2>3, <3>1, <3>2, <3>4, <3>6, OrderOfState
  <2>5. \A s \in Slugs : \A i \in Indices : RowOf(s, i) => i \in Handled'
    BY <1>2, <2>3 DEF RowOf
  <2>6. RowBefore'
    BY <1>1, <2>5, RowsKept DEF OrderInv
  <2>. QED BY <1>4, <2>4, <2>6 DEF OrderInv
<1>6. CASE ~Acked(pc[Consumer])
  <2>1. queue' = queue /\ spoilt' = spoilt
    BY <1>1, <1>6 DEF Settle, Acked
  <2>2. UNCHANGED outboxVars /\ Handled' = Handled
    BY <1>1, <2>1 DEF outboxVars, flushVars, lineVars, histories, Handled
  <2>3. SendingInOrder(Indices, Handled)'
    <3>1. PICK S : S = Indices
      OBVIOUS
    <3>2. PICK H : H = Handled
      OBVIOUS
    <3>3. SendingInOrder(S, H)'
      BY <2>2, <3>1, <3>2, SameOrder DEF OrderInv
    <3>. QED BY <1>1, <2>2, <3>1, <3>2, <3>3, OrderOfState
  <2>4. RowBefore'
    <3>1. \A s \in Slugs : \A i \in Indices : RowOf(s, i) =>
            i \in Handled' \/ (queue' # <<>> /\ i = Head(queue'))
      BY <2>1, <2>2 DEF RowOf
    <3>. QED BY <1>1, <3>1, RowsKept DEF OrderInv
  <2>. QED BY <1>4, <2>3, <2>4 DEF OrderInv
<1>. QED BY <1>5, <1>6

(* A version is stored over one that came before it in the log. *)
LEMMA StoreOrder ==
  ASSUME TypeOK, OrderInv, ConsumerAtHead, LogInv, Store(Consumer), [Next]_vars,
         UNCHANGED <<deployVars, outboxVars, spoilt>>
  PROVE  /\ OrderInv'
         /\ \A s \in Slugs :
              edgeRow[s] # None /\ edgeRow'[s] # None /\ ~Irregular(s) =>
                edgeRow'[s].ver >= edgeRow[s].ver
<1> PICK s : s = Slug(Consumer)
  OBVIOUS
<1> PICK j : j = Head(queue)
  OBVIOUS
<1>1. /\ pc[Consumer] = "store" /\ pc'[Consumer] = "mark" /\ job' = job
      /\ UNCHANGED <<events, queue, processed, spoilt, outboxVars>>
      /\ Indices' = Indices /\ Handled' = Handled
  BY DEF Store, Goto, TypeOK, EdgeTypeOK, Tasks, deployVars, outboxVars, lineVars, Indices,
         Handled
<1>2. s \in Slugs /\ job[Consumer].kind # "delete" /\ job[Consumer].slug = s
  BY <1>1, RunningJob DEF TypeOK, EdgeTypeOK, Tasks, Slug
<1>3. /\ edgeRow'[s].ver = job[Consumer].ver
      /\ \A z \in Slugs : z # s => edgeRow'[z] = edgeRow[z]
  BY <1>2 DEF Store, TypeOK, EdgeTypeOK
<1>4. /\ queue # <<>> /\ j \in Indices /\ j \in Held(Line) /\ events[j] = job[Consumer]
      /\ events[j] \notin processed
  BY <1>1, JobIsHead DEF OrderInv, ConsumerKnows
<1>5. /\ Len(events) \in Nat /\ OutboxTypeOK /\ SendingInOrder(Indices, Handled)
      /\ \A i \in Indices : /\ i \in Nat /\ i \in 1..Len(events) /\ events[i] \in Message
                            /\ events[i].ver \in Nat
  <2>1. \A i \in Indices : i \in Nat /\ i \in 1..Len(events) /\ events[i] \in Message
    BY DEF TypeOK, DeployTypeOK, Indices
  <2>. QED BY <2>1 DEF TypeOK, DeployTypeOK, OrderInv, Message
<1>6. ASSUME ~Irregular(s), NEW i \in Indices, events[i].slug = s, i < j,
             i \in unsent \cup Held(Line)
      PROVE  i \in Handled
  <2>1. PICK S : S = Indices
    OBVIOUS
  <2>2. PICK H : H = Handled
    OBVIOUS
  <2>3. i \in H \/ Overtaken(i)
    BY <1>4, <1>5, <1>6, <2>1, <2>2, BehindHead DEF Handled
  <2>4. i \in EventsOf(s) /\ j \in EventsOf(s)
    BY <1>2, <1>4, <1>6 DEF EventsOf
  <2>. QED BY <1>6, <2>2, <2>3, <2>4 DEF Irregular, OutOfOrder
<1>7. ASSUME ~Irregular(s), NEW i \in Handled, events[i].slug = s
      PROVE  i <= j
  <2> SUFFICES ASSUME j < i PROVE FALSE
    BY <1>4, <1>5 DEF Handled
  <2>1. j \in Handled \/ Overtaken(j)
    BY <1>4, <1>5, <1>7 DEF SendingInOrder, HandledInOrder
  <2>2. i \in EventsOf(s) /\ j \in EventsOf(s)
    BY <1>2, <1>4, <1>7 DEF EventsOf, Handled
  <2>3. events[j] \in spoilt
    BY <1>4, <1>7, <2>1, <2>2 DEF Handled, Irregular, OutOfOrder
  <2>. QED BY <1>7, <2>2, <2>3 DEF Irregular, Skipped
<1>8. ~Irregular(s) => RowOf(s, j)'
  <2> SUFFICES ASSUME ~Irregular(s),
                      NEW d \in Indices, j < d, events[d].slug = s, events[d] \in processed
               PROVE  FALSE
    BY <1>1, <1>2, <1>3, <1>4 DEF RowOf
  <2>1. d \in Handled
    BY DEF Handled
  <2>. QED BY <1>4, <1>5, <1>7, <2>1
<1>9. RowBefore'
  <2> SUFFICES ASSUME NEW z \in Slugs, edgeRow'[z] # None, ~Irregular(z)'
               PROVE  \E i \in Indices' : RowOf(z, i)'
    BY DEF RowBefore
  <2>1. ~Irregular(z)
    BY StaysIrregular
  <2>2. CASE z = s
    BY <1>1, <1>4, <1>8, <2>1, <2>2
  <2>3. CASE z # s
    <3>1. PICK i \in Indices : RowOf(z, i)
      BY <1>3, <2>1, <2>3 DEF OrderInv, RowBefore
    <3>2. RowOf(z, i)'
      BY <1>1, <1>3, <2>3, <3>1 DEF RowOf
    <3>. QED BY <1>1, <3>2
  <2>. QED BY <2>2, <2>3
<1>10. SendingInOrder(Indices, Handled)'
  <2>1. PICK S : S = Indices
    OBVIOUS
  <2>2. PICK H : H = Handled
    OBVIOUS
  <2>3. SendingInOrder(S, H)'
    BY <1>1, <1>5, <2>1, <2>2, SameOrder
  <2>. QED BY <1>1, <2>1, <2>2, <2>3, OrderOfState
<1>11. ConsumerKnows'
  BY <1>1, <1>2 DEF OrderInv, ConsumerKnows
<1>12. ASSUME edgeRow[s] # None, ~Irregular(s)
       PROVE  edgeRow'[s].ver >= edgeRow[s].ver
  <2>1. PICK i \in Indices : RowOf(s, i)
    BY <1>2, <1>12 DEF OrderInv, RowBefore
  <2>2. i <= j
    <3>1. CASE i = j
      BY <1>4, <1>5, <3>1
    <3>2. CASE i # j
      BY <1>7, <1>12, <2>1, <3>2 DEF RowOf
    <3>. QED BY <3>1, <3>2
  <2>3. CASE i = j
    BY <1>3, <1>4, <1>5, <2>1, <2>3 DEF RowOf
  <2>4. CASE i < j
    <3>1. ~DeletedBetween(events, s, i, j)
      <4> SUFFICES ASSUME NEW d \in i+1..j-1, events[d].kind = "delete", events[d].slug = s
                   PROVE  FALSE
        BY DEF DeletedBetween
      <4>1. d \in Indices /\ d < j /\ i < d
        BY <1>4, <1>5, <2>1 DEF Indices
      <4>2. events[d] \notin processed /\ events[d] \notin spoilt
        BY <2>1, <4>1 DEF RowOf, OrderInv, ConsumerKnows
      <4>3. d \notin Handled
        BY <4>2 DEF Handled
      <4>4. d \notin dropped
        BY <1>12, <4>1 DEF Irregular, Skipped, EventsOf
      <4>5. d \in unsent \cup Held(Line)
        BY <1>5, <4>1, <4>3, <4>4 DEF SendingInOrder, SentIsSomewhere, Somewhere, Started
      <4>. QED BY <1>6, <1>12, <4>1, <4>3, <4>5
    <3>2. events[i].ver < events[j].ver
      BY <1>2, <1>4, <1>5, <2>1, <2>4, <3>1 DEF RowOf, LogInv, VersionsClimb
    <3>. QED BY <1>3, <1>4, <1>5, <2>1, <3>2 DEF RowOf
  <2>. QED BY <1>4, <1>5, <2>2, <2>3, <2>4
<1>13. \A z \in Slugs : z # s /\ edgeRow[z] # None => edgeRow'[z].ver >= edgeRow[z].ver
  <2>1. \A z \in Slugs : edgeRow[z] # None => edgeRow[z].ver \in Nat
    BY DEF TypeOK, EdgeTypeOK, Local, Times
  <2>. QED BY <1>3, <2>1
<1>. QED BY <1>9, <1>10, <1>11, <1>12, <1>13 DEF OrderInv

LEMMA TaskOrder ==
  ASSUME TypeOK, OrderInv, ConsumerAtHead, KeysAreUnique, TaskStep(Consumer),
         ~Store(Consumer), [Next]_vars, UNCHANGED <<deployVars, outboxVars, spoilt>>
  PROVE  OrderInv' /\ \A s \in Slugs : edgeRow'[s] \in {edgeRow[s], None}
<1>0. Consumer \in Tasks /\ Consumer # Reaper
  BY EdgeAssumption DEF Tasks
<1>1. /\ UNCHANGED <<events, queue, outboxVars, spoilt, job>> /\ Indices' = Indices
      /\ pc[Consumer] # "idle"
  BY DEF TaskStep, Check, Compare, Lock, Downloaded, Store, Find, Drop, Remove, Mark,
         deployVars, outboxVars, lineVars, Indices
<1>2. /\ Slug(Consumer) \in Slugs /\ Slug(Consumer)' = Slug(Consumer)
      /\ EdgeTypeOK /\ job[Consumer] \in Message
  BY <1>0, <1>1, RunningJob DEF TypeOK, Slug
<1>3. PICK h : h = Head(queue)
  OBVIOUS
<1>4. queue # <<>> /\ h \in Indices /\ job[Consumer] = events[h]
  BY <1>1, <1>3, JobIsHead
<1>5. \A s \in Slugs : edgeRow'[s] \in {edgeRow[s], None}
  BY <1>2 DEF TaskStep, Check, Compare, Lock, Downloaded, Find, Drop, Remove, Mark,
              EdgeTypeOK, stores
<1>6. processed' \subseteq processed \cup {job[Consumer]} /\ processed \subseteq processed'
      /\ (processed' # processed => Mark(Consumer))
  BY DEF TaskStep, Check, Compare, Lock, Downloaded, Find, Drop, Remove, Mark, stores
<1>7. ConsumerKnows'
  <2>1. /\ pc'[Consumer] \in {"remove", "mark"} /\ job[Consumer].kind = "delete" =>
             edgeRow'[Slug(Consumer)] = None
        /\ pc'[Consumer] \in {"compare", "lock", "download", "store"} =>
             job[Consumer] \notin processed'
        /\ pc'[Consumer] # "corrupt"
    <3>1. CASE Check(Consumer) \/ Compare(Consumer)
      BY <1>0, <1>1, <1>2, <3>1
         DEF OrderInv, ConsumerKnows, Check, Compare, Goto, EdgeTypeOK, stores
    <3>6. CASE Lock(Consumer) \/ Downloaded(Consumer)
      BY <1>0, <1>1, <1>2, <3>6
         DEF OrderInv, ConsumerKnows, Lock, Downloaded, Goto, EdgeTypeOK, stores
    <3>2. CASE Find(Consumer)
      BY <1>0, <1>1, <1>2, <3>2
         DEF OrderInv, ConsumerKnows, Find, Goto, EdgeTypeOK, stores
    <3>3. CASE Drop(Consumer)
      BY <1>0, <1>1, <1>2, <3>3
         DEF OrderInv, ConsumerKnows, Drop, Goto, EdgeTypeOK, stores
    <3>4. CASE Remove(Consumer)
      BY <1>0, <1>1, <1>2, <3>4
         DEF OrderInv, ConsumerKnows, Remove, Goto, EdgeTypeOK, stores
    <3>5. CASE Mark(Consumer)
      BY <1>0, <1>1, <1>2, <3>5
         DEF OrderInv, ConsumerKnows, Mark, Goto, EdgeTypeOK, stores
    <3>. QED BY <3>1, <3>2, <3>3, <3>4, <3>5, <3>6 DEF TaskStep
  <2>2. \A m \in processed' \cup spoilt' : \E i \in Indices : events[i] = m
    BY <1>1, <1>4, <1>6 DEF OrderInv, ConsumerKnows
  <2>. QED BY <1>1, <1>2, <2>1, <2>2 DEF OrderInv, ConsumerKnows
<1>8. /\ Handled' \in {Handled, Handled \cup {h}}
      /\ Handled' # Handled => queue # <<>> /\ h \in Indices
  <2>1. \A i \in Indices : events[i] = events[h] => i = h
    BY <1>4 DEF KeysAreUnique, Indices
  <2>2. CASE processed' = processed
    BY <1>1, <2>2 DEF Handled
  <2>3. CASE processed' # processed
    <3>1. processed' = processed \cup {events[h]}
      BY <1>4, <1>6, <2>3
    <3>2. \A i \in Indices : events[i] \in processed' \cup spoilt <=>
                               events[i] \in processed \cup spoilt \/ i = h
      BY <1>4, <2>1, <3>1
    <3>. QED BY <1>1, <1>4, <3>2 DEF Handled
  <2>. QED BY <2>2, <2>3
<1>9. SendingInOrder(Indices, Handled)'
  <2>1. PICK S : S = Indices
    OBVIOUS
  <2>2. PICK H : H = Handled
    OBVIOUS
  <2>3. PICK G : G = Handled'
    OBVIOUS
  <2>4. H \in SUBSET S /\ Len(events) \in Nat /\ OutboxTypeOK /\ SendingInOrder(S, H)
    BY <2>1, <2>2 DEF Handled, TypeOK, DeployTypeOK, OrderInv
  <2>5. SendingInOrder(S, H \cup {h})
    BY <1>3, <1>4, <2>1, <2>4, HeadHandled
  <2>6. SendingInOrder(S, G)
    BY <1>8, <2>2, <2>3, <2>4, <2>5
  <2>7. SendingInOrder(S, G)'
    BY <1>1, <2>6, SameOrder
  <2>. QED BY <1>1, <2>1, <2>3, <2>7, OrderOfState
<1>10. RowBefore'
  <2> SUFFICES ASSUME NEW s \in Slugs, NEW i \in Indices, edgeRow'[s] # None, RowOf(s, i)
               PROVE  /\ i \in Handled' \/ (queue' # <<>> /\ i = Head(queue'))
                      /\ \A d \in Indices' :
                           /\ i < d /\ events'[d].kind = "delete" /\ events'[d].slug = s
                           /\ d \notin Indices \/ events[d] \notin processed
                           => events'[d] \notin processed'
    BY <1>5, RowsKept DEF OrderInv
  <2>1. i \in Handled' \/ (queue' # <<>> /\ i = Head(queue'))
    BY <1>1, <1>8 DEF RowOf
  <2>2. ASSUME NEW d \in Indices, events[d].kind = "delete", events[d].slug = s,
               events[d] \notin processed, events[d] \in processed'
        PROVE  FALSE
    <3>1. Mark(Consumer) /\ events[d] = job[Consumer]
      BY <1>6, <2>2
    <3>2. edgeRow[s] = None /\ edgeRow' = edgeRow
      BY <2>2, <3>1 DEF Mark, OrderInv, ConsumerKnows, Slug
    <3>. QED BY <3>2
  <2>. QED BY <1>1, <2>1, <2>2
<1>. QED BY <1>5, <1>7, <1>9, <1>10 DEF OrderInv

LEMMA NextOrder ==
  ASSUME QueueOnly, TypeOK, ConsumerAtHead, PathInv, LogInv, KeyInv, KeyInv', OrderInv,
         [Next]_vars
  PROVE  /\ OrderInv'
         /\ \A s \in Slugs :
              edgeRow[s] # None /\ edgeRow'[s] # None /\ ~Irregular(s) =>
                edgeRow'[s].ver >= edgeRow[s].ver
<1>0. EdgeTypeOK /\ KeysAreUnique /\ KeysAreUnique' /\ Consumer \in Tasks
  BY DEF KeyInv, TypeOK, Tasks
<1>a. (\A s \in Slugs : edgeRow'[s] \in {edgeRow[s], None}) =>
        \A s \in Slugs : edgeRow[s] # None /\ edgeRow'[s] # None =>
          edgeRow'[s].ver >= edgeRow[s].ver
  <2>1. \A s \in Slugs : edgeRow[s] # None => edgeRow[s].ver \in Nat
    BY <1>0 DEF EdgeTypeOK, Local, Times
  <2>. QED BY <2>1
<1>b. /\ mode = "idle" /\ \A t \in Tasks : t # Consumer => pc[t] = "idle"
  BY EdgeAssumption DEF QueueOnly, PathInv, Tasks
<1>1. CASE MasterAct
  <2>1. edgeRow' = edgeRow
    BY <1>1, MasterFrames DEF edgeVars, stores
  <2>. QED BY <1>0, <1>a, <1>1, <2>1, MasterOrder
<1>2. CASE OutboxAct \/ MasterCrash
  <2>1. edgeRow' = edgeRow
    BY <1>2, OutboxFrames DEF edgeVars, stores
  <2>. QED BY <1>a, <1>2, <2>1, SendingOrder
<1>3. CASE Settle
  <2>1. edgeRow' = edgeRow
    BY <1>3 DEF Settle, stores
  <2>. QED BY <1>0, <1>a, <1>3, <2>1, SettleOrder
<1>4. CASE Deliver \/ DownloadLost \/ EdgeCrash \/ UNCHANGED vars
  <2>1. /\ UNCHANGED <<events, queue, outboxVars, processed, spoilt, edgeRow>>
        /\ Indices' = Indices /\ Handled' = Handled
    BY <1>4 DEF Deliver, DownloadLost, DownloadFails, EdgeCrash, EdgeRestart, vars,
                deployVars, edgeVars, outboxVars, lineVars, stores, Indices, Handled
  <2>2. SendingInOrder(Indices, Handled)'
    <3>1. PICK S : S = Indices
      OBVIOUS
    <3>2. PICK H : H = Handled
      OBVIOUS
    <3>3. SendingInOrder(S, H)'
      BY <2>1, <3>1, <3>2, SameOrder DEF OrderInv
    <3>. QED BY <2>1, <3>1, <3>2, <3>3, OrderOfState
  <2>3. RowBefore'
    <3>1. \A s \in Slugs : \A i \in Indices : RowOf(s, i) =>
            i \in Handled' \/ (queue' # <<>> /\ i = Head(queue'))
      BY <2>1 DEF RowOf
    <3>. QED BY <2>1, <3>1, RowsKept DEF OrderInv
  <2>4. ConsumerKnows'
    <3>1. CASE UNCHANGED vars
      BY <2>1, <3>1 DEF vars, edgeVars, taskVars, OrderInv, ConsumerKnows, Slug
    <3>2. CASE Deliver
      BY <1>0, <2>1, <3>2 DEF Deliver, Start, Goto, EdgeTypeOK, OrderInv, ConsumerKnows
    <3>3. CASE DownloadLost
      <4> PICK t \in Tasks : DownloadFails(t, "failed") \/ DownloadFails(t, "corrupt")
        BY <3>3 DEF DownloadLost
      <4>1. t = Consumer
        BY <1>b DEF DownloadFails
      <4>. QED BY <1>0, <2>1, <4>1 DEF DownloadFails, Goto, EdgeTypeOK, OrderInv,
                                        ConsumerKnows
    <3>4. CASE EdgeCrash
      BY <1>0, <2>1, <3>4 DEF EdgeCrash, EdgeRestart, OrderInv, ConsumerKnows
    <3>. QED BY <1>4, <3>1, <3>2, <3>3, <3>4
  <2>. QED BY <1>a, <2>1, <2>2, <2>3, <2>4 DEF OrderInv
<1>5. CASE EdgeAct
  <2>1. UNCHANGED <<deployVars, outboxVars, spoilt>>
    BY <1>5 DEF EdgeAct
  <2>2. ~PullStep
    <3>1. ~Reap /\ ~BeginItems /\ ~EndItems /\ ~EndPull /\ \A s \in Slugs : ~StartItem(s)
      BY <1>b DEF Reap, BeginItems, EndItems, EndPull, StartItem
    <3>2. /\ pc[Reaper] = "idle"
          /\ \A s \in Slugs : pc[s] = "idle"
      BY <1>b, EdgeAssumption DEF Tasks
    <3>3. ~Reaped /\ \A s \in Slugs : ~ItemEnds(s)
      BY <3>2 DEF Reaped, ItemEnds, Ended
    <3>. QED BY <3>1, <3>3 DEF PullStep
  <2>3. TaskStep(Consumer)
    <3>1. PICK t \in Tasks : TaskStep(t)
      BY <1>5, <2>2 DEF EdgeAct
    <3>2. pc[t] # "idle"
      BY <3>1 DEF TaskStep, Check, Compare, Lock, Downloaded, Store, Find, Drop, Remove,
                  Mark
    <3>. QED BY <1>b, <3>1, <3>2
  <2>4. CASE Store(Consumer)
    BY <1>0, <2>1, <2>4, StoreOrder
  <2>5. CASE ~Store(Consumer)
    BY <1>0, <1>a, <2>1, <2>3, <2>5, TaskOrder
  <2>. QED BY <2>4, <2>5
<1>6. ~Pull(TRUE) /\ ~Pull(FALSE)
  BY DEF QueueOnly, Pull
<1>. QED BY <1>1, <1>2, <1>3, <1>4, <1>5, <1>6 DEF Next

(***************************************************************************)
(* With requests one after the other and the queue alone, a landing on the *)
(* edge never goes back to an older version, whatever fails, is sent again *)
(* or is lost, as long as its events were not overtaken by later ones, and *)
(* neither a deletion was lost with a socket buffer nor a package corrupt. *)
(***************************************************************************)
THEOREM EdgeVersionsNeverRegress ==
  ASSUME OneAtATime, QueueOnly
  PROVE  Spec => EdgeNeverRegresses
<1> DEFINE Inv == LandingInd /\ OneInv /\ PathInv /\ KeyInv /\ OrderInv
           Step == \A s \in Slugs :
                     edgeRow[s] # None /\ edgeRow'[s] # None
                       /\ ~OutOfOrder(EventsOf(s)) /\ ~Skipped(s) =>
                         edgeRow'[s].ver >= edgeRow[s].ver
<1>1. Init => Inv
  <2> SUFFICES ASSUME Init PROVE Inv
    OBVIOUS
  <2>1. LandingInd /\ DeployInit /\ EdgeInit /\ OutboxInit /\ spoilt = {}
    BY InitInv DEF Init
  <2>2. OneInv
    BY <2>1 DEF DeployInit, OutboxInit, OneInv, LogInv, EventsBelowRow, VersionsClimb,
                DeletionsLeaveTombs, VersionIsFree, SiteInHand, Replacing, Matches, Kept
  <2>3. PathInv
    BY <2>1 DEF OutboxInit, EdgeInit, PathInv, Tasks
  <2>4. KeyInv
    BY <2>1 DEF OutboxInit, DeployInit, KeyInv, KeysAreUnique, KeysAreFresh
  <2>5. SendingInOrder(Indices, Handled)
    <3>1. Indices = {} /\ Handled = {} /\ Len(Line) = 0 /\ written = FALSE
      BY <2>1 DEF OutboxInit, Indices, Handled, Line
    <3>. QED BY <3>1
             DEF SendingInOrder, TriedIsSomewhere, WrittenIsSomewhere, SentIsSomewhere,
                 UntriedIsNext, LineInOrder, HandledInOrder
  <2>6. ConsumerKnows /\ RowBefore
    BY <2>1 DEF EdgeInit, ConsumerKnows, RowBefore, Tasks
  <2>. QED BY <2>1, <2>2, <2>3, <2>4, <2>5, <2>6 DEF OrderInv
<1>2. Inv /\ [Next]_vars => Inv' /\ Step
  <2> SUFFICES ASSUME Inv, [Next]_vars
               PROVE  Inv' /\ Step
    OBVIOUS
  <2>1. TypeOK /\ OnePath /\ LogInv /\ ConsumerAtHead
    BY QueueOnly DEF LandingInd, OneInv, OnePath, QueueOnly
  <2>2. LandingInd' /\ OneInv' /\ PathInv' /\ KeyInv'
    BY <2>1, OneAtATime, NextInv, NextOne, NextPath, NextKeys
  <2>3. OrderInv' /\ Step
    BY <2>1, <2>2, QueueOnly, NextOrder DEF Irregular
  <2>. QED BY <2>2, <2>3
<1>3. Spec => []Inv
  BY <1>1, <1>2, PTL DEF Spec
<1>4. Inv /\ [Next]_vars => [Step]_vars
  BY <1>2
<1>. QED BY <1>3, <1>4, PTL DEF Spec, EdgeNeverRegresses

-----------------------------------------------------------------------------
(***************************************************************************)
(* The pull path, when nothing is deleted: the edge is never ahead of the  *)
(* master, and the one item a manifest has for a slug lies between them.   *)
(***************************************************************************)
PullOnly == ~UseAmqp /\ ~CanDelete

NotAhead(s) ==
  edgeRow[s] # None => landing[s] # None /\ edgeRow[s].ver <= landing[s].ver

Between(m) ==
  /\ m.kind # "delete"
  /\ landing[m.slug] # None /\ m.ver <= landing[m.slug].ver
  /\ edgeRow[m.slug] # None => edgeRow[m.slug].ver <= m.ver

ItemsBetween ==
  /\ \A m \in items : Between(m)
  /\ \A m, n \in items : m.slug = n.slug => m = n

ItemsInHand ==
  /\ mode = "apply" => todo \subseteq items
  /\ \A s \in Slugs : pc[s] # "idle" => job[s] \in items
  /\ pc[Reaper] # "idle" => job[Reaper].kind = "delete"

NoDeletion == \A r \in Requests : step[r] \notin {"find", "delete"}

PullOrder == NoDeletion /\ (\A s \in Slugs : NotAhead(s)) /\ ItemsBetween /\ ItemsInHand

(* Without deletions, the version of a landing only climbs. *)
LEMMA LandingClimbs ==
  ASSUME PullOnly, DeployTypeOK, OneInv, NoDeletion, NEW r \in Requests,
         Admin(r) \/ DeployStep(r)
  PROVE  /\ NoDeletion'
         /\ \A z \in Slugs : landing[z] # None =>
              landing'[z] # None /\ landing[z].ver <= landing'[z].ver
<1> DEFINE s == arg[r].slug
           Climbs == \A z \in Slugs : landing[z] # None =>
                       landing'[z] # None /\ landing[z].ver <= landing'[z].ver
<1>0. \A z \in Slugs : landing[z] # None => landing[z].ver \in Times
  BY DEF DeployTypeOK, LandingRow
<1>a. landing' = landing => Climbs
  BY <1>0 DEF Times
<1>b. ASSUME step[r] \in {"publish", "rebuild"}, SetRow(s, Row(arg[r].ver, arg[r].sum))
      PROVE  Climbs
  <2>1. s \in Slugs /\ arg[r].ver \in Times /\ arg[r].sum \in Checksum
    BY <1>b, RunningArg DEF DeployTypeOK, Times
  <2>2. Row(arg[r].ver, arg[r].sum) # None
    <3>1. Row(arg[r].ver, arg[r].sum) \in LandingRow
      BY <2>1 DEF DeployTypeOK, Row, LandingRow
    <3>. QED BY <3>1, RowAssumption
  <2>3. landing[s] # None => arg[r].ver = landing[s].ver + 1
    BY <1>b DEF OneInv, VersionIsFree, NextVersion
  <2>4. /\ landing'[s] = Row(arg[r].ver, arg[r].sum)
        /\ \A z \in Slugs : z # s => landing'[z] = landing[z]
    BY <1>b, <2>1 DEF SetRow, DeployTypeOK
  <2>5. landing'[s].ver = arg[r].ver
    BY <2>4 DEF Row
  <2>6. landing[s] # None => landing'[s] # None /\ landing[s].ver <= landing'[s].ver
    BY <1>0, <2>1, <2>2, <2>3, <2>4, <2>5 DEF Times
  <2>. QED BY <1>0, <2>4, <2>6 DEF Times
<1>1. CASE Admin(r)
  <2>1. landing' = landing
    BY <1>1 DEF Admin, BeginConfirm, BeginResend, BeginDelete, deployTables
  <2>2. NoDeletion'
    BY <1>1 DEF PullOnly, NoDeletion, Admin, BeginConfirm, BeginResend, BeginDelete, Begin,
                At, DeployTypeOK
  <2>. QED BY <1>a, <2>1, <2>2
<1>2. CASE ReadVersion(r) \/ Rebuild(r) \/ CleanSite(r)
  <2>1. landing' = landing
    BY <1>2 DEF ReadVersion, Rebuild, CleanSite, deployTables
  <2>2. NoDeletion'
    BY <1>2 DEF NoDeletion, ReadVersion, Rebuild, CleanSite, At, End, DeployTypeOK
  <2>. QED BY <1>a, <2>1, <2>2
<1>3. CASE Publish(r) \/ Republish(r)
  <2>1. NoDeletion'
    BY <1>3 DEF NoDeletion, Publish, Republish, At, End, DeployTypeOK
  <2>2. step[r] \in {"publish", "rebuild"}
    BY <1>3 DEF Publish, Republish
  <2>3. landing' = landing \/ SetRow(s, Row(arg[r].ver, arg[r].sum))
    BY <1>3 DEF Publish, Republish, deployTables
  <2>. QED BY <1>a, <1>b, <2>1, <2>2, <2>3
<1>4. ~FindLanding(r) /\ ~DeleteRow(r)
  BY DEF NoDeletion, FindLanding, DeleteRow
<1>. QED BY <1>1, <1>2, <1>3, <1>4 DEF DeployStep

(* The landings a manifest lists are those of the master when it is made. *)
LEMMA ListedIsBetween ==
  ASSUME TypeOK, NEW from \in Nat, \A s \in Slugs : NotAhead(s)
  PROVE  /\ \A m \in Listed(from) : Between(m)
         /\ \A m, n \in Listed(from) : m.slug = n.slug => m = n
<1>1. \A m \in Listed(from) : \E s \in Slugs :
        landing[s] # None /\ m = Confirmed(s, landing[s].ver, landing[s].sum)
  BY DEF Listed
<1>2. \A s \in Slugs : landing[s] # None => landing[s].ver \in Nat
  BY DEF TypeOK, DeployTypeOK, LandingRow, Times
<1>3. ASSUME NEW m \in Listed(from)
      PROVE  Between(m)
  <2>1. PICK s \in Slugs :
          landing[s] # None /\ m = Confirmed(s, landing[s].ver, landing[s].sum)
    BY <1>1
  <2>2. m.kind = "confirmed" /\ m.slug = s /\ m.ver = landing[s].ver
    BY <2>1 DEF Confirmed
  <2>. QED BY <1>2, <2>1, <2>2 DEF Between, NotAhead
<1>4. ASSUME NEW m \in Listed(from), NEW n \in Listed(from), m.slug = n.slug
      PROVE  m = n
  <2>1. PICK s \in Slugs : m = Confirmed(s, landing[s].ver, landing[s].sum)
    BY <1>1
  <2>2. PICK z \in Slugs : n = Confirmed(z, landing[z].ver, landing[z].sum)
    BY <1>1
  <2>3. s = z
    BY <1>4, <2>1, <2>2 DEF Confirmed
  <2>. QED BY <2>1, <2>2, <2>3
<1>. QED BY <1>3, <1>4

(* A pulled item is stored over a row that is not newer. *)
LEMMA StorePulled ==
  ASSUME PullOnly, TypeOK, PathInv, PullOrder, NEW t \in Tasks, Store(t),
         UNCHANGED deployVars
  PROVE  /\ \A s \in Slugs : NotAhead(s)'
         /\ \A m \in items : Between(m)'
         /\ \A s \in Slugs : edgeRow[s] # None /\ edgeRow'[s] # None =>
              edgeRow'[s].ver >= edgeRow[s].ver
<1>1. pc[t] = "store" /\ EdgeTypeOK /\ landing' = landing
  BY DEF Store, TypeOK, deployVars
<1>2. job[t] \in Message /\ Slug(t) \in Slugs /\ job[t].kind # "delete"
      /\ job[t].ver \in Times
  BY <1>1, RunningJob DEF EdgeTypeOK
<1>3. t \in Slugs
  BY <1>1, <1>2 DEF PullOnly, PathInv, PullOrder, ItemsInHand, Tasks
<1>4. Slug(t) = t /\ job[t] \in items /\ job[t].slug = t
  BY <1>1, <1>3 DEF PathInv, PullOrder, ItemsInHand, Slug
<1>5. /\ edgeRow'[t].ver = job[t].ver
      /\ \A s \in Slugs : s # t => edgeRow'[s] = edgeRow[s]
  BY <1>1, <1>3, <1>4 DEF Store, EdgeTypeOK
<1>6. Between(job[t])
  BY <1>4 DEF PullOrder, ItemsBetween
<1>7. \A s \in Slugs : NotAhead(s)'
  BY <1>1, <1>4, <1>5, <1>6 DEF PullOrder, NotAhead, Between
<1>8. \A m \in items : Between(m)'
  <2> SUFFICES ASSUME NEW m \in items PROVE Between(m)'
    OBVIOUS
  <2>0. Between(m) /\ m.slug \in Slugs /\ m.ver \in Nat
    <3>1. m \in Message
      BY <1>1 DEF EdgeTypeOK
    <3>. QED BY <3>1 DEF PullOrder, ItemsBetween, Message
  <2>1. CASE m.slug = t
    <3>1. m = job[t]
      BY <1>4, <2>1 DEF PullOrder, ItemsBetween
    <3>. QED BY <1>1, <1>5, <2>0, <2>1, <3>1 DEF Between
  <2>2. CASE m.slug # t
    BY <1>1, <1>5, <2>0, <2>2 DEF Between
  <2>. QED BY <2>1, <2>2
<1>9. \A s \in Slugs : edgeRow[s] # None /\ edgeRow'[s] # None =>
        edgeRow'[s].ver >= edgeRow[s].ver
  <2>1. \A s \in Slugs : edgeRow[s] # None => edgeRow[s].ver \in Nat
    BY <1>1 DEF EdgeTypeOK, Local, Times
  <2>2. edgeRow[t] # None => edgeRow[t].ver <= job[t].ver
    BY <1>4, <1>6 DEF Between
  <2>3. edgeRow[t] # None => edgeRow'[t].ver >= edgeRow[t].ver
    BY <1>2, <1>3, <1>5, <2>1, <2>2 DEF Times
  <2>. QED BY <1>5, <2>1, <2>3
<1>. QED BY <1>7, <1>8, <1>9

(* A step that leaves the rows of both sides, and keeps what is in hand. *)
LEMMA PulledKept ==
  ASSUME PullOrder, UNCHANGED <<landing, edgeRow>>, items' \in {items, {}}, ItemsInHand',
         UNCHANGED step \/ RequestsEnd
  PROVE  PullOrder'
<1>1. NoDeletion'
  BY DEF PullOrder, NoDeletion, RequestsEnd
<1>2. \A s \in Slugs : NotAhead(s)'
  BY DEF PullOrder, NotAhead
<1>3. ItemsBetween'
  BY DEF PullOrder, ItemsBetween, Between
<1>. QED BY <1>1, <1>2, <1>3 DEF PullOrder

(* A step of a task or a lost download: the jobs and the manifest stay. *)
LEMMA TaskInHand ==
  ASSUME PathInv, PullOrder, NEW t \in Tasks, pc[t] # "idle",
         UNCHANGED <<job, items, todo, mode>>,
         \A u \in Tasks : u # t => pc'[u] = pc[u]
  PROVE  ItemsInHand'
  BY DEF PullOrder, ItemsInHand, Tasks

LEMMA TaskPulled ==
  ASSUME PullOnly, TypeOK, PathInv, PullOrder, NEW t \in Tasks, TaskStep(t),
         UNCHANGED deployVars
  PROVE  /\ PullOrder'
         /\ \A s \in Slugs : edgeRow[s] # None /\ edgeRow'[s] # None =>
              edgeRow'[s].ver >= edgeRow[s].ver
<1>0. /\ EdgeTypeOK /\ UNCHANGED <<landing, step, job, items, todo, mode>>
      /\ pc[t] # "idle"
  BY DEF TypeOK, deployVars, pullVars, TaskStep, Check, Compare, Lock, Downloaded, Store,
         Find, Drop, Remove, Mark
<1>1. \A u \in Tasks : u # t => pc'[u] = pc[u]
  BY <1>0 DEF EdgeTypeOK, TaskStep, Check, Compare, Lock, Downloaded, Store, Find, Drop,
              Remove, Mark, Goto
<1>2. ItemsInHand'
  BY <1>0, <1>1, TaskInHand
<1>3. NoDeletion'
  BY <1>0 DEF PullOrder, NoDeletion
<1>4. CASE Store(t)
  <2>1. \A m \in items : Between(m)'
    BY <1>4, StorePulled
  <2>2. ItemsBetween'
    BY <1>0, <2>1 DEF PullOrder, ItemsBetween, Between
  <2>. QED BY <1>2, <1>3, <1>4, <2>2, StorePulled DEF PullOrder
<1>5. CASE ~Store(t)
  <2>1. \A s \in Slugs : edgeRow'[s] \in {edgeRow[s], None}
    BY <1>0, <1>5, RunningJob
       DEF TaskStep, Check, Compare, Lock, Downloaded, Find, Drop, Remove, Mark, EdgeTypeOK,
           stores
  <2>2. \A s \in Slugs : NotAhead(s)'
    BY <1>0, <2>1 DEF PullOrder, NotAhead
  <2>3. ItemsBetween'
    <3>1. \A m \in items : m.slug \in Slugs
      BY <1>0 DEF EdgeTypeOK, Message
    <3>. QED BY <1>0, <2>1, <3>1 DEF PullOrder, ItemsBetween, Between
  <2>4. \A s \in Slugs : edgeRow[s] # None => edgeRow[s].ver \in Nat
    BY <1>0 DEF EdgeTypeOK, Local, Times
  <2>. QED BY <1>2, <1>3, <2>1, <2>2, <2>3, <2>4 DEF PullOrder
<1>. QED BY <1>4, <1>5

(* A step of the pull itself leaves the rows. *)
LEMMA PullPulled ==
  ASSUME PullOnly, TypeOK, PathInv, PullOrder, PullStep, UNCHANGED deployVars
  PROVE  PullOrder' /\ edgeRow' = edgeRow
<1>0. /\ EdgeTypeOK /\ UNCHANGED <<landing, step, items, edgeRow>>
      /\ Reaper \notin Slugs
  BY EdgeAssumption
     DEF TypeOK, deployVars, PullStep, Reap, Reaped, BeginItems, EndItems, EndPull,
         StartItem, ItemEnds, stores, pullVars
<1>1. ItemsInHand'
  <2> USE <1>0 DEF PullOrder, ItemsInHand, Start, Stop, Goto, EdgeTypeOK, Tasks
  <2>1. CASE Reap
    BY <2>1 DEF Reap, Deletion
  <2>2. CASE Reaped
    BY <2>2 DEF Reaped
  <2>3. CASE BeginItems \/ EndItems \/ EndPull
    BY <2>3 DEF BeginItems, EndItems, EndPull, taskVars
  <2>4. ASSUME NEW s \in Slugs, StartItem(s)
        PROVE  ItemsInHand'
    BY <2>4 DEF StartItem
  <2>5. ASSUME NEW s \in Slugs, ItemEnds(s)
        PROVE  ItemsInHand'
    BY <2>5 DEF ItemEnds, pullVars
  <2>. QED BY <2>1, <2>2, <2>3, <2>4, <2>5 DEF PullStep
<1>. QED BY <1>0, <1>1, PulledKept

LEMMA NextPulled ==
  ASSUME PullOnly, TypeOK, OneInv, PathInv, PullOrder, [Next]_vars
  PROVE  /\ PullOrder'
         /\ \A s \in Slugs : edgeRow[s] # None /\ edgeRow'[s] # None =>
              edgeRow'[s].ver >= edgeRow[s].ver
<1>0. /\ DeployTypeOK /\ EdgeTypeOK
      /\ queue = <<>> /\ pc[Consumer] = "idle"
  BY DEF TypeOK, PullOnly, PathInv
<1>a. edgeRow' = edgeRow =>
        \A s \in Slugs : edgeRow[s] # None /\ edgeRow'[s] # None =>
          edgeRow'[s].ver >= edgeRow[s].ver
  <2>1. \A s \in Slugs : edgeRow[s] # None => edgeRow[s].ver \in Nat
    BY <1>0 DEF EdgeTypeOK, Local, Times
  <2>. QED BY <2>1
<1>1. CASE MasterAct
  <2> PICK r \in Requests : Admin(r) \/ DeployStep(r)
    BY <1>1 DEF MasterAct
  <2>1. UNCHANGED <<edgeRow, items, todo, mode, pc, job>>
    BY <1>1, MasterFrames DEF edgeVars, stores, taskVars, pullVars
  <2>2. /\ NoDeletion'
        /\ \A z \in Slugs : landing[z] # None =>
             landing'[z] # None /\ landing[z].ver <= landing'[z].ver
    BY <1>0, LandingClimbs DEF PullOrder
  <2>3. \A z \in Slugs : landing[z] # None => landing[z].ver \in Nat /\ landing'[z].ver \in Nat
    <3>1. DeployTypeOK'
      BY <1>0, BeginTypeOK, StepTypeOK
    <3>. QED BY <1>0, <2>2, <3>1 DEF DeployTypeOK, LandingRow, Times
  <2>4. \A s \in Slugs : edgeRow[s] # None => edgeRow[s].ver \in Nat
    BY <1>0 DEF EdgeTypeOK, Local, Times
  <2>5. \A s \in Slugs : NotAhead(s)'
    BY <2>1, <2>2, <2>3, <2>4 DEF PullOrder, NotAhead
  <2>6. ItemsBetween'
    <3>1. \A m \in items : m.slug \in Slugs /\ m.ver \in Nat
      BY <1>0 DEF EdgeTypeOK, Message
    <3>. QED BY <2>1, <2>2, <2>3, <3>1 DEF PullOrder, ItemsBetween, Between
  <2>7. ItemsInHand'
    BY <2>1 DEF PullOrder, ItemsInHand
  <2>. QED BY <1>a, <2>1, <2>2, <2>5, <2>6, <2>7 DEF PullOrder
<1>2. CASE OutboxAct \/ MasterCrash \/ UNCHANGED vars
  <2>1. UNCHANGED <<landing, edgeRow, items, todo, mode, pc, job>>
    BY <1>2, OutboxFrames DEF vars, deployVars, edgeVars, stores, taskVars, pullVars
  <2>2. UNCHANGED step \/ RequestsEnd
    BY <1>2, OutboxFrames DEF vars, deployVars
  <2>3. ItemsInHand'
    BY <2>1 DEF PullOrder, ItemsInHand
  <2>. QED BY <1>a, <2>1, <2>2, <2>3, PulledKept
<1>3. ~Deliver /\ ~Settle
  BY <1>0 DEF Deliver, Settle, Ended
<1>4. CASE EdgeAct
  <2>1. UNCHANGED deployVars
    BY <1>4 DEF EdgeAct
  <2>2. CASE PullStep
    BY <1>a, <2>1, <2>2, PullPulled
  <2>3. ASSUME NEW t \in Tasks, TaskStep(t)
        PROVE  /\ PullOrder'
               /\ \A s \in Slugs : edgeRow[s] # None /\ edgeRow'[s] # None =>
                    edgeRow'[s].ver >= edgeRow[s].ver
    BY <2>1, <2>3, TaskPulled
  <2>. QED BY <1>4, <2>2, <2>3 DEF EdgeAct
<1>5. ASSUME NEW isFull \in BOOLEAN, Pull(isFull)
      PROVE  PullOrder' /\ edgeRow' = edgeRow
  <2>1. /\ UNCHANGED <<landing, step, edgeRow, pc, job>>
        /\ mode = "idle" /\ mode' = "delete"
    BY <1>5 DEF Pull, Fetch, deployVars, stores, taskVars
  <2>2. PICK from \in Nat : items' = Listed(from)
    BY <1>0, <1>5 DEF Pull, Fetch, EdgeTypeOK
  <2>3. /\ \A m \in Listed(from) : Between(m)
        /\ \A m, n \in Listed(from) : m.slug = n.slug => m = n
    BY ListedIsBetween DEF PullOrder
  <2>4. ItemsBetween'
    BY <2>1, <2>2, <2>3 DEF ItemsBetween, Between
  <2>5. ItemsInHand'
    BY <2>1 DEF PullOrder, PathInv, ItemsInHand
  <2>6. NoDeletion' /\ \A s \in Slugs : NotAhead(s)'
    BY <2>1 DEF PullOrder, NoDeletion, NotAhead
  <2>. QED BY <2>1, <2>4, <2>5, <2>6 DEF PullOrder
<1>6. CASE DownloadLost
  <2> PICK t \in Tasks : DownloadFails(t, "failed") \/ DownloadFails(t, "corrupt")
    BY <1>6 DEF DownloadLost
  <2>1. /\ UNCHANGED <<landing, step, edgeRow, items, todo, mode, job>>
        /\ pc[t] # "idle" /\ \A u \in Tasks : u # t => pc'[u] = pc[u]
    BY <1>0, <1>6
       DEF DownloadLost, DownloadFails, Goto, EdgeTypeOK, deployVars, stores, pullVars
  <2>2. ItemsInHand'
    BY <2>1, TaskInHand
  <2>. QED BY <1>a, <2>1, <2>2, PulledKept
<1>7. CASE EdgeCrash
  <2>1. /\ UNCHANGED <<landing, step, edgeRow>> /\ items' = {} /\ mode' = "idle"
        /\ \A t \in Tasks : pc'[t] = "idle"
    BY <1>7 DEF EdgeCrash, EdgeRestart, deployVars, stores
  <2>2. ItemsInHand'
    BY <2>1 DEF ItemsInHand, Tasks
  <2>. QED BY <1>a, <2>1, <2>2, PulledKept
<1>. QED BY <1>a, <1>1, <1>2, <1>3, <1>4, <1>5, <1>6, <1>7 DEF Next

(***************************************************************************)
(* With requests one after the other and no deletions, and with pulls      *)
(* alone, a landing on the edge never goes back to an older version:       *)
(* whatever is pulled twice, fails to download or is cut by a restart.     *)
(***************************************************************************)
THEOREM PulledVersionsNeverRegress ==
  ASSUME OneAtATime, PullOnly
  PROVE  Spec => EdgeNeverRegresses
<1> DEFINE Inv == LandingInd /\ OneInv /\ PathInv /\ PullOrder
           Step == \A s \in Slugs : edgeRow[s] # None /\ edgeRow'[s] # None =>
                     edgeRow'[s].ver >= edgeRow[s].ver
<1>1. Init => Inv
  <2> SUFFICES ASSUME Init PROVE Inv
    OBVIOUS
  <2>1. LandingInd /\ DeployInit /\ EdgeInit /\ OutboxInit
    BY InitInv DEF Init
  <2>2. OneInv
    BY <2>1 DEF DeployInit, OutboxInit, OneInv, LogInv, EventsBelowRow, VersionsClimb,
                DeletionsLeaveTombs, VersionIsFree, SiteInHand, Replacing, Matches, Kept
  <2>3. PathInv
    BY <2>1 DEF OutboxInit, EdgeInit, PathInv, Tasks
  <2>4. PullOrder
    BY <2>1 DEF DeployInit, EdgeInit, PullOrder, NoDeletion, NotAhead, ItemsBetween,
                ItemsInHand, Tasks
  <2>. QED BY <2>1, <2>2, <2>3, <2>4
<1>2. Inv /\ [Next]_vars => Inv' /\ Step
  <2> SUFFICES ASSUME Inv, [Next]_vars
               PROVE  Inv' /\ Step
    OBVIOUS
  <2>1. TypeOK /\ OnePath
    BY PullOnly DEF LandingInd, OnePath, PullOnly
  <2>2. LandingInd' /\ OneInv' /\ PathInv'
    BY <2>1, OneAtATime, NextInv, NextOne, NextPath
  <2>3. PullOrder' /\ Step
    BY <2>1, PullOnly, NextPulled
  <2>. QED BY <2>2, <2>3
<1>3. Spec => []Inv
  BY <1>1, <1>2, PTL DEF Spec
<1>4. Inv /\ [Next]_vars => [Step]_vars
  BY <1>2
<1>5. [Step]_vars => [\A s \in Slugs :
                          edgeRow[s] # None /\ edgeRow'[s] # None
                            /\ ~OutOfOrder(EventsOf(s)) /\ ~Skipped(s) =>
                              edgeRow'[s].ver >= edgeRow[s].ver]_vars
  OBVIOUS
<1>. QED BY <1>3, <1>4, <1>5, PTL DEF Spec, EdgeNeverRegresses
===============================================================================
