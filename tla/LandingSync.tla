----------------------------- MODULE LandingSync -----------------------------
(***************************************************************************)
(* Landing deployment from the master's panel to an edge: LandingDeploy    *)
(* and LandingEdge composed over the two paths an event can take.          *)
(*                                                                         *)
(* AMQP (UseAmqp).  MasterOutbox publishes the events to the edge's queue, *)
(* which is consumed with prefetch 1; a failed message is requeued at its  *)
(* head.  Without AMQP (SYNC_MODE http) the events are not sent.           *)
(*                                                                         *)
(* HTTP (UsePull).  The edge pulls manifests by two timers, full and       *)
(* incremental, unless SYNC_PULL_ENABLED is 0.                             *)
(***************************************************************************)
EXTENDS LandingEdge

CONSTANTS UseAmqp, UsePull, FaultBound, Faults

FaultKinds == {"publish", "resend", "link", "master", "download", "corrupt",
               "edge"}

ASSUME SyncAssumption ==
  /\ UseAmqp \in BOOLEAN /\ UsePull \in BOOLEAN
  /\ FaultBound \in Nat /\ Faults \subseteq FaultKinds

VARIABLES
  spoilt,  \* history: the messages acked because their package was corrupt
  faults   \* how many failures happened

vars == <<deployVars, edgeVars, outboxVars, spoilt, faults>>

TypeOK ==
  /\ DeployTypeOK
  /\ EdgeTypeOK
  /\ OutboxTypeOK
  /\ spoilt \subseteq Message
  /\ faults \in 0..FaultBound

Init ==
  /\ DeployInit
  /\ EdgeInit
  /\ OutboxInit
  /\ spoilt = {} /\ faults = 0

Fault(kind) ==
  /\ kind \in Faults /\ faults < FaultBound
  /\ faults' = faults + 1
-----------------------------------------------------------------------------
(* The master's requests; the events they write are pending. *)
MasterAct ==
  /\ \E r \in Requests : Admin(r) \/ DeployStep(r)
  /\ IF UseAmqp THEN Pending ELSE UNCHANGED unsent
  /\ UNCHANGED <<edgeVars, attempts, batch, written, lineVars, histories, spoilt,
                 faults>>

(* The outbox and the broker. *)
OutboxAct ==
  /\ \/ (StartFlush \/ Send \/ MarkSent \/ BrokerAccepts) /\ UNCHANGED faults
     \/ Fault("publish") /\ PublishFails
     \/ Fault("resend") /\ MarkFails
     \/ Fault("link") /\ LinkLost
  /\ UNCHANGED <<landing, site, tombs, clock, begun, step, arg, edgeVars, spoilt>>

MasterCrash ==
  /\ Fault("master")
  /\ batch # {} \/ wire # <<>> \/ \E r \in Requests : step[r] # "idle"
  /\ MasterStops
  /\ RequestsEnd
  /\ UNCHANGED <<edgeVars, spoilt>>
-----------------------------------------------------------------------------
Deliver ==
  /\ queue # <<>>
  /\ Start(Consumer, events[Head(queue)], "check")
  /\ UNCHANGED <<deployVars, stores, locks, tries, pullVars, outboxVars, spoilt,
                 faults>>

\* wrong Acked, for mutation: a failed message is acked as well
AlwaysAcked(st) == TRUE
Acked(st) == st \in {"done", "corrupt"}

(* ack, also of a corrupt package; or nack, which requeues the message. *)
Settle ==
  /\ pc[Consumer] \in Ended
  /\ Stop(Consumer)
  /\ IF Acked(pc[Consumer])
     THEN queue' = Tail(queue) /\ tries' = 0
     ELSE UNCHANGED <<queue, tries>>
  /\ spoilt' = IF pc[Consumer] = "corrupt" THEN spoilt \cup {job[Consumer]}
                                           ELSE spoilt
  /\ UNCHANGED <<deployVars, stores, locks, pullVars, flushVars, wire, histories,
                 faults>>

EdgeAct ==
  /\ \/ \E t \in Tasks : TaskStep(t)
     \/ PullStep
  /\ UNCHANGED <<deployVars, outboxVars, spoilt, faults>>

Pull(isFull) ==
  /\ UsePull
  /\ Fetch(isFull)
  /\ UNCHANGED <<deployVars, outboxVars, spoilt, faults>>

DownloadLost ==
  /\ \E t \in Tasks :
       \/ Fault("download") /\ DownloadFails(t, "failed")
       \/ Fault("corrupt") /\ DownloadFails(t, "corrupt")
  /\ UNCHANGED <<deployVars, outboxVars, spoilt>>

EdgeCrash ==
  /\ Fault("edge")
  /\ EdgeRestart
  /\ UNCHANGED <<deployVars, outboxVars, spoilt>>

Next ==
  \/ MasterAct \/ OutboxAct \/ MasterCrash
  \/ Deliver \/ Settle \/ EdgeAct
  \/ Pull(TRUE) \/ Pull(FALSE)
  \/ DownloadLost \/ EdgeCrash

Spec == Init /\ [][Next]_vars

(***************************************************************************)
(* Fairness: both event loops run every ready continuation, the flush      *)
(* timer ticks, the socket buffer drains and the broker delivers.  The     *)
(* timer of the full pull skips a tick while a pull is running; it is      *)
(* assumed to find none running now and then.                              *)
(***************************************************************************)
Others == UNCHANGED <<deployVars, outboxVars, spoilt, faults>>
Fairness ==
  /\ WF_vars(\E r \in Requests : DeployStep(r) /\ MasterAct)
  /\ WF_vars(StartFlush /\ OutboxAct) /\ WF_vars(Send /\ OutboxAct)
  /\ WF_vars(MarkSent /\ OutboxAct) /\ WF_vars(BrokerAccepts /\ OutboxAct)
  /\ WF_vars(Deliver) /\ WF_vars(Settle)
  /\ \A t \in Tasks : WF_vars(TaskStep(t) /\ Others)
  /\ WF_vars(PullStep /\ Others)
  /\ SF_vars(Pull(TRUE))

FairSpec == Spec /\ Fairness
-----------------------------------------------------------------------------
Applying(s) == {t \in Tasks : pc[t] \in {"download", "store"} /\ Slug(t) = s}

(***************************************************************************)
(* The lock of LandingApplyService: at most one task downloads and         *)
(* replaces the files of a slug, and only while the slug is locked.        *)
(***************************************************************************)
OneApplier ==
  \A s \in Slugs :
    /\ \A t, u \in Applying(s) : t = u
    /\ s \in locks <=> Applying(s) # {}

(***************************************************************************)
(* The edge serves what its row says, except while a task is at work on    *)
(* the slug.  It holds without restarts, with one of the two paths.        *)
(***************************************************************************)
ServedIsRow ==
  \A s \in Slugs :
    (\A t \in Tasks : pc[t] # "idle" => Slug(t) # s) =>
      edgeSite[s] = IF edgeRow[s] = None THEN None ELSE edgeRow[s].sum

EventsOf(s) == {i \in Indices : events[i].slug = s}

(* An event of the slug was skipped that later ones may depend on: its     *)
(* package was corrupt, or it is a deletion that was in a lost buffer.     *)
Skipped(s) ==
  \E i \in EventsOf(s) :
    events[i] \in spoilt \/ (events[i].kind = "delete" /\ i \in dropped)

(***************************************************************************)
(* A landing on the edge never goes back to an older version; only its     *)
(* removal comes before a lower one.  It holds with the queue alone while  *)
(* requests do not overlap, whatever is sent again, for the slugs whose    *)
(* events were neither overtaken nor skipped; with pulls alone, as long as *)
(* nothing is deleted, for a full pull skips the tombstones.               *)
(***************************************************************************)
EdgeNeverRegresses ==
  [][\A s \in Slugs :
       edgeRow[s] # None /\ edgeRow'[s] # None
         /\ ~OutOfOrder(EventsOf(s)) /\ ~Skipped(s) =>
           edgeRow'[s].ver >= edgeRow[s].ver]_vars

(***************************************************************************)
(* An event the edge has not handled is still to be sent, on its way, or   *)
(* was in a socket buffer when the connection was lost: nothing else loses *)
(* it, neither a failed publication nor a crash nor a nack.  (Still to be  *)
(* sent are also the rows that failed maxAttempts times; handled are also  *)
(* the messages given up after MaxTries.)                                  *)
(***************************************************************************)
NothingDropped ==
  UseAmqp =>
    \A i \in Indices :
      \/ i \in unsent \cup Held(wire) \cup Held(queue)
      \/ events[i] \in processed \cup spoilt
      \/ i \in dropped

(* Why nothing is dropped: the consumer works on the head of the queue and *)
(* is done with a message only when its key is recorded.                   *)
ConsumerAtHead ==
  /\ pc[Consumer] # "idle" => queue # <<>> /\ job[Consumer] = events[Head(queue)]
  /\ pc[Consumer] = "done" => job[Consumer] \in processed

(***************************************************************************)
(* The safety of the synchronisation, of which its proofs make an          *)
(* inductive invariant.                                                    *)
(***************************************************************************)
LandingInv ==
  /\ TypeOK
  /\ OneApplier
  /\ ConsumerAtHead
  /\ NothingDropped

Current(s) ==
  /\ edgeSite[s] = IF landing[s] = None THEN None ELSE landing[s].sum
  /\ edgeRow[s] = IF landing[s] = None THEN None
                  ELSE [ver |-> landing[s].ver, sum |-> landing[s].sum]

(***************************************************************************)
(* Once the admin makes no more changes, the edge comes to serve exactly   *)
(* the landings of the master, and goes on to; excused are the slugs whose *)
(* events came out of order, or the last one not at all.                   *)
(***************************************************************************)
EdgeCatchesUp ==
  <>[](\A s \in Slugs : Current(s) \/ OutOfOrder(EventsOf(s)) \/ LastLost(EventsOf(s)))
=============================================================================
