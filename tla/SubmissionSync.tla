--------------------------- MODULE SubmissionSync ---------------------------
(***************************************************************************)
(* The path of a lead from the edge that captured it to the master and its *)
(* webhook: EdgeOutbox and MasterIngest composed over the two transports.  *)
(*                                                                         *)
(* AMQP.  A published message sits in the client's socket buffer (wire)    *)
(* until the broker has it (queue).  The channel is a plain one, without   *)
(* publisher confirms, so a lost connection loses the buffer.  The master  *)
(* consumes with prefetch 1 and manual acks: the message of the running    *)
(* handler stays at the head of the queue until it is acked.               *)
(*                                                                         *)
(* HTTP.  A push is answered by the handler it started, or times out while *)
(* that handler goes on; a batch is handled item by item.                  *)
(***************************************************************************)
EXTENDS EdgeOutbox, MasterIngest

CONSTANTS
  FaultBound,     \* how many failures a behaviour may have
  Faults,         \* the kinds of failure it may have
  Deletable       \* the forms the master's admin may delete

FaultKinds == {"link", "consumer", "timeout", "refused", "master", "edge",
               "full", "database"}

ASSUME FaultAssumption ==
  FaultBound \in Nat /\ Faults \subseteq FaultKinds /\ Deletable \subseteq Forms

VARIABLES
  queue,      \* the broker's form.submission queue
  dropped,    \* history: the payloads lost with a socket buffer
  via,        \* what started each handler
  rest,       \* the items of its batch still to be handled
  results,    \* the answers to the items already handled
  sent,       \* whether the running push has reached the master
  faults      \* how many failures happened, those that leave the master's
              \* handlers alone and the others

linkVars == <<queue, dropped, via, rest, results, sent, faults>>
vars == <<edgeVars, ingestVars, linkVars>>

Origin == {"none", "amqp", "call", "post", "orphan"}

LinkTypeOK ==
  /\ queue \in Seq(Payload)
  /\ dropped \subseteq Payload
  /\ via \in [Workers -> Origin]
  /\ rest \in [Workers -> Seq(Payload)]
  /\ results \in [Workers -> Seq(Answer)]
  /\ sent \in BOOLEAN
  /\ faults \in [gentle : 0..FaultBound, harsh : 0..FaultBound]

TypeOK == EdgeTypeOK /\ IngestTypeOK /\ LinkTypeOK

Init ==
  /\ EdgeInit
  /\ IngestInit
  /\ queue = <<>>
  /\ dropped = {}
  /\ via = [w \in Workers |-> "none"]
  /\ rest = [w \in Workers |-> <<>>]
  /\ results = [w \in Workers |-> <<>>]
  /\ sent = FALSE
  /\ faults = [gentle |-> 0, harsh |-> 0]

Fault(kind) ==
  /\ kind \in Faults
  /\ faults.gentle + faults.harsh < FaultBound
  /\ faults' = IF kind \in {"refused", "full"}
               THEN [faults EXCEPT !.gentle = @ + 1]
               ELSE [faults EXCEPT !.harsh = @ + 1]

Elements(s) == {s[i] : i \in 1..Len(s)}
-----------------------------------------------------------------------------
(* The edge by itself. *)
User(l) == Capture(l) \/ VerifyOtp(l) \/ OpenPayment(l) \/ CompletePayment(l)
             \/ EnqueuePayment(l)

EdgeAct ==
  /\ \/ \E l \in Leads : User(l)
     \/ FlushStep
  /\ UNCHANGED <<ingestVars, linkVars>>

(* The master by itself. *)
MasterAct(w) == WorkerStep(w) /\ UNCHANGED <<edgeVars, linkVars>>

AdminDeletesForm ==
  /\ \E f \in Deletable : DeleteForm(f)
  /\ UNCHANGED <<edgeVars, linkVars>>
-----------------------------------------------------------------------------
(* AMQP *)
LinkUp ==
  /\ syncMode = "auto" /\ ~channel
  /\ channel' = TRUE
  /\ UNCHANGED <<captureVars, outbox, flushVars, wire, ingestVars, linkVars>>

BrokerAccepts ==
  /\ wire # <<>>
  /\ queue' = Append(queue, Head(wire))
  /\ wire' = Tail(wire)
  /\ UNCHANGED <<captureVars, outbox, flushVars, channel, ingestVars, dropped,
                 via, rest, results, sent, faults>>

(* The connection closes: clearConnection, and the buffer is gone. *)
LinkLost ==
  /\ channel
  /\ Fault("link")
  /\ channel' = FALSE
  /\ wire' = <<>>
  /\ dropped' = dropped \cup Elements(wire)
  /\ UNCHANGED <<captureVars, outbox, flushVars, ingestVars, queue, via, rest,
                 results, sent>>

BufferFull ==
  /\ Fault("full")
  /\ PublishFull
  /\ UNCHANGED <<ingestVars, queue, dropped, via, rest, results, sent>>

(* The broker delivers the head of the queue: one message at a time. *)
Consume(w) ==
  /\ queue # <<>>
  /\ \A v \in Workers : via[v] # "amqp"
  /\ Deliver(w, Head(queue))
  /\ via' = [via EXCEPT ![w] = "amqp"]
  /\ UNCHANGED <<edgeVars, queue, dropped, rest, results, sent, faults>>

NeverRequeued(w) == FALSE  \* wrong Requeued, for mutation
Requeued(w)      == pc[w] = "failed"

(* channel.ack; or fail(), which requeues the message where it was. *)
Settle(w) ==
  /\ via[w] = "amqp"
  /\ Finish(w)
  /\ queue' = IF Requeued(w) THEN queue ELSE Tail(queue)
  /\ via' = [via EXCEPT ![w] = "none"]
  /\ UNCHANGED <<edgeVars, dropped, rest, results, sent, faults>>

(* The consumer's connection drops under a running handler: the broker     *)
(* will deliver the message again, and the handler's ack goes nowhere.     *)
ConsumerLost(w) ==
  /\ via[w] = "amqp"
  /\ Fault("consumer")
  /\ via' = [via EXCEPT ![w] = "orphan"]
  /\ UNCHANGED <<edgeVars, ingestVars, queue, dropped, rest, results, sent>>
-----------------------------------------------------------------------------
(* HTTP *)
Waiting == fpc \in {"call", "post"}
Items   == [j \in 1..(IF fpc = "post" THEN Len(todo) ELSE 1) |->
              outbox[todo[j]].p]

(* The request arrives and its handler starts on the first item. *)
Receive(w) ==
  /\ Waiting /\ ~sent
  /\ Deliver(w, Head(Items))
  /\ via' = [via EXCEPT ![w] = fpc]
  /\ rest' = [rest EXCEPT ![w] = Tail(Items)]
  /\ sent' = TRUE
  /\ UNCHANGED <<edgeVars, queue, dropped, results, faults>>

AnswerOf(w) == [key |-> Key(msg[w]), status |-> pc[w]]

(* receiveSubmissionBatch goes on with the next item. *)
NextItem(w) ==
  /\ pc[w] \in Finished /\ rest[w] # <<>>
  /\ Goto(w, "check")
  /\ msg' = [msg EXCEPT ![w] = Head(rest[w])]
  /\ seen' = [seen EXCEPT ![w] = 0]
  /\ rest' = [rest EXCEPT ![w] = Tail(@)]
  /\ results' = [results EXCEPT ![w] = Append(@, AnswerOf(w))]
  /\ UNCHANGED <<tables, notified, edgeVars, queue, dropped, via, sent, faults>>

(* The handler answers the edge that is waiting for it. *)
Respond(w) ==
  /\ via[w] \in {"call", "post"} /\ rest[w] = <<>>
  /\ Finish(w)
  /\ \/ via[w] = "call" /\ pc[w] # "failed" /\ CallOk
     \/ via[w] = "call" /\ pc[w] = "failed" /\ CallFails
     \/ via[w] = "post" /\ PostOk(Append(results[w], AnswerOf(w)))
  /\ via' = [via EXCEPT ![w] = "none"]
  /\ results' = [results EXCEPT ![w] = <<>>]
  /\ sent' = FALSE
  /\ UNCHANGED <<queue, dropped, rest, faults>>

(* Nobody waits any more for this handler's answer. *)
OrphanEnds(w) ==
  /\ via[w] = "orphan" /\ rest[w] = <<>>
  /\ Finish(w)
  /\ via' = [via EXCEPT ![w] = "none"]
  /\ results' = [results EXCEPT ![w] = <<>>]
  /\ UNCHANGED <<edgeVars, queue, dropped, rest, sent, faults>>

PushFails == CallFails \/ PostFails
Orphaned  == [w \in Workers |-> IF via[w] \in {"call", "post"} THEN "orphan"
                                                               ELSE via[w]]

(* The edge's 15 s are over; the handler, if any, keeps running. *)
TimeOut ==
  /\ Waiting /\ sent
  /\ Fault("timeout")
  /\ PushFails
  /\ via' = Orphaned
  /\ sent' = FALSE
  /\ UNCHANGED <<ingestVars, queue, dropped, rest, results>>

(* The request does not reach the master. *)
Refused ==
  /\ Waiting /\ ~sent
  /\ Fault("refused")
  /\ PushFails
  /\ UNCHANGED <<ingestVars, queue, dropped, via, rest, results, sent>>

(* The master that had the request has restarted. *)
ConnectionReset ==
  /\ Waiting /\ sent
  /\ \A w \in Workers : via[w] \notin {"call", "post"}
  /\ PushFails
  /\ sent' = FALSE
  /\ UNCHANGED <<ingestVars, queue, dropped, via, rest, results, faults>>

(* A database error while the results of a batch are applied fails the     *)
(* whole batch, the rows already marked SENT included.                     *)
ApplyBreaks ==
  /\ fpc = "apply"
  /\ Fault("database")
  /\ FailBatch
  /\ fpc' = "idle" /\ todo' = <<>> /\ answers' = <<>>
  /\ UNCHANGED <<captureVars, urls, channel, wire, ingestVars, queue, dropped,
                 via, rest, results, sent>>
-----------------------------------------------------------------------------
(* Restarts: the databases and the broker's queue survive. *)
MasterCrash ==
  /\ Fault("master")
  /\ Crash
  /\ via' = [w \in Workers |-> "none"]
  /\ rest' = [w \in Workers |-> <<>>]
  /\ results' = [w \in Workers |-> <<>>]
  /\ UNCHANGED <<edgeVars, queue, dropped, sent>>

EdgeCrash ==
  /\ Fault("edge")
  /\ \/ fpc # "idle"
     \/ wire # <<>>
     \/ \E l \in Leads : request[l] # "none"
  /\ request' = [l \in Leads |-> "none"]
  /\ fpc' = "idle" /\ todo' = <<>> /\ urls' = 0 /\ answers' = <<>>
  /\ channel' = FALSE
  /\ wire' = <<>>
  /\ dropped' = dropped \cup Elements(wire)
  /\ via' = Orphaned
  /\ sent' = FALSE
  /\ UNCHANGED <<edgeLead, outbox, ingestVars, queue, rest, results>>

Step ==
  \/ EdgeAct
  \/ \E w \in Workers : MasterAct(w)
  \/ AdminDeletesForm
  \/ LinkUp \/ BrokerAccepts \/ LinkLost \/ BufferFull
  \/ \E w \in Workers : Consume(w) \/ Settle(w) \/ ConsumerLost(w)
  \/ \E w \in Workers : Receive(w) \/ NextItem(w) \/ Respond(w) \/ OrphanEnds(w)
  \/ TimeOut \/ Refused \/ ConnectionReset \/ ApplyBreaks
  \/ MasterCrash \/ EdgeCrash

Next == Step /\ UNCHANGED syncMode

Spec == Init /\ [][Next]_<<vars, syncMode>>

(***************************************************************************)
(* Fairness: the event loops of both sides run every ready continuation,   *)
(* the flush timer ticks, the broker delivers and reconnects are retried.  *)
(* Nothing obliges a user to go on, nor a fault to happen.                 *)
(***************************************************************************)
Fairness ==
  /\ WF_vars(FlushStep /\ UNCHANGED <<ingestVars, linkVars>>)
  /\ \A l \in Leads :
       WF_vars((OpenPayment(l) \/ EnqueuePayment(l))
                 /\ UNCHANGED <<ingestVars, linkVars>>)
  /\ \A w \in Workers :
       WF_vars(MasterAct(w) \/ Settle(w) \/ NextItem(w) \/ Respond(w)
                 \/ OrphanEnds(w))
  /\ WF_vars(LinkUp) /\ WF_vars(BrokerAccepts) /\ WF_vars(ConnectionReset)
  /\ WF_vars(\E w \in Workers : Consume(w))
  /\ WF_vars(\E w \in Workers : Receive(w))

FairSpec == Spec /\ Fairness
-----------------------------------------------------------------------------
(***************************************************************************)
(* An outbox row is marked SENT only when the master has handled its key,  *)
(* or AMQP has the message; or a socket buffer was lost.  Nothing else can *)
(* make the edge forget a lead: no timeout, crash, retry or batch answer.  *)
(***************************************************************************)
SentIsSafe ==
  \A i \in 1..Len(outbox) :
    outbox[i].status = "SENT" =>
      \/ Key(outbox[i].p) \in processed
      \/ outbox[i].p \in Elements(queue) \cup Elements(wire) \cup dropped

(***************************************************************************)
(* Every version the edge committed has its outbox row under that          *)
(* version's key: the transactions of submit, requestOtp and verifyOtp.    *)
(***************************************************************************)
VersionsAreQueued ==
  \A l \in Leads : \A v \in Versions :
    edgeLead[l].ver >= v =>
      \E i \in 1..Len(outbox) : outbox[i].key = <<l, v>>

(***************************************************************************)
(* The webhook hears of a lead of a form with payment only when the edge   *)
(* has its payment completed.                                              *)
(***************************************************************************)
NotifiedOnlyPaid ==
  \A k \in Keys :
    notified[k] > 0 /\ IsPaid(k[1]) => edgeLead[k[1]].pay = "COMPLETED"

(***************************************************************************)
(* The master's copy is never ahead of the edge's lead, and its payment    *)
(* status never runs ahead of the edge's.                                  *)
(***************************************************************************)
MasterNeverAhead ==
  \A l \in Leads :
    /\ masterLead[l].ver <= edgeLead[l].ver
    /\ masterPay[l] = "COMPLETED" => edgeLead[l].pay = "COMPLETED"

(* What may keep a lead from the master: its form was deleted there, or    *)
(* the socket buffer that held its first snapshot was lost.                *)
Excused(l) == FormOf[l] \notin masterForms \/ Captured(l) \in dropped

(***************************************************************************)
(* Every lead captured on the edge reaches the master, unless its form was *)
(* deleted there or its message was lost with a socket buffer.             *)
(***************************************************************************)
LeadReachesMaster ==
  \A l \in Leads :
    edgeLead[l] # NoLead ~> (masterLead[l] # NoRow \/ Excused(l))

(***************************************************************************)
(* Every lead of a form without payment is also sent to the webhook, as    *)
(* long as no failure stops a handler or makes two of a lead overlap.      *)
(***************************************************************************)
LeadIsNotified ==
  \A l \in Leads :
    edgeLead[l] # NoLead /\ ~IsPaid(l) ~>
      \/ notified[<<l, 1>>] + notified[<<l, 2>>] > 0
      \/ Excused(l) \/ faults.harsh > 0

(***************************************************************************)
(* Every payment completed on the edge is completed on the master.         *)
(***************************************************************************)
PaymentReachesMaster ==
  \A l \in Leads :
    edgeLead[l].pay = "COMPLETED" ~> masterPay[l] = "COMPLETED"
=============================================================================
