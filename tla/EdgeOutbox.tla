----------------------------- MODULE EdgeOutbox -----------------------------
(***************************************************************************)
(* An edge node's side of the lead synchronisation: FormEngineService      *)
(* captures leads and writes an outbox row in the same transaction;        *)
(* OutboxService.flush publishes the rows, over AMQP, one HTTP request per *)
(* row, or one HTTP request per batch.  The outcome of a transport is      *)
(* decided by SubmissionSync, which composes this module with the master.  *)
(***************************************************************************)
EXTENDS LeadPayload, Sequences

CONSTANTS
  SyncModes,    \* the values of SYNC_MODE an edge may have
  MaxAttempts,  \* outboxMaxAttempts
  BatchSize,    \* how many rows a flush takes (20 in the code)
  Urls          \* how many master URLs an HTTP push tries

ASSUME OutboxAssumption ==
  /\ SyncModes \subseteq {"auto", "http"}
  /\ MaxAttempts \in Nat \ {0}
  /\ BatchSize \in Nat \ {0}
  /\ Urls \in Nat \ {0}

VARIABLES
  syncMode,   \* this edge's SYNC_MODE, read once
  edgeLead,   \* the edge's FormSubmission row of each lead, with its payment
  request,    \* the unfinished HTTP request about each lead on the edge
  outbox,     \* the OutboxEvent rows, by createdAt
  fpc,        \* where flush is; "idle" when `publishing` is false
  todo,       \* the rows of its batch it has still to handle
  urls,       \* the master URLs the current push may still try
  answers,    \* the results of a batch push still to be applied
  channel,    \* whether the AMQP channel is set
  wire        \* published messages still in the client's socket buffer

captureVars == <<edgeLead, request>>
flushVars   == <<fpc, todo, urls, answers>>
edgeVars    == <<edgeLead, request, outbox, fpc, todo, urls, answers,
                 channel, wire>>

NoLead   == [ver |-> 0, otp |-> "NONE", pay |-> "NONE"]
EdgeRow  == [ver : Versions, otp : OtpStatus, pay : PayStatus] \cup {NoLead}
EventKey == Leads \X {0, 1, 2}
Event    == [key : EventKey, p : Payload,
             status : {"PENDING", "SENT", "FAILED"}, attempts : Nat]
Answer   == [key : Keys, status : {"accepted", "duplicate", "failed"}]

EdgeTypeOK ==
  /\ syncMode \in SyncModes
  /\ edgeLead \in [Leads -> EdgeRow]
  /\ request \in [Leads -> {"none", "opening", "settling"}]
  /\ outbox \in Seq(Event)
  /\ fpc \in {"idle", "next", "assert", "mark", "call", "post", "apply"}
  /\ todo \in Seq(1..Len(outbox))
  /\ urls \in 0..Urls
  /\ answers \in Seq(Answer)
  /\ channel \in BOOLEAN
  /\ wire \in Seq(Payload)

EdgeInit ==
  /\ syncMode \in SyncModes
  /\ edgeLead = [l \in Leads |-> NoLead]
  /\ request = [l \in Leads |-> "none"]
  /\ outbox = <<>>
  /\ fpc = "idle"
  /\ todo = <<>>
  /\ urls = 0
  /\ answers = <<>>
  /\ channel = FALSE
  /\ wire = <<>>
-----------------------------------------------------------------------------
(* Rows of the outbox. *)
NewEvent(key, p) == [key |-> key, p |-> p, status |-> "PENDING", attempts |-> 0]

(* The outbox key of a version is its payload's key; the one of a payment  *)
(* (`submission:<id>:payment:<time>`) is not.                              *)
FirstVersionKey(p) == <<p.lead, 1>>  \* wrong VersionKey, for mutation
VersionKey(p)  == Key(p)
PaymentKey(l)  == <<l, 0>>

Stamped(e, status) == [e EXCEPT !.status = status, !.attempts = @ + 1]
Stamp(i, status)   == outbox' = [outbox EXCEPT ![i] = Stamped(@, status)]

NeverTried(i) == outbox[i].status = "PENDING"  \* wrong Unsent, for mutation
Unsent(i) == outbox[i].status # "SENT" /\ outbox[i].attempts < MaxAttempts

(* findMany: the oldest BatchSize rows that may still be sent.  Any number *)
(* of them, in order, that only the limit keeps from being all.            *)
Sendable == {i \in 1..Len(outbox) : Unsent(i)}

IsBatch(b) ==
  /\ \A j, k \in DOMAIN b : j < k => b[j] < b[k]
  /\ \A i \in Sendable :
       \/ \E j \in DOMAIN b : b[j] = i
       \/ Len(b) = BatchSize /\ \A j \in DOMAIN b : b[j] < i

Batches == {b \in UNION {[1..n -> Sendable] : n \in 1..BatchSize} : IsBatch(b)}
-----------------------------------------------------------------------------
(* submit, and requestOtp on a form with OTP: the lead, its pending        *)
(* payment and its outbox row are created in one transaction.              *)
Capture(l) ==
  LET p == Captured(l)
  IN  /\ edgeLead[l] = NoLead
      /\ edgeLead' = [edgeLead EXCEPT ![l] =
                        [ver |-> 1, otp |-> p.otp, pay |-> p.pay]]
      /\ outbox' = Append(outbox, NewEvent(VersionKey(p), p))
      /\ UNCHANGED <<request, flushVars, channel, wire>>

(* verifyOtp with the right code in time: its transaction. *)
VerifyOtp(l) ==
  LET p == Verified(l)
  IN  /\ edgeLead[l].otp = "UNVERIFIED"
      /\ edgeLead' = [edgeLead EXCEPT ![l] = [@ EXCEPT !.ver = 2,
                                                       !.otp = "VERIFIED"]]
      /\ outbox' = Append(outbox, NewEvent(VersionKey(p), p))
      /\ request' = [request EXCEPT ![l] = IF IsPaid(l) THEN "opening"
                                                        ELSE "none"]
      /\ UNCHANGED <<flushVars, channel, wire>>

(* ... and after it, outside the transaction, the payment row. *)
OpenPayment(l) ==
  /\ request[l] = "opening"
  /\ edgeLead' = [edgeLead EXCEPT ![l].pay = "PENDING"]
  /\ request' = [request EXCEPT ![l] = "none"]
  /\ UNCHANGED <<outbox, flushVars, channel, wire>>

(* Wrong CompletePayment, for mutation: the payment row is not updated. *)
CompleteUnsaved(l) ==
  /\ edgeLead[l].pay = "PENDING"
  /\ request' = [request EXCEPT ![l] = "settling"]
  /\ UNCHANGED <<edgeLead, outbox, flushVars, channel, wire>>

(* handlePaymentSuccess, first call: payment.update. *)
CompletePayment(l) ==
  /\ edgeLead[l].pay = "PENDING"
  /\ edgeLead' = [edgeLead EXCEPT ![l].pay = "COMPLETED"]
  /\ request' = [request EXCEPT ![l] = "settling"]
  /\ UNCHANGED <<outbox, flushVars, channel, wire>>

(* handlePaymentSuccess, second call: outboxEvent.create. *)
EnqueuePayment(l) ==
  /\ request[l] = "settling"
  /\ outbox' = Append(outbox, NewEvent(PaymentKey(l), Paid(l)))
  /\ request' = [request EXCEPT ![l] = "none"]
  /\ UNCHANGED <<edgeLead, flushVars, channel, wire>>
-----------------------------------------------------------------------------
(* The timer runs flush unless one is running. *)
StartFlush ==
  /\ fpc = "idle"
  /\ todo' \in Batches
  /\ fpc' = IF syncMode = "http" THEN "post" ELSE "next"
  /\ urls' = Urls
  /\ UNCHANGED <<captureVars, outbox, answers, channel, wire>>

(* The next row of the batch goes over AMQP when there is a channel, ...  *)
TakeAmqp ==
  /\ fpc = "next" /\ todo # <<>> /\ channel
  /\ fpc' = "assert"
  /\ UNCHANGED <<captureVars, outbox, todo, urls, answers, channel, wire>>

(* ... otherwise it is pushed by HTTP. *)
TakeHttp ==
  /\ fpc = "next" /\ todo # <<>> /\ ~channel
  /\ fpc' = "call"
  /\ urls' = Urls
  /\ UNCHANGED <<captureVars, outbox, todo, answers, channel, wire>>

EndFlush ==
  /\ fpc = "next" /\ todo = <<>>
  /\ fpc' = "idle"
  /\ UNCHANGED <<captureVars, outbox, todo, urls, answers, channel, wire>>

(* sendToQueue after assertQueue: the message is in the socket buffer. *)
Publish ==
  /\ fpc = "assert" /\ channel
  /\ wire' = Append(wire, outbox[Head(todo)].p)
  /\ fpc' = "mark"
  /\ UNCHANGED <<captureVars, outbox, todo, urls, answers, channel>>

(* sendToQueue answers false: the message is buffered all the same, and    *)
(* the row is marked FAILED.                                               *)
PublishFull ==
  /\ fpc = "assert" /\ channel
  /\ wire' = Append(wire, outbox[Head(todo)].p)
  /\ Stamp(Head(todo), "FAILED")
  /\ fpc' = "next"
  /\ todo' = Tail(todo)
  /\ UNCHANGED <<captureVars, urls, answers, channel>>

(* The channel went away while assertQueue was awaited. *)
PublishFails ==
  /\ fpc = "assert" /\ ~channel
  /\ Stamp(Head(todo), "FAILED")
  /\ fpc' = "next"
  /\ todo' = Tail(todo)
  /\ UNCHANGED <<captureVars, urls, answers, channel, wire>>

MarkSent ==
  /\ fpc = "mark"
  /\ Stamp(Head(todo), "SENT")
  /\ fpc' = "next"
  /\ todo' = Tail(todo)
  /\ UNCHANGED <<captureVars, urls, answers, channel, wire>>
-----------------------------------------------------------------------------
(* pushSubmissionViaHttp returns. *)
CallOk ==
  /\ fpc = "call"
  /\ Stamp(Head(todo), "SENT")
  /\ fpc' = "next"
  /\ todo' = Tail(todo)
  /\ UNCHANGED <<captureVars, urls, answers, channel, wire>>

(* A URL fails: the next one is tried, or the row is marked FAILED. *)
CallFails ==
  /\ fpc = "call"
  /\ IF urls > 1
     THEN urls' = urls - 1 /\ UNCHANGED <<outbox, fpc, todo>>
     ELSE /\ Stamp(Head(todo), "FAILED")
          /\ fpc' = "next"
          /\ todo' = Tail(todo)
          /\ UNCHANGED urls
  /\ UNCHANGED <<captureVars, answers, channel, wire>>

(* pushSubmissionsBatchViaHttp returns. *)
PostOk(results) ==
  /\ fpc = "post"
  /\ answers' = results
  /\ fpc' = "apply"
  /\ UNCHANGED <<captureVars, outbox, todo, urls, channel, wire>>

FailBatch ==
  outbox' = [i \in 1..Len(outbox) |->
               IF \E j \in 1..Len(todo) : todo[j] = i
               THEN Stamped(outbox[i], "FAILED") ELSE outbox[i]]

(* A URL fails: the next one is tried, or every row of the batch fails. *)
PostFails ==
  /\ fpc = "post"
  /\ IF urls > 1
     THEN urls' = urls - 1 /\ UNCHANGED <<outbox, fpc, todo>>
     ELSE /\ FailBatch
          /\ fpc' = "idle"
          /\ todo' = <<>>
          /\ UNCHANGED urls
  /\ UNCHANGED <<captureVars, answers, channel, wire>>

(* The row of the batch a result is about, by comparing the row's outbox   *)
(* key with the payload key the master answered; there may be none.        *)
RowsOf(a) == {todo[j] : j \in {j \in 1..Len(todo) : outbox[todo[j]].key = a.key}}

AlwaysSent(a) == "SENT"  \* wrong RowStatus, for mutation
RowStatus(a)  == IF a.status = "failed" THEN "FAILED" ELSE "SENT"

ApplyAnswer ==
  /\ fpc = "apply" /\ answers # <<>>
  /\ LET a == Head(answers)
     IN  IF RowsOf(a) = {} THEN UNCHANGED outbox
         ELSE \E i \in RowsOf(a) :
                Stamp(i, RowStatus(a))
  /\ answers' = Tail(answers)
  /\ UNCHANGED <<captureVars, fpc, todo, urls, channel, wire>>

EndApply ==
  /\ fpc = "apply" /\ answers = <<>>
  /\ fpc' = "idle"
  /\ todo' = <<>>
  /\ UNCHANGED <<captureVars, outbox, urls, answers, channel, wire>>

FlushStep ==
  \/ StartFlush \/ TakeAmqp \/ TakeHttp \/ EndFlush
  \/ Publish \/ PublishFails \/ MarkSent
  \/ ApplyAnswer \/ EndApply
=============================================================================
