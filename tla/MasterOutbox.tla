----------------------------- MODULE MasterOutbox -----------------------------
(***************************************************************************)
(* The master's outbox on its way to an edge's queue: OutboxService.flush  *)
(* over AMQP.  A panel request's transaction writes an OutboxEvent row; a  *)
(* flush takes the oldest rows that are not SENT and publishes them one by *)
(* one.  sendToQueue only fills the socket buffer (there are no publisher  *)
(* confirms) and the row is marked SENT all the same.  A row whose         *)
(* publication fails is FAILED: its successors go first, and a later flush *)
(* tries it again, maxAttempts times.  The modules of what is announced    *)
(* extend this one.  A flush without a channel sends nothing and burns no  *)
(* attempt; it only delays (OutboxConnection).                             *)
(***************************************************************************)
EXTENDS Naturals, Sequences, FiniteSets

CONSTANTS
  MaxAttempts,  \* outboxMaxAttempts (10)
  BatchSize     \* how many rows a flush takes (20)

ASSUME OutboxAssumption == MaxAttempts \in Nat \ {0} /\ BatchSize \in Nat \ {0}

VARIABLES
  events,    \* the OutboxEvent rows in the order of their transactions
  unsent,    \* indices of the rows not SENT: PENDING, or FAILED
  attempts,  \* how often each FAILED row failed
  batch,     \* those the running flush has still to handle
  written,   \* the first of them is in the socket buffer, its row not marked
  wire,      \* the socket buffer: indices of the events in it
  queue,     \* the edge's queue at the broker: indices too
  late,      \* history: the rows that failed before a message was written
  dropped    \* history: the events that were in a socket buffer when it was lost

flushVars  == <<unsent, attempts, batch, written>>
lineVars   == <<wire, queue>>
histories  == <<late, dropped>>
outboxVars == <<flushVars, lineVars, histories>>  \* without events

Indices == 1..Len(events)
Held(line) == {line[k] : k \in 1..Len(line)}

Attempts(i) == IF i \in DOMAIN attempts THEN attempts[i] ELSE 0
Sendable    == {i \in unsent : Attempts(i) < MaxAttempts}

OutboxTypeOK ==
  /\ unsent \subseteq Indices
  /\ attempts \in [DOMAIN attempts -> 1..MaxAttempts]
  /\ batch \subseteq Sendable
  /\ written \in BOOLEAN /\ (written => batch # {})
  /\ wire \in Seq(Indices) /\ queue \in Seq(Indices)
  /\ late \subseteq DOMAIN attempts /\ DOMAIN attempts \subseteq Indices
  /\ dropped \subseteq Indices

OutboxInit ==
  /\ events = <<>>
  /\ unsent = {} /\ attempts = <<>> /\ batch = {} /\ written = FALSE
  /\ wire = <<>> /\ queue = <<>>
  /\ late = {} /\ dropped = {}
-----------------------------------------------------------------------------
\* wrong Announce, for mutation: the event is not in the transaction
AnnounceNothing(m) == events' = events
Announce(m) == events' = Append(events, m)

(* The rows a step has added are PENDING. *)
Pending == unsent' = unsent \cup (1..Len(events') \ Indices)

Oldest(n, set) == {i \in set : Cardinality({j \in set : j < i}) < n}

StartFlush ==
  /\ batch = {} /\ Sendable # {}
  /\ batch' = Oldest(BatchSize, Sendable)
  /\ UNCHANGED <<events, unsent, attempts, written, lineVars, histories>>

\* wrong First, for mutation: newest first
Last(set)  == CHOOSE i \in set : \A j \in set : i >= j
First(set) == CHOOSE i \in set : \A j \in set : i <= j

(* assertQueue has answered: sendToQueue writes the first of the batch. *)
Send ==
  /\ batch # {} /\ ~written
  /\ wire' = Append(wire, First(batch))
  /\ written' = TRUE
  /\ UNCHANGED <<events, unsent, attempts, batch, queue, histories>>

MarkSent ==
  /\ written
  /\ unsent' = unsent \ {First(batch)}
  /\ batch' = batch \ {First(batch)}
  /\ written' = FALSE
  /\ UNCHANGED <<events, attempts, lineVars, histories>>

(* The catch block: the row is FAILED, and after half a second the flush   *)
(* goes on with the rest, unless the channel is gone by then.              *)
Fail(i) ==
  /\ attempts' = [j \in DOMAIN attempts \cup {i} |->
                    IF j = i THEN Attempts(i) + 1 ELSE attempts[j]]
  /\ batch' \in {batch \ {i}, {}}

(* Its own update fails as well: the flush ends, the row is as it was. *)
Abort == batch' = {} /\ UNCHANGED attempts

(* The first of the batch is not written: assertQueue throws. *)
PublishFails ==
  /\ batch # {} /\ ~written
  /\ \/ Fail(First(batch)) /\ late' = late \cup {First(batch)}
     \/ Abort /\ UNCHANGED late
  /\ UNCHANGED <<events, unsent, written, lineVars, dropped>>

(* It is written, but the row is not marked SENT: sendToQueue says that    *)
(* the buffer is full, or the update throws.                               *)
MarkFails ==
  /\ written
  /\ Fail(First(batch)) \/ Abort
  /\ written' = FALSE
  /\ UNCHANGED <<events, unsent, lineVars, histories>>

BrokerAccepts ==
  /\ wire # <<>>
  /\ queue' = Append(queue, Head(wire))
  /\ wire' = Tail(wire)
  /\ UNCHANGED <<events, flushVars, histories>>

BufferLost == wire' = <<>> /\ dropped' = dropped \cup Held(wire)

(* The connection closes.  A flush that finds no channel leaves the rest   *)
(* of its batch for the next; a new one may be there in time.              *)
LinkLost ==
  /\ wire # <<>>
  /\ BufferLost
  /\ batch' \in {batch, IF written THEN {First(batch)} ELSE batch}
  /\ UNCHANGED <<events, unsent, attempts, written, queue, late>>

(* The master stops; its tables and the broker's queue survive. *)
MasterStops ==
  /\ BufferLost
  /\ batch' = {} /\ written' = FALSE
  /\ UNCHANGED <<events, unsent, attempts, queue, late>>
-----------------------------------------------------------------------------
(***************************************************************************)
(* What the outbox does not promise to a set of events, those of one row   *)
(* or landing.  One may come behind a later one when its publication       *)
(* failed, and no copy of it was written by then or that copy was lost.    *)
(***************************************************************************)
Overtaken(i)  == i \in late \/ (i \in dropped /\ i \in DOMAIN attempts)
OutOfOrder(S) == \E i, j \in S : i < j /\ Overtaken(i)

(* The last one was in a lost buffer, or its row failed maxAttempts times. *)
LastLost(S) ==
  \E i \in S : (\A j \in S : j <= i) /\ i \in dropped \cup (unsent \ Sendable)
-----------------------------------------------------------------------------
(***************************************************************************)
(* The order it does promise, of the events of a set S, when those of a    *)
(* subset H are known to be handled: the parts of an inductive invariant.  *)
(***************************************************************************)
Line        == queue \o wire
Started(H)  == Held(Line) \cup H
Somewhere(H) == Started(H) \cup dropped

(* An event that was written, or failed, is somewhere.  So is what is SENT. *)
TriedIsSomewhere(S, H) ==
  \A i \in S \cap DOMAIN attempts : i \in Somewhere(H) \cup late
WrittenIsSomewhere(S, H) == written /\ First(batch) \in S => First(batch) \in Somewhere(H)
SentIsSomewhere(S, H) == \A i \in S : i \in unsent \cup Somewhere(H)

(* Nothing goes before an event that has not failed yet. *)
UntriedIsNext(S, H) ==
  \A i \in (S \cap unsent) \ DOMAIN attempts :
    /\ \A j \in S \cap Started(H) : j <= i
    /\ i \notin batch => \A j \in batch : j < i

(* An event behind a later one was overtaken or is there a second time. *)
LineInOrder(S, H) ==
  \A a, b \in 1..Len(Line) :
    a < b /\ Line[a] \in S /\ Line[b] \in S /\ Line[b] < Line[a] =>
      \/ Overtaken(Line[b]) \/ Line[b] \in H
      \/ \E c \in 1..a - 1 : Line[c] = Line[b]

(* An event still to come after a later one was handled was overtaken or   *)
(* is a repetition.                                                        *)
HandledInOrder(S, H) ==
  \A i \in H, j \in S \cap (unsent \cup Held(Line)) :
    j < i => j \in H \/ Overtaken(j)

SendingInOrder(S, H) ==
  /\ TriedIsSomewhere(S, H) /\ WrittenIsSomewhere(S, H) /\ SentIsSomewhere(S, H)
  /\ UntriedIsNext(S, H) /\ LineInOrder(S, H) /\ HandledInOrder(S, H)
=============================================================================
