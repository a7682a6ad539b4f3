------------------------- MODULE MasterOutbox_proofs -------------------------
(***************************************************************************)
(* Lemmas about MasterOutbox, for any number of rows, attempts and sizes   *)
(* of a batch: its types, and the order in which the events of a set reach *)
(* the edge.                                                               *)
(***************************************************************************)
EXTENDS MasterOutbox, FiniteSetTheorems, WellFoundedInduction, TLAPS

(* The helper First takes the least member of its set. *)
LEMMA FirstIsLeast ==
  ASSUME NEW n \in Nat, NEW set \in SUBSET (1..n), set # {}
  PROVE  First(set) \in set /\ \A j \in set : First(set) <= j
<1> DEFINE Less == OpToRel(<, Nat)
<1>1. \A i, j \in Nat : j < i => <<j, i>> \in Less
  BY DEF OpToRel
<1>2. IsWellFoundedOn(Less, Nat)
  BY NatLessThanWellFounded
<1> HIDE DEF Less
<1>3. PICK i \in set : \A j \in set : <<j, i>> \notin Less
  <2>1. set \subseteq Nat
    OBVIOUS
  <2>. QED BY <1>2, <2>1, WFMin, Zenon
<1>4. \A j \in set : i <= j
  <2>1. set \subseteq Nat
    OBVIOUS
  <2>2. \A j \in set : ~ (j < i)
    BY <1>1, <1>3, <2>1, Zenon
  <2>. QED BY <2>1, <2>2
<1>. QED BY <1>4, Zenon DEF First

(* The rows a flush takes are older than those it leaves. *)
LEMMA OldestIsFirst ==
  ASSUME NEW n \in Nat, NEW size \in Nat, NEW set \in SUBSET (1..n),
         NEW b \in Oldest(size, set), NEW u \in set \ Oldest(size, set)
  PROVE  b < u
<1> SUFFICES ASSUME u < b
             PROVE  FALSE
  <2>1. b \in 1..n /\ u \in 1..n /\ u # b
    BY DEF Oldest
  <2>. QED BY <2>1
<1> DEFINE below(i) == {j \in set : j < i}
<1>1. IsFiniteSet(1..n)
  BY FS_Interval
<1>2. IsFiniteSet(below(b)) /\ IsFiniteSet(below(u))
  BY <1>1, FS_Subset
<1>3. below(u) \subseteq below(b)
  <2>1. b \in Nat /\ u \in Nat /\ \A j \in set : j \in Nat
    BY DEF Oldest
  <2>2. \A j \in set : j < u => j < b
    BY <2>1
  <2>. QED BY <2>2
<1>4. Cardinality(below(u)) <= Cardinality(below(b))
  BY <1>2, <1>3, FS_Subset
<1>5. Cardinality(below(b)) < size /\ ~(Cardinality(below(u)) < size)
  BY DEF Oldest
<1>6. Cardinality(below(b)) \in Nat /\ Cardinality(below(u)) \in Nat
  BY <1>2, FS_CardinalityType
<1>. QED BY <1>4, <1>5, <1>6

(* The batch of a flush, and its first event. *)
LEMMA BatchType ==
  ASSUME Len(events) \in Nat, OutboxTypeOK
  PROVE  /\ batch \subseteq unsent /\ unsent \subseteq Indices /\ Indices \subseteq Nat
         /\ batch # {} => /\ First(batch) \in batch
                          /\ \A j \in batch : First(batch) <= j
<1>1. batch \in SUBSET (1..Len(events)) /\ batch \subseteq unsent
  BY DEF OutboxTypeOK, Sendable, Indices
<1>. QED BY <1>1, FirstIsLeast DEF OutboxTypeOK, Indices

LEMMA InitOutboxTypeOK == OutboxInit => OutboxTypeOK
<1> SUFFICES ASSUME OutboxInit PROVE OutboxTypeOK
  OBVIOUS
<1>1. DOMAIN attempts = {}
  BY DEF OutboxInit
<1>2. attempts \in [DOMAIN attempts -> 1..MaxAttempts]
  BY <1>1 DEF OutboxInit
<1>3. \A set : <<>> \in Seq(set)
  OBVIOUS
<1>. QED BY <1>1, <1>2, <1>3, Zenon DEF OutboxInit, OutboxTypeOK

LEMMA OutboxKeepsTypes ==
  ASSUME Len(events) \in Nat, OutboxTypeOK,
         \/ StartFlush \/ Send \/ MarkSent \/ PublishFails \/ MarkFails
         \/ BrokerAccepts \/ LinkLost \/ MasterStops, UNCHANGED events
  PROVE  OutboxTypeOK'
<1> USE DEF OutboxTypeOK, flushVars, lineVars, histories
<1>0. Indices' = Indices
  BY DEF Indices
<1>a. Sendable' = {i \in unsent' : Attempts(i)' < MaxAttempts}
  BY DEF Sendable
<1>1. CASE StartFlush
  <2>1. Sendable' = Sendable
    BY <1>1, <1>a DEF StartFlush, Sendable, Attempts
  <2>2. batch' \subseteq Sendable
    BY <1>1 DEF StartFlush, Oldest
  <2>. QED BY <1>0, <1>1, <2>1, <2>2 DEF StartFlush
<1>2. CASE Send
  <2>1. Sendable' = Sendable
    BY <1>2, <1>a DEF Send, Sendable, Attempts
  <2>2. First(batch) \in Indices
    BY <1>2, BatchType DEF Send
  <2>3. wire' \in Seq(Indices)
    BY <1>2, <2>2 DEF Send
  <2>. QED BY <1>0, <1>2, <2>1, <2>3 DEF Send
<1>3. CASE MarkSent
  <2>1. batch' \subseteq Sendable'
    BY <1>3, <1>a DEF MarkSent, Sendable, Attempts
  <2>. QED BY <1>0, <1>3, <2>1 DEF MarkSent
<1>4. CASE PublishFails \/ MarkFails
  <2>1. PICK i : i = First(batch)
    OBVIOUS
  <2>2. /\ i \in batch /\ i \in Indices /\ i \in unsent
        /\ Attempts(i) < MaxAttempts /\ Attempts(i) \in Nat
    <3>1. i \in batch /\ i \in Indices
      BY <1>4, <2>1, BatchType DEF PublishFails, MarkFails
    <3>2. i \in unsent /\ Attempts(i) < MaxAttempts
      BY <3>1 DEF Sendable
    <3>3. Attempts(i) \in Nat
      BY DEF Attempts
    <3>. QED BY <3>1, <3>2, <3>3
  <2>3. /\ UNCHANGED <<events, unsent, wire, queue, dropped>>
        /\ Fail(i) \/ Abort
        /\ late' = late \/ (late' = late \cup {i} /\ Fail(i))
        /\ written' = FALSE
    BY <1>4, <2>1 DEF PublishFails, MarkFails
  <2>4. CASE Abort
    <3>1. batch' = {} /\ attempts' = attempts
      BY <2>4 DEF Abort
    <3>2. late' \subseteq DOMAIN attempts'
      <4>1. CASE late' = late
        BY <3>1, <4>1
      <4>2. CASE late' # late
        BY <2>3, <3>1, <4>2 DEF Fail
      <4>. QED BY <4>1, <4>2
    <3>. QED BY <1>0, <2>3, <3>1, <3>2
  <2>5. CASE Fail(i)
    <3>1. /\ DOMAIN attempts' = DOMAIN attempts \cup {i}
          /\ attempts'[i] = Attempts(i) + 1
          /\ \A j \in DOMAIN attempts : j # i => attempts'[j] = attempts[j]
          /\ attempts' = [j \in DOMAIN attempts' |-> attempts'[j]]
          /\ batch' \subseteq batch \ {i}
      BY <2>5 DEF Fail
    <3>2. attempts' \in [DOMAIN attempts' -> 1..MaxAttempts]
      <4>1. \A j \in DOMAIN attempts' : attempts'[j] \in 1..MaxAttempts
        <5>1. Attempts(i) + 1 \in 1..MaxAttempts
          BY <2>2, OutboxAssumption
        <5>. QED BY <3>1, <5>1
      <4>. QED BY <3>1, <4>1
    <3>3. batch' \subseteq Sendable'
      <4>1. \A j \in batch' : Attempts(j)' = Attempts(j)
        BY <3>1 DEF Attempts
      <4>. QED BY <1>a, <2>3, <3>1, <4>1 DEF Sendable
    <3>. QED BY <1>0, <2>2, <2>3, <3>1, <3>2, <3>3
  <2>. QED BY <2>3, <2>4, <2>5
<1>5. CASE BrokerAccepts
  <2>1. Sendable' = Sendable
    BY <1>5, <1>a DEF BrokerAccepts, Sendable, Attempts
  <2>2. queue' \in Seq(Indices) /\ wire' \in Seq(Indices)
    BY <1>5 DEF BrokerAccepts
  <2>. QED BY <1>0, <1>5, <2>1, <2>2 DEF BrokerAccepts
<1>6. CASE LinkLost \/ MasterStops
  <2>1. Sendable' = Sendable
    BY <1>6, <1>a DEF LinkLost, MasterStops, Sendable, Attempts
  <2>2. Held(wire) \subseteq Indices
    BY DEF Held
  <2>3. batch' \subseteq Sendable /\ (written' => batch' # {})
    <3>1. CASE LinkLost
      <4>1. written => First(batch) \in Sendable
        BY BatchType
      <4>. QED BY <3>1, <4>1 DEF LinkLost
    <3>2. CASE MasterStops
      BY <3>2 DEF MasterStops
    <3>. QED BY <1>6, <3>1, <3>2
  <2>4. UNCHANGED <<unsent, attempts, queue, late>> /\ wire' = <<>>
    BY <1>6 DEF LinkLost, MasterStops, BufferLost
  <2>5. dropped' \subseteq Indices
    BY <1>6, <2>2 DEF LinkLost, MasterStops, BufferLost
  <2>6. written' \in BOOLEAN
    BY <1>6 DEF LinkLost, MasterStops
  <2>7. wire' \in Seq(Indices)
    BY <2>4
  <2>. QED BY <1>0, <2>1, <2>3, <2>4, <2>5, <2>6, <2>7
<1>. QED BY <1>1, <1>2, <1>3, <1>4, <1>5, <1>6

(* A transaction that adds pending rows, or none. *)
LEMMA AnnouncedKeepsTypes ==
  ASSUME Len(events) \in Nat, Len(events') \in Nat, Len(events) <= Len(events'),
         OutboxTypeOK, Pending \/ UNCHANGED unsent,
         UNCHANGED <<attempts, batch, written, lineVars, histories>>
  PROVE  OutboxTypeOK'
<1> USE DEF OutboxTypeOK, lineVars, histories
<1>1. Indices \subseteq Indices' /\ unsent \subseteq unsent' /\ unsent' \subseteq Indices'
  BY DEF Indices, Pending
<1>2. Sendable \subseteq Sendable'
  BY <1>1 DEF Sendable, Attempts
<1>3. wire' \in Seq(Indices') /\ queue' \in Seq(Indices')
  BY <1>1
<1>. QED BY <1>1, <1>2, <1>3
-----------------------------------------------------------------------------
(***************************************************************************)
(* The order of the outbox's events on their way, of any set S of them and *)
(* those of it that are known to be handled.                               *)
(***************************************************************************)
LEMMA HeldTogether ==
  ASSUME NEW q \in Seq(Nat), NEW w \in Seq(Nat)
  PROVE  /\ Held(q \o w) = Held(q) \cup Held(w)
         /\ Len(q \o w) = Len(q) + Len(w) /\ Len(q) \in Nat /\ Len(w) \in Nat
         /\ \A k \in 1..Len(q) : (q \o w)[k] = q[k]
         /\ \A k \in 1..Len(w) : (q \o w)[Len(q) + k] = w[k]
<1> PICK line : line = q \o w
  OBVIOUS
<1>1. /\ Len(line) = Len(q) + Len(w) /\ Len(q) \in Nat /\ Len(w) \in Nat
      /\ \A k \in 1..Len(q) : line[k] = q[k]
      /\ \A k \in 1..Len(w) : line[Len(q) + k] = w[k]
  OBVIOUS
<1>2. ASSUME NEW k \in 1..Len(line)
      PROVE  line[k] \in Held(q) \cup Held(w)
  <2>1. CASE k \in 1..Len(q)
    BY <1>1, <2>1 DEF Held
  <2>2. CASE k \notin 1..Len(q)
    <3>1. k - Len(q) \in 1..Len(w) /\ k = Len(q) + (k - Len(q))
      BY <1>1, <2>2
    <3>. QED BY <1>1, <3>1 DEF Held
  <2>. QED BY <2>1, <2>2
<1>3. \A k \in 1..Len(q) : k \in 1..Len(line)
  BY <1>1
<1>4. \A k \in 1..Len(w) : Len(q) + k \in 1..Len(line)
  BY <1>1
<1>5. Held(line) \subseteq Held(q) \cup Held(w)
  BY <1>2 DEF Held
<1>6. \A k \in 1..Len(q) : q[k] \in Held(line)
  BY <1>1, <1>3 DEF Held
<1>7. \A k \in 1..Len(w) : w[k] \in Held(line)
  BY <1>1, <1>4 DEF Held
<1>8. Held(q) \subseteq Held(line) /\ Held(w) \subseteq Held(line)
  BY <1>6, <1>7 DEF Held
<1>. QED BY <1>1, <1>5, <1>8

(* The broker's queue and the socket buffer, as one line. *)
LEMMA LineType ==
  ASSUME OutboxTypeOK
  PROVE  /\ Line \in Seq(Indices) /\ Len(Line) = Len(queue) + Len(wire)
         /\ Len(queue) \in Nat /\ Len(wire) \in Nat
         /\ \A k \in 1..Len(queue) : Line[k] = queue[k]
         /\ \A k \in 1..Len(wire) : Line[Len(queue) + k] = wire[k]
         /\ Held(Line) = Held(queue) \cup Held(wire)
         /\ Held(Line) \subseteq Indices
<1>1. queue \in Seq(Indices) /\ wire \in Seq(Indices)
  BY DEF OutboxTypeOK
<1>2. queue \in Seq(Nat) /\ wire \in Seq(Nat) /\ Line \in Seq(Indices)
  BY <1>1 DEF Line, Indices
<1>3. Held(Line) \subseteq Indices
  BY <1>2 DEF Held
<1>. QED BY <1>2, <1>3, HeldTogether DEF Line

(* The head of the queue stays, whatever is sent. *)
LEMMA HeadStays ==
  ASSUME OutboxTypeOK, BrokerAccepts
  PROVE  queue # <<>> => queue' # <<>> /\ Head(queue') = Head(queue)
<1>1. PICK x \in Indices : queue' = Append(queue, x)
  <2>1. wire \in Seq(Indices) /\ wire # <<>>
    BY DEF BrokerAccepts, OutboxTypeOK
  <2>. QED BY <2>1 DEF BrokerAccepts
<1>2. queue \in Seq(Indices)
  BY DEF OutboxTypeOK
<1>. QED BY <1>1, <1>2

(* What is still to come was so before. *)
LEMMA NothingNew ==
  ASSUME Len(events) \in Nat, OutboxTypeOK,
         \/ StartFlush \/ Send \/ MarkSent \/ PublishFails \/ MarkFails
         \/ BrokerAccepts \/ LinkLost \/ MasterStops
  PROVE  (unsent \cup Held(Line))' \subseteq unsent \cup Held(Line)
<1>0. /\ queue \in Seq(Nat) /\ wire \in Seq(Nat)
      /\ Held(Line) = Held(queue) \cup Held(wire)
  BY LineType DEF OutboxTypeOK, Indices
<1>1. CASE StartFlush \/ MarkSent \/ PublishFails \/ MarkFails
  <2>1. UNCHANGED <<queue, wire>> /\ unsent' \subseteq unsent
    BY <1>1 DEF StartFlush, MarkSent, PublishFails, MarkFails, lineVars
  <2>. QED BY <2>1 DEF Line
<1>2. CASE Send
  <2>1. PICK f : f = First(batch)
    OBVIOUS
  <2>2. f \in unsent /\ f \in Nat /\ wire' = Append(wire, f) /\ UNCHANGED <<queue, unsent>>
    BY <1>2, <2>1, BatchType DEF Send
  <2>3. wire' \in Seq(Nat) /\ Len(wire') = Len(wire) + 1 /\ wire'[Len(wire) + 1] = f
        /\ \A k \in 1..Len(wire) : wire'[k] = wire[k]
    BY <1>0, <2>2
  <2>4. \A k \in 1..Len(wire) + 1 : k \in 1..Len(wire) \/ k = Len(wire) + 1
    BY <1>0
  <2>5. Held(wire') \subseteq Held(wire) \cup {f}
    BY <2>3, <2>4 DEF Held
  <2>6. Held(Line') = Held(queue) \cup Held(wire')
    BY <1>0, <2>2, <2>3, HeldTogether DEF Line
  <2>. QED BY <1>0, <2>2, <2>5, <2>6
<1>3. CASE BrokerAccepts
  <2>1. wire # <<>> /\ UNCHANGED unsent
    BY <1>3 DEF BrokerAccepts, flushVars
  <2>2. Line' = Append(queue, Head(wire)) \o Tail(wire)
    BY <1>3 DEF BrokerAccepts, Line
  <2>3. wire = <<Head(wire)>> \o Tail(wire)
    BY <1>0, <2>1
  <2>4. Line' = Line
    BY <1>0, <2>1, <2>2, <2>3 DEF Line
  <2>. QED BY <2>1, <2>4
<1>4. CASE LinkLost \/ MasterStops
  <2>1. wire' = <<>> /\ UNCHANGED <<queue, unsent>>
    BY <1>4 DEF LinkLost, MasterStops, BufferLost
  <2>2. Line' = queue \o <<>>
    BY <2>1 DEF Line
  <2>3. Line' = queue
    BY <1>0, <2>2
  <2>. QED BY <1>0, <2>1, <2>3
<1>. QED BY <1>1, <1>2, <1>3, <1>4

(***************************************************************************)
(* Where the events are, in whatever order.                                *)
(***************************************************************************)
LEMMA OutboxPlaces ==
  ASSUME Len(events) \in Nat, OutboxTypeOK, NEW S, NEW H,
         WrittenIsSomewhere(S, H), SentIsSomewhere(S, H),
         \/ StartFlush \/ Send \/ MarkSent \/ PublishFails \/ MarkFails
         \/ BrokerAccepts \/ LinkLost \/ MasterStops, UNCHANGED events
  PROVE  WrittenIsSomewhere(S, H)' /\ SentIsSomewhere(S, H)'
<1> PICK f : f = First(batch)
  OBVIOUS
<1> USE DEF lineVars, histories, flushVars, WrittenIsSomewhere, SentIsSomewhere
<1>0. /\ queue \in Seq(Nat) /\ wire \in Seq(Nat)
      /\ Held(Line) = Held(queue) \cup Held(wire)
  BY LineType DEF OutboxTypeOK, Indices
<1>1. ASSUME \/ /\ Held(Line) \subseteq Held(Line') \cup dropped'
                /\ dropped \subseteq dropped'
             , UNCHANGED unsent, written' => written /\ First(batch') = f
      PROVE  WrittenIsSomewhere(S, H)' /\ SentIsSomewhere(S, H)'
  BY <1>1 DEF Somewhere, Started
<1>2. CASE StartFlush
  <2>1. ~written'
    BY <1>2 DEF StartFlush, OutboxTypeOK
  <2>. QED BY <1>1, <1>2, <2>1 DEF StartFlush, Line
<1>3. CASE Send
  <2>1. f \in Nat
    BY <1>3, BatchType DEF Send
  <2>2. wire' = Append(wire, f) /\ UNCHANGED <<queue, dropped, unsent, batch>>
    BY <1>3 DEF Send
  <2>3. wire' \in Seq(Nat) /\ Len(wire') = Len(wire) + 1 /\ wire'[Len(wire) + 1] = f
        /\ \A k \in 1..Len(wire) : wire'[k] = wire[k]
    BY <1>0, <2>1, <2>2
  <2>4. Held(wire) \subseteq Held(wire') /\ f \in Held(wire')
    <3>1. \A k \in 1..Len(wire) : k \in 1..Len(wire')
      BY <1>0, <2>3
    <3>2. Len(wire) + 1 \in 1..Len(wire')
      BY <1>0, <2>3
    <3>. QED BY <2>3, <3>1, <3>2 DEF Held
  <2>5. Held(Line') = Held(queue) \cup Held(wire')
    BY <1>0, <2>2, <2>3, HeldTogether DEF Line
  <2>. QED BY <1>0, <2>2, <2>4, <2>5 DEF Somewhere, Started
<1>4. CASE MarkSent
  BY <1>4 DEF MarkSent, Somewhere, Started, Line
<1>5. CASE PublishFails \/ MarkFails
  <2>1. ~written' /\ UNCHANGED <<unsent, queue, wire, dropped>>
    BY <1>5 DEF PublishFails, MarkFails, OutboxTypeOK
  <2>. QED BY <1>1, <2>1 DEF Line
<1>6. CASE BrokerAccepts
  <2>1. wire # <<>> /\ UNCHANGED <<unsent, written, batch, dropped>>
    BY <1>6 DEF BrokerAccepts
  <2>2. Line' = Append(queue, Head(wire)) \o Tail(wire)
    BY <1>6 DEF BrokerAccepts, Line
  <2>3. wire = <<Head(wire)>> \o Tail(wire)
    BY <1>0, <2>1
  <2>4. Line' = Line
    BY <1>0, <2>1, <2>2, <2>3 DEF Line
  <2>. QED BY <1>1, <2>1, <2>4
<1>7. CASE LinkLost \/ MasterStops
  <2>1. /\ wire' = <<>> /\ dropped' = dropped \cup Held(wire)
        /\ UNCHANGED <<unsent, queue>>
    BY <1>7 DEF LinkLost, MasterStops, BufferLost
  <2>2. Held(Line') = Held(queue)
    <3>1. Line' = queue \o <<>>
      BY <2>1 DEF Line
    <3>. QED BY <1>0, <3>1
  <2>3. written' => written /\ First(batch') = f
    <3>1. CASE MasterStops
      BY <3>1 DEF MasterStops
    <3>2. CASE LinkLost
      <4>1. written => f \in 1..Len(events)
        BY BatchType DEF OutboxTypeOK, Indices
      <4>2. written => First({f}) = f
        <5>1. written => {f} \in SUBSET (1..Len(events))
          BY <4>1
        <5>. QED BY <5>1, FirstIsLeast
      <4>. QED BY <3>2, <4>2 DEF LinkLost
    <3>. QED BY <1>7, <3>1, <3>2
  <2>. QED BY <1>0, <1>1, <2>1, <2>2, <2>3
<1>. QED BY <1>2, <1>3, <1>4, <1>5, <1>6, <1>7
-----------------------------------------------------------------------------
(***************************************************************************)
(* The order.                                                              *)
(***************************************************************************)
LEMMA StartFlushOrder ==
  ASSUME Len(events) \in Nat, OutboxTypeOK, NEW S \in SUBSET Indices, NEW H \in SUBSET S,
         SendingInOrder(S, H), StartFlush
  PROVE  SendingInOrder(S, H)'
<1>1. /\ UNCHANGED <<events, unsent, attempts, written, wire, queue, late, dropped>>
      /\ ~written /\ batch' = Oldest(BatchSize, Sendable)
  BY DEF StartFlush, OutboxTypeOK, lineVars, histories
<1>2. UntriedIsNext(S, H)'
  <2>1. ASSUME NEW i \in (S \cap unsent) \ DOMAIN attempts, i \notin batch', NEW j \in batch'
        PROVE  j < i
    <3>1. i \in Sendable
      BY <2>1, OutboxAssumption DEF Sendable, Attempts
    <3>2. Sendable \in SUBSET (1..Len(events))
      BY DEF Sendable, OutboxTypeOK, Indices
    <3>. QED BY <1>1, <2>1, <3>1, <3>2, OldestIsFirst, OutboxAssumption
  <2>. QED BY <1>1, <2>1 DEF SendingInOrder, UntriedIsNext, Started, Line
<1>. QED
  BY <1>1, <1>2
     DEF SendingInOrder, TriedIsSomewhere, WrittenIsSomewhere, SentIsSomewhere,
         LineInOrder, HandledInOrder, Somewhere, Started, Line, Overtaken

LEMMA SendOrder ==
  ASSUME Len(events) \in Nat, OutboxTypeOK, NEW S \in SUBSET Indices, NEW H \in SUBSET S,
         SendingInOrder(S, H), Send
  PROVE  SendingInOrder(S, H)'
<1> PICK f : f = First(batch)
  OBVIOUS
<1> PICK n : n = Len(Line)
  OBVIOUS
<1>1. /\ UNCHANGED <<events, unsent, attempts, batch, late, dropped, queue>>
      /\ wire' = Append(wire, f)
  BY DEF Send, histories
<1>2. /\ f \in batch /\ f \in unsent /\ f \in Indices /\ Indices \subseteq Nat
      /\ \A j \in batch : f <= j
  BY BatchType DEF Send
<1>3. /\ n \in Nat /\ Len(Line') = n + 1 /\ Line'[n + 1] = f
      /\ \A k \in 1..n : Line'[k] = Line[k] /\ Line[k] \in Nat
      /\ Held(Line') = Held(Line) \cup {f}
  <2>1. OutboxTypeOK'
    BY OutboxKeepsTypes DEF Send
  <2>2. /\ Len(wire') = Len(wire) + 1 /\ wire'[Len(wire) + 1] = f
        /\ \A k \in 1..Len(wire) : wire'[k] = wire[k]
    BY <1>1, <1>2 DEF OutboxTypeOK
  <2>3. Line \in Seq(Indices) /\ Line' = Append(Line, f)
    <3>1. queue \in Seq(Indices) /\ wire \in Seq(Indices)
      BY DEF OutboxTypeOK
    <3>2. Line' = queue \o Append(wire, f)
      BY <1>1 DEF Line
    <3>. QED BY <1>2, <3>1, <3>2 DEF Line
  <2>4. /\ n \in Nat /\ Len(Line') = n + 1 /\ Line'[n + 1] = f
        /\ \A k \in 1..n : Line'[k] = Line[k] /\ Line[k] \in Nat
    <3>1. PICK line : line = Line
      OBVIOUS
    <3>2. line \in Seq(Indices) /\ Line' = Append(line, f) /\ n = Len(line)
      BY <2>3, <3>1
    <3>3. \A k \in 1..Len(line) : line[k] \in Nat
      <4>1. \A k \in 1..Len(line) : line[k] \in Indices
        BY <3>2
      <4>. QED BY <1>2, <4>1
    <3>4. /\ Len(Line') = Len(line) + 1 /\ Line'[Len(line) + 1] = f
          /\ \A k \in 1..Len(line) : Line'[k] = line[k]
      BY <1>2, <3>2
    <3>. QED BY <3>1, <3>2, <3>3, <3>4
  <2>5. Held(Line') = Held(Line) \cup {f}
    <3>1. \A k : k \in 1..n + 1 <=> k \in 1..n \/ k = n + 1
      BY <2>4
    <3>2. Held(Line') = {Line'[k] : k \in 1..n + 1} /\ Held(Line) = {Line[k] : k \in 1..n}
      BY <2>4 DEF Held
    <3>. QED BY <2>4, <3>1, <3>2
  <2>. QED BY <2>4, <2>5
<1>4. UntriedIsNext(S, H)'
  <2>1. \A i \in (S \cap unsent) \ DOMAIN attempts : f <= i
    BY <1>2 DEF SendingInOrder, UntriedIsNext
  <2>. QED BY <1>1, <1>3, <2>1 DEF SendingInOrder, UntriedIsNext, Started
<1>5. LineInOrder(S, H)'
  <2> SUFFICES ASSUME NEW a \in 1..n + 1, NEW b \in 1..n + 1, a < b,
                      Line'[a] \in S, Line'[b] \in S, Line'[b] < Line'[a]
               PROVE  \/ Overtaken(Line'[b]) \/ Line'[b] \in H
                      \/ \E c \in 1..a - 1 : Line'[c] = Line'[b]
    BY <1>1, <1>3 DEF LineInOrder, Overtaken
  <2>1. a \in 1..n /\ Line'[a] = Line[a]
    BY <1>3
  <2>2. \A c \in 1..a - 1 : Line'[c] = Line[c]
    BY <1>3, <2>1
  <2>3. ASSUME NEW d \in 1..n, Line[d] = Line'[b]
        PROVE  \/ Overtaken(Line'[b]) \/ Line'[b] \in H
               \/ \E c \in 1..a - 1 : Line'[c] = Line'[b]
    <3>1. d # a
      BY <1>3, <2>1, <2>3
    <3>2. CASE d < a
      BY <2>2, <2>3, <3>2
    <3>3. CASE a < d
      BY <1>3, <2>1, <2>2, <2>3, <3>3 DEF SendingInOrder, LineInOrder
    <3>. QED BY <2>1, <3>1, <3>2, <3>3
  <2>4. CASE b \in 1..n
    BY <1>3, <2>3, <2>4
  <2>5. CASE b \notin 1..n
    <3>1. Line'[b] = f /\ f \in S
      BY <1>3, <2>5
    <3>2. f \in DOMAIN attempts
      <4>1. Line[a] \in S \cap Started(H) /\ Line[a] \in Nat /\ f < Line[a]
        BY <1>3, <2>1, <3>1 DEF Started, Held
      <4>. QED BY <1>2, <3>1, <4>1 DEF SendingInOrder, UntriedIsNext
    <3>3. f \in Held(Line) \/ f \in H \/ Overtaken(f)
      BY <3>1, <3>2 DEF SendingInOrder, TriedIsSomewhere, Somewhere, Started, Overtaken
    <3>4. CASE f \in Held(Line)
      <4>1. PICK d \in 1..n : Line[d] = f
        BY <3>4 DEF Held
      <4>. QED BY <2>3, <3>1, <4>1
    <3>. QED BY <3>1, <3>3, <3>4
  <2>. QED BY <2>4, <2>5
<1>6. TriedIsSomewhere(S, H)' /\ SentIsSomewhere(S, H)' /\ WrittenIsSomewhere(S, H)'
  BY <1>1, <1>3
     DEF SendingInOrder, TriedIsSomewhere, SentIsSomewhere, WrittenIsSomewhere, Somewhere,
         Started
<1>7. HandledInOrder(S, H)'
  BY <1>1, <1>2, <1>3 DEF SendingInOrder, HandledInOrder, Overtaken
<1>. QED BY <1>4, <1>5, <1>6, <1>7 DEF SendingInOrder

LEMMA MarkOrder ==
  ASSUME Len(events) \in Nat, OutboxTypeOK, NEW S \in SUBSET Indices, NEW H \in SUBSET S,
         SendingInOrder(S, H), MarkSent
  PROVE  SendingInOrder(S, H)'
<1>1. /\ UNCHANGED <<events, attempts, wire, queue, late, dropped>>
      /\ written /\ ~written'
      /\ unsent' = unsent \ {First(batch)} /\ batch' = batch \ {First(batch)}
  BY DEF MarkSent, lineVars, histories
<1>2. SentIsSomewhere(S, H)'
  BY <1>1 DEF SendingInOrder, SentIsSomewhere, WrittenIsSomewhere, Somewhere, Started, Line
<1>3. UntriedIsNext(S, H)'
  BY <1>1 DEF SendingInOrder, UntriedIsNext, Started, Line
<1>4. Line' = Line /\ Somewhere(H)' = Somewhere(H)
  BY <1>1 DEF Somewhere, Started, Line
<1>5. TriedIsSomewhere(S, H)' /\ WrittenIsSomewhere(S, H)'
  BY <1>1, <1>4 DEF SendingInOrder, TriedIsSomewhere, WrittenIsSomewhere
<1>6. LineInOrder(S, H)'
  BY <1>1, <1>4 DEF SendingInOrder, LineInOrder, Overtaken
<1>7. HandledInOrder(S, H)'
  BY <1>1, <1>4 DEF SendingInOrder, HandledInOrder, Overtaken
<1>. QED BY <1>2, <1>3, <1>5, <1>6, <1>7 DEF SendingInOrder

LEMMA FailOrder ==
  ASSUME Len(events) \in Nat, OutboxTypeOK, NEW S \in SUBSET Indices, NEW H \in SUBSET S,
         SendingInOrder(S, H), PublishFails \/ MarkFails
  PROVE  SendingInOrder(S, H)'
<1> PICK f : f = First(batch)
  OBVIOUS
<1>1. /\ UNCHANGED <<events, unsent, wire, queue, dropped>> /\ ~written'
      /\ Line' = Line
      /\ late \subseteq late' /\ DOMAIN attempts \subseteq DOMAIN attempts'
      /\ batch' \in {{}, batch \ {f}}
      /\ DOMAIN attempts' \ DOMAIN attempts \subseteq {f}
      /\ f \notin DOMAIN attempts' => batch' = {}
  BY DEF PublishFails, MarkFails, Fail, Abort, lineVars, histories, Line
<1>2. f \in DOMAIN attempts' \ DOMAIN attempts => f \in late' \/ (f \in S => f \in Somewhere(H))
  BY DEF PublishFails, MarkFails, Fail, Abort, SendingInOrder, WrittenIsSomewhere
<1>3. Somewhere(H)' = Somewhere(H) /\ Started(H)' = Started(H)
  BY <1>1 DEF Somewhere, Started
<1>4. \A i : Overtaken(i) => Overtaken(i)'
  BY <1>1 DEF Overtaken
<1>5. TriedIsSomewhere(S, H)'
  BY <1>1, <1>2, <1>3 DEF SendingInOrder, TriedIsSomewhere
<1>6. UntriedIsNext(S, H)'
  BY <1>1, <1>3 DEF SendingInOrder, UntriedIsNext
<1>7. WrittenIsSomewhere(S, H)' /\ SentIsSomewhere(S, H)'
  BY <1>1, <1>3 DEF SendingInOrder, WrittenIsSomewhere, SentIsSomewhere
<1>8. LineInOrder(S, H)'
  BY <1>1, <1>4 DEF SendingInOrder, LineInOrder
<1>9. HandledInOrder(S, H)'
  BY <1>1, <1>4 DEF SendingInOrder, HandledInOrder
<1>. QED BY <1>5, <1>6, <1>7, <1>8, <1>9 DEF SendingInOrder

LEMMA AcceptOrder ==
  ASSUME OutboxTypeOK, BrokerAccepts, NEW S, NEW H, SendingInOrder(S, H)
  PROVE  SendingInOrder(S, H)' /\ Line' = Line
<1>1. Line' = Line
  <2>1. queue \in Seq(Indices) /\ wire \in Seq(Indices) /\ wire # <<>>
    BY DEF OutboxTypeOK, BrokerAccepts
  <2>2. Line' = Append(queue, Head(wire)) \o Tail(wire)
    BY DEF BrokerAccepts, Line
  <2>3. wire = <<Head(wire)>> \o Tail(wire)
    BY <2>1
  <2>. QED BY <2>1, <2>2, <2>3 DEF Line
<1>2. UNCHANGED <<events, unsent, attempts, batch, written, late, dropped>>
  BY DEF BrokerAccepts, flushVars, histories
<1>3. Somewhere(H)' = Somewhere(H) /\ Started(H)' = Started(H)
  BY <1>1, <1>2 DEF Somewhere, Started
<1>. QED
  BY <1>1, <1>2, <1>3
     DEF SendingInOrder, TriedIsSomewhere, SentIsSomewhere, WrittenIsSomewhere,
         UntriedIsNext, LineInOrder, HandledInOrder, Overtaken

(* The socket buffer is lost, and with a crash the running flush. *)
LEMMA LossOrder ==
  ASSUME Len(events) \in Nat, OutboxTypeOK, NEW S \in SUBSET Indices, NEW H \in SUBSET S,
         SendingInOrder(S, H), LinkLost \/ MasterStops, UNCHANGED events
  PROVE  SendingInOrder(S, H)'
<1> PICK f : f = First(batch)
  OBVIOUS
<1>1. /\ UNCHANGED <<unsent, attempts, queue, late>>
      /\ wire' = <<>> /\ dropped' = dropped \cup Held(wire)
      /\ \/ batch' = batch /\ written' = written
         \/ written /\ batch' = {f} /\ written' = written
         \/ batch' = {} /\ ~written'
  BY DEF LinkLost, MasterStops, BufferLost
<1>2. batch # {} => f \in batch /\ f \in Indices /\ \A j \in batch : f <= j
  BY BatchType
<1>3. OutboxTypeOK' /\ Indices \subseteq Nat
  BY OutboxKeepsTypes DEF Indices
<1>4. /\ Len(Line') = Len(queue) /\ Len(queue) <= Len(Line) /\ Len(queue) \in Nat
      /\ Len(Line) \in Nat
      /\ \A k \in 1..Len(queue) : Line'[k] = Line[k]
      /\ Held(Line') = Held(queue) /\ Held(Line) = Held(queue) \cup Held(wire)
  <2>1. /\ Len(Line) = Len(queue) + Len(wire) /\ Len(queue) \in Nat /\ Len(wire) \in Nat
        /\ \A k \in 1..Len(queue) : Line[k] = queue[k]
        /\ Held(Line) = Held(queue) \cup Held(wire)
    BY LineType
  <2>2. queue \in Seq(Indices)
    BY DEF OutboxTypeOK
  <2>3. Line' = queue
    <3>1. Line' = queue \o <<>>
      BY <1>1 DEF Line
    <3>. QED BY <2>2, <3>1
  <2>. QED BY <2>1, <2>3
<1>5. Somewhere(H) \subseteq Somewhere(H)' /\ Started(H)' \subseteq Started(H)
  BY <1>1, <1>4 DEF Somewhere, Started
<1>6. \A i : Overtaken(i) => Overtaken(i)'
  BY <1>1 DEF Overtaken
<1>7. TriedIsSomewhere(S, H)' /\ SentIsSomewhere(S, H)'
  BY <1>1, <1>5 DEF SendingInOrder, TriedIsSomewhere, SentIsSomewhere
<1>8. WrittenIsSomewhere(S, H)'
  <2> SUFFICES ASSUME written', First(batch') \in S
               PROVE  First(batch') \in Somewhere(H)'
    BY DEF WrittenIsSomewhere
  <2>1. written /\ batch # {}
    BY <1>1 DEF OutboxTypeOK
  <2>2. First(batch') = f
    <3>1. CASE batch' = batch
      BY <3>1
    <3>2. CASE batch' = {f}
      <4>1. {f} \in SUBSET (1..Len(events))
        BY <1>2, <2>1 DEF Indices
      <4>. QED BY <3>2, <4>1, FirstIsLeast
    <3>. QED BY <1>1, <3>1, <3>2
  <2>. QED BY <1>5, <2>1, <2>2 DEF SendingInOrder, WrittenIsSomewhere
<1>9. UntriedIsNext(S, H)'
  <2> SUFFICES ASSUME NEW i \in (S \cap unsent) \ DOMAIN attempts
               PROVE  /\ \A j \in S \cap Started(H)' : j <= i
                      /\ i \notin batch' => \A j \in batch' : j < i
    BY <1>1 DEF UntriedIsNext
  <2>1. /\ \A j \in S \cap Started(H) : j <= i
        /\ i \notin batch => \A j \in batch : j < i
    BY DEF SendingInOrder, UntriedIsNext
  <2>2. i \in Nat
    BY <1>3
  <2>3. ASSUME i \notin batch', batch' = {f}, written
        PROVE  f < i
    <3>1. batch # {} /\ f \in Nat
      BY <1>2, <1>3, <2>3 DEF OutboxTypeOK
    <3>. QED BY <1>2, <2>1, <2>2, <2>3, <3>1
  <2>. QED BY <1>1, <1>5, <2>1, <2>3
<1>10. LineInOrder(S, H)'
  <2> SUFFICES ASSUME NEW a \in 1..Len(Line'), NEW b \in 1..Len(Line'), a < b,
                      Line'[a] \in S, Line'[b] \in S, Line'[b] < Line'[a],
                      NEW x, x = Line'[b]
               PROVE  Overtaken(x)' \/ x \in H \/ \E c \in 1..a - 1 : Line'[c] = x
    BY DEF LineInOrder, Overtaken
  <2>1. /\ a \in 1..Len(Line) /\ b \in 1..Len(Line)
        /\ Line'[a] = Line[a] /\ Line'[b] = Line[b]
    BY <1>4
  <2>2. \A c \in 1..a - 1 : Line'[c] = Line[c]
    BY <1>4
  <2>3. Overtaken(x) \/ x \in H \/ \E c \in 1..a - 1 : Line[c] = x
    BY <2>1 DEF SendingInOrder, LineInOrder
  <2>. QED BY <1>6, <2>2, <2>3
<1>11. HandledInOrder(S, H)'
  BY <1>1, <1>4, <1>6 DEF SendingInOrder, HandledInOrder
<1>. QED BY <1>7, <1>8, <1>9, <1>10, <1>11 DEF SendingInOrder

(* A step of something else. *)
LEMMA SameOrder ==
  ASSUME NEW S, NEW H, SendingInOrder(S, H), UNCHANGED outboxVars
  PROVE  SendingInOrder(S, H)'
<1>1. /\ unsent' = unsent /\ attempts' = attempts /\ batch' = batch /\ written' = written
      /\ late' = late /\ dropped' = dropped /\ Line' = Line
  BY DEF outboxVars, flushVars, lineVars, histories, Line
<1>2. Started(H)' = Started(H) /\ Somewhere(H)' = Somewhere(H)
  BY <1>1 DEF Started, Somewhere, Held
<1>3. TriedIsSomewhere(S, H)'
  BY <1>1, <1>2 DEF SendingInOrder, TriedIsSomewhere
<1>4. WrittenIsSomewhere(S, H)' /\ SentIsSomewhere(S, H)'
  BY <1>1, <1>2 DEF SendingInOrder, WrittenIsSomewhere, SentIsSomewhere
<1>5. UntriedIsNext(S, H)'
  BY <1>1, <1>2 DEF SendingInOrder, UntriedIsNext
<1>6. LineInOrder(S, H)'
  BY <1>1 DEF SendingInOrder, LineInOrder, Overtaken
<1>7. HandledInOrder(S, H)'
  <2>1. Held(Line)' = Held(Line)
    BY <1>1 DEF Held
  <2>. QED BY <1>1, <2>1 DEF SendingInOrder, HandledInOrder, Overtaken
<1>. QED BY <1>3, <1>4, <1>5, <1>6, <1>7 DEF SendingInOrder

(* Every step of the outbox and the broker, and a crash of the master. *)
LEMMA OutboxOrder ==
  ASSUME Len(events) \in Nat, OutboxTypeOK, NEW S \in SUBSET Indices, NEW H \in SUBSET S,
         SendingInOrder(S, H),
         \/ StartFlush \/ Send \/ MarkSent \/ PublishFails \/ MarkFails
         \/ BrokerAccepts \/ LinkLost \/ MasterStops, UNCHANGED events
  PROVE  SendingInOrder(S, H)'
  BY StartFlushOrder, SendOrder, MarkOrder, FailOrder, AcceptOrder, LossOrder

(* An event that comes behind the first of the line, and before it in the  *)
(* log, was overtaken.                                                     *)
LEMMA BehindHead ==
  ASSUME OutboxTypeOK, Len(events) \in Nat, NEW S \in SUBSET Indices, NEW H \in SUBSET S,
         SendingInOrder(S, H), queue # <<>>, Head(queue) \in S,
         NEW j \in S \cap (unsent \cup Held(Line)), j < Head(queue)
  PROVE  j \in H \/ Overtaken(j)
<1> PICK h : h = Head(queue)
  OBVIOUS
<1>1. 1 \in 1..Len(Line) /\ Line[1] = h /\ h \in Held(Line)
  <2>1. Len(queue) >= 1 /\ h = queue[1]
    BY DEF OutboxTypeOK
  <2>2. 1 \in 1..Len(Line) /\ Line[1] = h
    BY <2>1, LineType
  <2>. QED BY <2>2 DEF Held
<1>2. h \in Nat /\ j \in Nat /\ j # h
  BY LineType, <1>1 DEF Indices
<1>3. CASE j \in Held(Line)
  <2>1. PICK b \in 1..Len(Line) : Line[b] = j
    BY <1>3 DEF Held
  <2>2. 1 < b
    BY <1>1, <1>2, <2>1, LineType
  <2>3. \/ Overtaken(Line[b]) \/ Line[b] \in H \/ \E c \in 1..1 - 1 : Line[c] = Line[b]
    BY <1>1, <2>1, <2>2 DEF SendingInOrder, LineInOrder
  <2>. QED BY <2>1, <2>3
<1>4. CASE j \notin Held(Line)
  <2>1. j \in DOMAIN attempts
    <3>1. h \in S \cap Started(H)
      BY <1>1 DEF Started
    <3>. QED BY <1>2, <1>4, <3>1 DEF SendingInOrder, UntriedIsNext
  <2>. QED BY <1>4, <2>1 DEF SendingInOrder, TriedIsSomewhere, Somewhere, Started, Overtaken
<1>. QED BY <1>3, <1>4

(* The first of the line is handled. *)
LEMMA HeadHandled ==
  ASSUME OutboxTypeOK, Len(events) \in Nat, NEW S \in SUBSET Indices, NEW H \in SUBSET S,
         SendingInOrder(S, H), queue # <<>>, Head(queue) \in S
  PROVE  SendingInOrder(S, H \cup {Head(queue)})
<1> PICK h : h = Head(queue)
  OBVIOUS
<1> PICK G : G = H \cup {h}
  OBVIOUS
<1>1. h \in Held(Line)
  <2>1. Len(queue) >= 1 /\ h = queue[1]
    BY DEF OutboxTypeOK
  <2>2. 1 \in 1..Len(Line) /\ Line[1] = h
    BY <2>1, LineType
  <2>. QED BY <2>2 DEF Held
<1>2. Started(G) = Started(H) /\ Somewhere(G) = Somewhere(H)
  BY <1>1 DEF Started, Somewhere
<1>3. HandledInOrder(S, G)
  <2>1. \A j \in S \cap (unsent \cup Held(Line)) : j < h => j \in H \/ Overtaken(j)
    BY BehindHead
  <2>. QED BY <2>1 DEF SendingInOrder, HandledInOrder
<1>4. LineInOrder(S, G)
  BY DEF SendingInOrder, LineInOrder
<1>5. TriedIsSomewhere(S, G) /\ WrittenIsSomewhere(S, G) /\ SentIsSomewhere(S, G)
  BY <1>2 DEF SendingInOrder, TriedIsSomewhere, WrittenIsSomewhere, SentIsSomewhere
<1>6. UntriedIsNext(S, G)
  BY <1>2 DEF SendingInOrder, UntriedIsNext
<1>. QED BY <1>3, <1>4, <1>5, <1>6 DEF SendingInOrder

(* It is acknowledged. *)
LEMMA AckOrder ==
  ASSUME OutboxTypeOK, Len(events) \in Nat, NEW S \in SUBSET Indices, NEW H \in SUBSET S,
         SendingInOrder(S, H), queue # <<>>, Head(queue) \in S => Head(queue) \in H,
         queue' = Tail(queue),
         UNCHANGED <<events, unsent, attempts, batch, written, wire, late, dropped>>
  PROVE  SendingInOrder(S, H)' /\ OutboxTypeOK' /\ Held(Line)' \subseteq Held(Line)
<1> PICK h : h = Head(queue)
  OBVIOUS
<1> PICK n : n = Len(Line)
  OBVIOUS
<1>1. Line \in Seq(Indices) /\ Line' = Tail(Line) /\ Line # <<>> /\ Line[1] = h
  <2>1. queue \in Seq(Indices) /\ wire \in Seq(Indices)
    BY DEF OutboxTypeOK
  <2>2. Line' = Tail(queue) \o wire
    BY DEF Line
  <2>. QED BY <2>1, <2>2 DEF Line
<1>2. /\ n \in Nat /\ Len(Line') = n - 1
      /\ \A k \in 1..n - 1 : Line'[k] = Line[k + 1]
      /\ Held(Line) \subseteq Held(Line') \cup {h} /\ Held(Line') \subseteq Held(Line)
  <2>1. PICK line : line = Line
    OBVIOUS
  <2>2. line \in Seq(Indices) /\ Line' = Tail(line) /\ n = Len(line) /\ line # <<>> /\ line[1] = h
    BY <1>1, <2>1
  <2>3. n \in Nat /\ n >= 1 /\ Len(Line') = n - 1 /\ \A k \in 1..n - 1 : Line'[k] = line[k + 1]
    BY <2>2
  <2>4. \A k \in 1..n - 1 : k + 1 \in 1..n
    BY <2>3
  <2>5. \A k \in 1..n : k = 1 \/ (k - 1 \in 1..n - 1 /\ (k - 1) + 1 = k)
    BY <2>3
  <2>6. ASSUME NEW k \in 1..n
        PROVE  line[k] \in Held(Line') \cup {h}
    <3>1. CASE k = 1
      BY <2>2, <3>1
    <3>2. CASE k # 1
      <4>1. k - 1 \in 1..n - 1 /\ Line'[k - 1] = line[k]
        BY <2>3, <2>5, <3>2
      <4>2. k - 1 \in 1..Len(Line')
        BY <2>3, <4>1
      <4>. QED BY <4>1, <4>2 DEF Held
    <3>. QED BY <3>1, <3>2
  <2>7. \A k \in 1..n - 1 : Line'[k] \in Held(Line)
    BY <2>1, <2>2, <2>3, <2>4 DEF Held
  <2>8. Held(Line) \subseteq Held(Line') \cup {h}
    BY <2>1, <2>2, <2>6 DEF Held
  <2>9. Held(Line') \subseteq Held(Line)
    BY <2>3, <2>7 DEF Held
  <2>. QED BY <2>1, <2>3, <2>8, <2>9
<1>3. Started(H)' \subseteq Started(H) /\ S \cap Somewhere(H) \subseteq Somewhere(H)'
  BY <1>2 DEF Started, Somewhere
<1>4. TriedIsSomewhere(S, H)' /\ WrittenIsSomewhere(S, H)' /\ SentIsSomewhere(S, H)'
  BY <1>3 DEF SendingInOrder, TriedIsSomewhere, WrittenIsSomewhere, SentIsSomewhere
<1>5. UntriedIsNext(S, H)'
  BY <1>3 DEF SendingInOrder, UntriedIsNext
<1>6. LineInOrder(S, H)'
  <2> SUFFICES ASSUME NEW a \in 1..Len(Line'), NEW b \in 1..Len(Line'), a < b,
                      Line'[a] \in S, Line'[b] \in S, Line'[b] < Line'[a],
                      NEW x, x = Line'[b]
               PROVE  Overtaken(x)' \/ x \in H \/ \E c \in 1..a - 1 : Line'[c] = x
    BY DEF LineInOrder, Overtaken
  <2>1. /\ a + 1 \in 1..n /\ b + 1 \in 1..n /\ a + 1 < b + 1
        /\ Line'[a] = Line[a + 1] /\ Line'[b] = Line[b + 1]
    BY <1>2
  <2>2. Overtaken(x) \/ x \in H \/ \E c \in 1..(a + 1) - 1 : Line[c] = x
    BY <2>1 DEF SendingInOrder, LineInOrder
  <2>3. ASSUME NEW c \in 1..(a + 1) - 1, Line[c] = x
        PROVE  x \in H \/ \E d \in 1..a - 1 : Line'[d] = x
    <3>1. CASE c = 1
      BY <1>1, <2>3, <3>1
    <3>2. CASE c # 1
      <4>1. c - 1 \in 1..a - 1 /\ c - 1 \in 1..n - 1 /\ (c - 1) + 1 = c
        BY <1>2, <2>1, <3>2
      <4>2. Line'[c - 1] = x
        BY <1>2, <2>3, <4>1
      <4>. QED BY <4>1, <4>2
    <3>. QED BY <3>1, <3>2
  <2>4. Overtaken(x)' = Overtaken(x)
    BY DEF Overtaken
  <2>. QED BY <2>2, <2>3, <2>4
<1>7. HandledInOrder(S, H)'
  BY <1>2 DEF SendingInOrder, HandledInOrder, Overtaken
<1>8. OutboxTypeOK'
  BY DEF OutboxTypeOK, Indices, Sendable, Attempts
<1>. QED BY <1>2, <1>4, <1>5, <1>6, <1>7, <1>8 DEF SendingInOrder

(* The events of a transaction go to the end of the log. *)
LEMMA AnnouncedOrder ==
  ASSUME OutboxTypeOK, Len(events) \in Nat, Len(events') \in Nat,
         Len(events) <= Len(events'),
         NEW S \in SUBSET Indices, NEW H \in SUBSET S, SendingInOrder(S, H),
         NEW T \in SUBSET Indices', T \cap Indices = S,
         \/ Pending
         \/ S = T /\ UNCHANGED unsent,
         UNCHANGED <<attempts, batch, written, lineVars, histories>>
  PROVE  SendingInOrder(T, H)'
<1> USE DEF lineVars, histories
<1>1. /\ \A i \in Indices : i \in Nat /\ i <= Len(events)
      /\ \A i \in T : i \in Indices \/ (i \in Nat /\ i > Len(events))
  BY DEF Indices
<1>2. Line' = Line /\ Held(Line) \subseteq Indices /\ Line \in Seq(Indices)
  BY LineType DEF Line
<1>3. /\ batch \subseteq Indices /\ DOMAIN attempts \subseteq Indices
      /\ batch # {} => First(batch) \in Indices
  BY BatchType DEF OutboxTypeOK
<1>4. Started(H)' = Started(H) /\ Somewhere(H)' = Somewhere(H) /\ Started(H) \subseteq Indices
  BY <1>2 DEF Started, Somewhere
<1>5. \A i \in T \cap unsent' : i \in S \cap unsent \/ i > Len(events)
  BY <1>1 DEF Pending, OutboxTypeOK, Indices
<1>6. TriedIsSomewhere(T, H)'
  BY <1>3, <1>4 DEF SendingInOrder, TriedIsSomewhere
<1>7. WrittenIsSomewhere(T, H)'
  BY <1>3, <1>4 DEF SendingInOrder, WrittenIsSomewhere, OutboxTypeOK
<1>8. SentIsSomewhere(T, H)'
  <2>1. \A i \in T : i \in S \/ i \in unsent'
    BY <1>1 DEF Pending, Indices
  <2>2. unsent \subseteq unsent'
    BY DEF Pending
  <2>. QED BY <1>4, <2>1, <2>2 DEF SendingInOrder, SentIsSomewhere
<1>9. UntriedIsNext(T, H)'
  <2> SUFFICES ASSUME NEW i \in (T \cap unsent') \ DOMAIN attempts
               PROVE  /\ \A j \in T \cap Started(H) : j <= i
                      /\ i \notin batch => \A j \in batch : j < i
    BY <1>4 DEF UntriedIsNext
  <2>1. CASE i \in S \cap unsent
    BY <1>4, <2>1 DEF SendingInOrder, UntriedIsNext
  <2>2. CASE i \notin S \cap unsent
    <3>1. i > Len(events) /\ i \in Nat
      BY <1>1, <1>5, <2>2
    <3>. QED BY <1>1, <1>3, <1>4, <3>1
  <2>. QED BY <2>1, <2>2
<1>10. LineInOrder(T, H)'
  <2>1. \A k \in 1..Len(Line) : Line[k] \in T => Line[k] \in S
    BY <1>2
  <2>. QED BY <1>2, <2>1 DEF SendingInOrder, LineInOrder, Overtaken
<1>11. HandledInOrder(T, H)'
  <2> SUFFICES ASSUME NEW i \in H, NEW j \in T \cap (unsent' \cup Held(Line)), j < i
               PROVE  j \in H \/ Overtaken(j)
    BY <1>2 DEF HandledInOrder, Overtaken
  <2>1. j \in S \cap (unsent \cup Held(Line))
    BY <1>1, <1>2, <1>5
  <2>. QED BY <2>1 DEF SendingInOrder, HandledInOrder
<1>. QED BY <1>6, <1>7, <1>8, <1>9, <1>10, <1>11 DEF SendingInOrder
=============================================================================
