--------------------------- MODULE OutboxConnection ---------------------------
(***************************************************************************)
(* The RabbitMQ connection of one process (OutboxService): the dial of     *)
(* connect() with its awaits, the retry loops of connectWithRetry, the     *)
(* close handler, the dial that flush() starts when rows wait and no       *)
(* channel is set, and onModuleDestroy.  A conn is one call of             *)
(* amqp.connect with the connection it may return; finished ones are used  *)
(* again.  amqplib is external: it closes connections when it likes, and   *)
(* runs the close handler at once.                                         *)
(***************************************************************************)
EXTENDS Naturals, FiniteSets

CONSTANTS
  Conns,       \* identities of connections
  None,        \* this.channel when it is null
  MaxFaults,   \* bound: refusals, timeouts, losses and refused declarations
  MaxFlushes   \* bound: the dials that flush() starts

ConnectionAssumption ==
  /\ None \notin Conns
  /\ MaxFaults \in Nat /\ MaxFlushes \in Nat
  /\ IsFiniteSet(Conns)
  /\ Cardinality(Conns) > MaxFaults + MaxFlushes + 1

VARIABLES
  hasNodes,    \* whether the EdgeNode table names queues to declare (fixed)
  step,        \* where the connect() call of each connection is
  up,          \* the connections that are open
  live,        \* the connection of this.channel, None when it is null
  connecting,  \* this.connecting
  sleeping,    \* how many retry loops are waiting for their delay
  destroyed,   \* this.destroyed
  faults,      \* how many faults there were
  flushes,     \* history: how many dials flush() started
  broken       \* history: how many dials ended after the channel was opened

vars == <<step, up, live, connecting, sleeping, destroyed, faults, flushes, broken>>

\* The awaits of connect(); "late" is a handshake given up by the timeout and
\* "done" a connection that has its handlers and no connect() call any more.
Awaits == {"open", "channel", "declare", "list", "bind"}
Steps  == Awaits \cup {"free", "late", "done"}
Dialing(c) == step[c] \in Awaits

TypeOK ==
  /\ hasNodes \in BOOLEAN
  /\ step \in [Conns -> Steps]
  /\ up \subseteq Conns
  /\ live \in Conns \cup {None}
  /\ connecting \in BOOLEAN /\ destroyed \in BOOLEAN
  /\ sleeping \in Nat /\ faults \in Nat /\ flushes \in Nat /\ broken \in Nat
  /\ live # None => step[live] = "done"
  /\ \A c \in up : step[c] \in Steps \ {"free", "late", "open"}

(* onModuleInit starts the first dial and does not wait for it. *)
Init ==
  /\ hasNodes \in BOOLEAN
  /\ \E c \in Conns : step = [d \in Conns |-> IF d = c THEN "open" ELSE "free"]
  /\ up = {} /\ live = None
  /\ connecting = TRUE /\ destroyed = FALSE
  /\ sleeping = 0 /\ faults = 0 /\ flushes = 0 /\ broken = 0
-----------------------------------------------------------------------------
\* wrong CanDial, for mutation: the connecting flag is not looked at
CanDialAgain == ~destroyed
\* wrong CanDial, for mutation: a destroyed service dials
CanDialDestroyed == ~connecting

(* The early return of connectWithRetry. *)
CanDial == ~destroyed /\ ~connecting

(* What is left of the connections when those in gone are closed and those  *)
(* in opened are dialled; one nobody refers to any more is free again.      *)
Moved(gone, opened) ==
  [d \in Conns |-> IF d \in opened THEN "open"
                   ELSE IF d \in gone THEN "free" ELSE step[d]]

\* The channel's connection when it has closed and the channel is cleared.
DeadLive == {live} \ (up \cup {None})

Fault == faults < MaxFaults /\ faults' = faults + 1

\* wrong LoopsAfterFailure, for mutation: a failed dial is not tried again
NoLoopAfterFailure == sleeping
LoopsAfterFailure == IF destroyed THEN sleeping ELSE sleeping + 1

(* connect() throws: connectWithRetry waits and will call itself again. *)
Fail == connecting' = FALSE /\ sleeping' = LoopsAfterFailure

-----------------------------------------------------------------------------
Handshake(c) ==
  /\ step[c] = "open"
  /\ step' = [step EXCEPT ![c] = "channel"]
  /\ up' = up \cup {c}
  /\ UNCHANGED <<live, connecting, sleeping, destroyed, faults, flushes, broken>>

Refused(c) ==
  /\ step[c] = "open" /\ Fault
  /\ step' = [step EXCEPT ![c] = "free"]
  /\ Fail
  /\ UNCHANGED <<up, live, destroyed, flushes, broken>>

(* The handshake outlasts connectTimeoutMs and is left pending. *)
Timeout(c) ==
  /\ step[c] = "open" /\ Fault
  /\ step' = [step EXCEPT ![c] = "late"]
  /\ Fail
  /\ UNCHANGED <<up, live, destroyed, flushes, broken>>

\* wrong LateEnds, for mutation: a connection that comes too late stays open
LateLeaks(c) ==
  /\ step[c] = "late"
  /\ step' = [step EXCEPT ![c] = "done"]
  /\ up' = up \cup {c}
  /\ UNCHANGED <<live, connecting, sleeping, destroyed, faults, flushes, broken>>

(* A connection that comes after the timeout is closed, without a handler. *)
LateEnds(c) ==
  /\ step[c] = "late"
  /\ step' = [step EXCEPT ![c] = "free"]
  /\ UNCHANGED <<up, live, connecting, sleeping, destroyed, faults, flushes, broken>>

\* wrong ChannelOpened, for mutation: the channel is published at once
ChannelOpenedEarly(c) ==
  /\ step[c] = "channel"
  /\ step' = [step EXCEPT ![c] = "declare"]
  /\ live' = c
  /\ UNCHANGED <<up, connecting, sleeping, destroyed, faults, flushes, broken>>

(* createChannel returns and the handlers are registered. *)
ChannelOpened(c) ==
  /\ step[c] = "channel"
  /\ step' = [step EXCEPT ![c] = "declare"]
  /\ UNCHANGED <<up, live, connecting, sleeping, destroyed, faults, flushes, broken>>

(* The two queues, the exchange and its bindings are declared. *)
Declared(c) ==
  /\ step[c] = "declare"
  /\ step' = [step EXCEPT ![c] = "list"]
  /\ UNCHANGED <<up, live, connecting, sleeping, destroyed, faults, flushes, broken>>

(* The broker refuses a declaration: connect() throws and nobody closes     *)
(* the connection, whose close handler stays.                               *)
DeclarationRefused(c) ==
  /\ step[c] \in {"declare", "bind"} /\ Fault
  /\ step' = [step EXCEPT ![c] = "done"]
  /\ broken' = broken + 1
  /\ Fail
  /\ UNCHANGED <<up, live, destroyed, flushes>>

(* connect() ends: the connection and its channel replace whatever was there. *)
Publish(c) ==
  /\ step' = [Moved(DeadLive, {}) EXCEPT ![c] = "done"]
  /\ live' = c
  /\ connecting' = FALSE
  /\ UNCHANGED <<up, sleeping, destroyed, faults, flushes, broken>>

(* listNodeQueues answers: no node, and connect() ends without another use  *)
(* of the channel.                                                          *)
ListedNone(c) == step[c] = "list" /\ ~hasNodes /\ Publish(c)

(* The nodes' queues are declared, which a lost connection refuses. *)
Listed(c) ==
  /\ step[c] = "list" /\ hasNodes
  /\ IF c \in up
     THEN /\ step' = [step EXCEPT ![c] = "bind"]
          /\ UNCHANGED <<connecting, sleeping>>
     ELSE /\ step' = [step EXCEPT ![c] = "free"]
          /\ Fail
  /\ UNCHANGED <<up, live, destroyed, faults, flushes, broken>>

Bound(c) == step[c] = "bind" /\ Publish(c)

(* A retry loop's delay ends: it dials, or ends because someone else does.  *)
Wake(c) ==
  /\ sleeping > 0
  /\ sleeping' = sleeping - 1
  /\ IF CanDial THEN /\ step[c] = "free"
                     /\ step' = Moved({}, {c})
                     /\ connecting' = TRUE
                ELSE UNCHANGED <<step, connecting>>
  /\ UNCHANGED <<up, live, destroyed, faults, flushes, broken>>

(* flush() has rows to send and no channel. *)
FlushDials(c) ==
  /\ live = None /\ CanDial /\ flushes < MaxFlushes
  /\ step[c] = "free"
  /\ step' = Moved({}, {c})
  /\ connecting' = TRUE
  /\ flushes' = flushes + 1
  /\ UNCHANGED <<up, live, sleeping, destroyed, faults, broken>>

(* The connection is lost before its handlers are there: connect() throws. *)
LoseEarly(c) ==
  /\ c \in up /\ step[c] = "channel" /\ Fault
  /\ up' = up \ {c}
  /\ step' = Moved({c}, {})
  /\ Fail
  /\ UNCHANGED <<live, destroyed, flushes, broken>>

\* wrong ClearedBy, for mutation: the close handler does not clear the channel
ClearsNothing(c) == live
(* clearConnection takes whatever channel there is, not the one of c. *)
ClearedBy(c) == None

(* The close handler clears the channel and dials unless somebody does.  A  *)
(* declaration that was under way throws after it; the list of the nodes,   *)
(* a database call, goes on and finds out later or never.                   *)
Lose(c, d) ==
  LET failing == step[c] \in {"declare", "bind"}
      redial  == CanDial
  IN  /\ c \in up /\ step[c] # "channel" /\ Fault
      /\ up' = up \ {c}
      /\ live' = ClearedBy(c)
      /\ redial => step[d] = "free"
      /\ step' = Moved((IF step[c] = "list" \/ live' = c THEN {} ELSE {c}) \cup DeadLive,
                       IF redial THEN {d} ELSE {})
      /\ connecting' = (~failing /\ (connecting \/ redial))
      /\ sleeping' = IF failing THEN LoopsAfterFailure ELSE sleeping
      /\ UNCHANGED <<destroyed, flushes, broken>>

(* onModuleDestroy closes the channel's connection; its handler clears it. *)
Destroy ==
  /\ ~destroyed
  /\ destroyed' = TRUE
  /\ up' = up \ {live}
  /\ live' = None
  /\ step' = Moved({live}, {})
  /\ UNCHANGED <<connecting, sleeping, faults, flushes, broken>>

DialStep(c) ==
  \/ Handshake(c) \/ ChannelOpened(c) \/ Declared(c)
  \/ ListedNone(c) \/ Listed(c) \/ Bound(c)

Step ==
  \/ \E c \in Conns :
       \/ DialStep(c) \/ Refused(c) \/ Timeout(c) \/ LateEnds(c)
       \/ DeclarationRefused(c) \/ Wake(c) \/ FlushDials(c) \/ LoseEarly(c)
       \/ \E d \in Conns : Lose(c, d)
  \/ Destroy

Next == Step /\ UNCHANGED hasNodes

(* The broker answers what it does not refuse, the database answers, and    *)
(* timers fire.  Nothing is assumed of flush(), of losses or of refusals.   *)
Fairness ==
  /\ \A c \in Conns : WF_vars(DialStep(c))
  /\ WF_vars(\E c \in Conns : Wake(c))

Spec == Init /\ [][Next]_<<vars, hasNodes>> /\ Fairness
-----------------------------------------------------------------------------
(* The connecting flag is a lock: at most one connect() runs, whatever      *)
(* loops, close events and flushes ask for one.                             *)
OneDial ==
  /\ connecting = \E c \in Conns : Dialing(c)
  /\ \A c, d \in Conns : Dialing(c) /\ Dialing(d) => c = d

(* Somebody always looks after a missing channel: a dial or a loop that     *)
(* waits, so that a dial of flush() is never the only one and always adds a *)
(* second loop.                                                             *)
AlwaysTended == destroyed \/ live # None \/ connecting \/ sleeping > 0

(* Where the nodes' queues are declared after the list is read, the channel *)
(* that flush() uses is never one whose connection is closed already.       *)
LiveIsUp == hasNodes /\ live # None => live \in up

(* Connections and loops do not multiply by themselves: each one beyond the *)
(* first goes back to a dial of flush() beside a waiting loop, or to a      *)
(* declaration the broker refused.                                          *)
Extras == flushes + broken
LoopsAreAccounted ==
  Cardinality(up \cup {c \in Conns : Dialing(c)}) + sleeping <= 1 + Extras

(* The lock, the tending and the accounting together. *)
ConnectionInv ==
  TypeOK /\ OneDial /\ AlwaysTended /\ LiveIsUp /\ LoopsAreAccounted

(* Without such an extra loop an open channel is never replaced or cleared  *)
(* by another connection's dial or close event.                             *)
LiveIsKept ==
  [][live' # live /\ live \in up /\ Extras = 0
       => destroyed' \/ live \notin up']_vars

(* No retry loop, close event or flush dials for a destroyed service. *)
NoDialAfterDestroy ==
  [][destroyed => \A c \in Conns : step'[c] = "open" => step[c] = "open"]_vars

(* "RabbitMQ connection closed - will retry": once the faults are over the  *)
(* process has an open channel for good.  A process without node queues may *)
(* publish a channel whose connection closed while connect() waited for the *)
(* list, and keep it (DeadIsReplaced).                                      *)
Reconnects == <>[](destroyed \/ live \in up \/ (~hasNodes /\ live # None))
(* The same of every process.                                               *)
DeadIsReplaced == <>[](destroyed \/ live \in up)
=============================================================================
