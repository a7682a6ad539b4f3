------------------------------ MODULE NodeVerify ------------------------------
(***************************************************************************)
(* The master's record of its edge nodes (NodesService): create, update,   *)
(* remove, and verify, the button of the panel that asks the health page   *)
(* of the node's address and writes the node's status.  verify reads the   *)
(* row, asks one address after the other, and writes by id; the row may be *)
(* changed, removed or verified by another request meanwhile.  What        *)
(* answers at an address is outside the master's control.                  *)
(***************************************************************************)
EXTENDS Naturals, Sequences

CONSTANTS
  Nodes,       \* node ids
  Hosts,       \* the addresses a node may have
  LocalHosts,  \* those of them that mean the master's own machine
  Gateway,     \* host.docker.internal, tried after a local address
  NoNode,      \* no id in the health answer; no node of a call
  Calls,       \* the verify requests that may run at the same time
  HttpMode,    \* the master's syncMode is "http"
  MaxMoves,    \* bound: how often what answers at an address changes
  MaxEdits,    \* bound: updates and removals
  MaxDbErrors  \* bound: writes the database refuses

ASSUME VerifyAssumption ==
  /\ LocalHosts \subseteq Hosts
  /\ NoNode \notin Nodes
  /\ HttpMode \in BOOLEAN
  /\ MaxMoves \in Nat /\ MaxEdits \in Nat /\ MaxDbErrors \in Nat

VARIABLES
  node,      \* the EdgeNode rows
  health,    \* what answers at each address
  call,      \* the running verify requests
  verdict,   \* history: the answer behind each row's status
  moves, edits, dbErrors

bounds == <<moves, edits, dbErrors>>
vars   == <<node, health, call, verdict, bounds>>

Status == {"PENDING", "ONLINE", "OFFLINE", "ERROR"}
Row    == [listed : {"no", "yes", "gone"}, host : Hosts, status : Status, rabbit : Status]
(* A health answer: role, nodeId, and what it says of its queue.           *)
Health == [role : {"MASTER", "EDGE"}, id : Nodes \cup {NoNode},
           rmq : {"missing", "other", "down", "up"}]
Silent == [role |-> "none", id |-> NoNode, rmq |-> "missing"]
Addresses == Hosts \cup {Gateway}
NoCall == [at |-> "idle", id |-> NoNode, urls |-> <<>>, got |-> Silent,
           heard |-> FALSE]
Call   == [at : {"idle", "probe", "write", "offline"}, id : Nodes \cup {NoNode},
           urls : Seq(Addresses), got : Health \cup {Silent}, heard : BOOLEAN]

TypeOK ==
  /\ node \in [Nodes -> Row]
  /\ health \in [Addresses -> Health \cup {Silent}]
  /\ call \in [Calls -> Call]
  /\ verdict \in [Nodes -> [got : Health \cup {Silent}, heard : BOOLEAN]]
  /\ moves \in 0..MaxMoves /\ edits \in 0..MaxEdits
  /\ dbErrors \in 0..MaxDbErrors

NoVerdict == [got |-> Silent, heard |-> FALSE]

Init ==
  /\ node \in [Nodes -> {[listed |-> "no", host |-> h, status |-> "PENDING",
                          rabbit |-> "PENDING"] : h \in Hosts}]
  /\ health = [a \in Addresses |-> Silent]
  /\ call = [c \in Calls |-> NoCall]
  /\ verdict = [n \in Nodes |-> NoVerdict]
  /\ moves = 0 /\ edits = 0 /\ dbErrors = 0

At(c, step) == call[c].at = step
Listed(n)   == node[n].listed = "yes"
-----------------------------------------------------------------------------
(* healthUrls of the row as verify reads it. *)
Urls(n) ==
  IF node[n].host \in LocalHosts THEN <<node[n].host, Gateway>>
                                 ELSE <<node[n].host>>

Begin(c, n) ==
  /\ At(c, "idle") /\ Listed(n)
  /\ call' = [call EXCEPT ![c] = [NoCall EXCEPT !.at = "probe", !.id = n,
                                                !.urls = Urls(n)]]
  /\ UNCHANGED <<node, health, verdict, bounds>>

\* wrong version of Accepts, for the mutation runs: nodeId is not compared
AcceptsAnyId(a, n) == a.role = "EDGE"
(* The checks of role and nodeId; an answer may leave its id out. *)
Accepts(a, n) == a.role = "EDGE" /\ a.id \in {n, NoNode}

(* The next address, until one answers as it should. *)
Asked(c, ok, answer) ==
  LET rest == Tail(call[c].urls)
  IN  [call[c] EXCEPT !.at = IF ok THEN "write"
                             ELSE IF rest = <<>> THEN "offline" ELSE "probe",
                      !.urls = rest,
                      !.got = IF ok THEN answer ELSE @,
                      !.heard = @ \/ ok]

Probe(c) ==
  LET a == health[Head(call[c].urls)]
  IN  /\ At(c, "probe")
      /\ call' = [call EXCEPT ![c] = Asked(c, Accepts(a, call[c].id), a)]
      /\ UNCHANGED <<node, health, verdict, bounds>>

\* wrong version of Judged, for the mutation runs: the queue's name is not read
JudgedUnnamed(rmq) ==
  IF HttpMode \/ rmq \in {"other", "up"} THEN [status |-> "ONLINE", rabbit |-> "ONLINE"]
  ELSE IF rmq = "down" THEN [status |-> "ONLINE", rabbit |-> "OFFLINE"]
  ELSE [status |-> "ERROR", rabbit |-> "OFFLINE"]
\* wrong version of Judged, for the mutation runs: the queue's state is stored
\* as the node reported it
JudgedRaw(rmq) == [status |-> "ONLINE", rabbit |-> rmq]
(* What an accepted answer makes of the row. *)
Judged(rmq) ==
  CASE HttpMode        -> [status |-> "ONLINE", rabbit |-> "ONLINE"]
    [] rmq = "missing" -> [status |-> "ERROR",  rabbit |-> "OFFLINE"]
    [] rmq = "other"   -> [status |-> "ERROR",  rabbit |-> "ERROR"]
    [] rmq = "down"    -> [status |-> "ONLINE", rabbit |-> "OFFLINE"]
    [] rmq = "up"      -> [status |-> "ONLINE", rabbit |-> "ONLINE"]

SetStatus(c, j) ==
  LET n == call[c].id
  IN  /\ node' = [node EXCEPT ![n] = [@ EXCEPT !.status = j.status,
                                               !.rabbit = j.rabbit]]
      /\ verdict' = [verdict EXCEPT ![n] = [got |-> call[c].got,
                                            heard |-> call[c].heard]]

\* wrong version of AfterWrite, for the mutation runs: the exception that
\* reports an ERROR is taken for a failed address
AfterWriteCaught(c) ==
  IF Judged(call[c].got.rmq).status = "ERROR"
    THEN [call[c] EXCEPT !.at = "offline", !.got = Silent] ELSE NoCall
AfterWrite(c) == NoCall

Write(c) ==
  /\ At(c, "write") /\ Listed(call[c].id)
  /\ SetStatus(c, Judged(call[c].got.rmq))
  /\ call' = [call EXCEPT ![c] = AfterWrite(c)]
  /\ UNCHANGED <<health, bounds>>

(* The row is gone or the database fails: the exception is caught with     *)
(* those of the address, and the next address is asked.                    *)
WriteFails(c) ==
  LET gone == ~Listed(call[c].id)
  IN  /\ At(c, "write")
      /\ gone \/ dbErrors < MaxDbErrors
      /\ dbErrors' = IF gone THEN dbErrors ELSE dbErrors + 1
      /\ call' = [call EXCEPT
                    ![c].at = IF call[c].urls = <<>> THEN "offline" ELSE "probe",
                    ![c].got = Silent]
      /\ UNCHANGED <<node, health, verdict, moves, edits>>

(* No address is left. *)
WriteOffline(c) ==
  /\ At(c, "offline") /\ Listed(call[c].id)
  /\ SetStatus(c, [status |-> "OFFLINE", rabbit |-> "OFFLINE"])
  /\ call' = [call EXCEPT ![c] = NoCall]
  /\ UNCHANGED <<health, bounds>>

(* The row is gone or the database fails: the request fails. *)
OfflineFails(c) ==
  LET gone == ~Listed(call[c].id)
  IN  /\ At(c, "offline")
      /\ gone \/ dbErrors < MaxDbErrors
      /\ dbErrors' = IF gone THEN dbErrors ELSE dbErrors + 1
      /\ call' = [call EXCEPT ![c] = NoCall]
      /\ UNCHANGED <<node, health, verdict, moves, edits>>
-----------------------------------------------------------------------------
Create(n) ==
  /\ node[n].listed = "no"
  /\ node' = [node EXCEPT ![n].listed = "yes"]
  /\ UNCHANGED <<health, call, verdict, bounds>>

(* update: the address, not the status. *)
Update(n, h) ==
  /\ Listed(n) /\ edits < MaxEdits /\ h # node[n].host
  /\ node' = [node EXCEPT ![n].host = h]
  /\ edits' = edits + 1
  /\ UNCHANGED <<health, call, verdict, moves, dbErrors>>

Remove(n) ==
  /\ Listed(n) /\ edits < MaxEdits
  /\ node' = [node EXCEPT ![n].listed = "gone"]
  /\ edits' = edits + 1
  /\ UNCHANGED <<health, call, verdict, moves, dbErrors>>

(* A machine is installed, moved, or goes away; its queue comes and goes.  *)
Move(a, x) ==
  /\ moves < MaxMoves /\ x # health[a]
  /\ health' = [health EXCEPT ![a] = x]
  /\ moves' = moves + 1
  /\ UNCHANGED <<node, call, verdict, edits, dbErrors>>
-----------------------------------------------------------------------------
Next ==
  \/ \E c \in Calls :
       \/ \E n \in Nodes : Begin(c, n)
       \/ Probe(c) \/ Write(c) \/ WriteFails(c) \/ WriteOffline(c) \/ OfflineFails(c)
  \/ \E n \in Nodes : Create(n) \/ Remove(n) \/ \E h \in Hosts : Update(n, h)
  \/ \E a \in Addresses, x \in Health \cup {Silent} : Move(a, x)

Spec == Init /\ [][Next]_vars
-----------------------------------------------------------------------------
(* README.md:52: verification marks a node ONLINE.  A node is ONLINE only  *)
(* when an edge that has its id, or none, answered the verification that   *)
(* said so, and its queue is ONLINE only when that edge said it was; the   *)
(* rows changed or removed meanwhile make no difference.                   *)
OnlineIsAnswered ==
  \A n \in Nodes :
    /\ node[n].status = "ONLINE" =>
         verdict[n].got.role = "EDGE" /\ verdict[n].got.id \in {n, NoNode}
    /\ node[n].rabbit = "ONLINE" => HttpMode \/ verdict[n].got.rmq = "up"

(* As long as the database answers: an edge whose queue is missing or      *)
(* another's is shown as an error, and no edge that answered as one that   *)
(* cannot be reached (verify's BadRequestException passes its own catch).  *)
AnsweredIsNotOffline ==
  dbErrors = 0 => \A n \in Nodes : verdict[n].heard =>
    /\ node[n].status # "OFFLINE"
    /\ verdict[n].got.rmq \in {"missing", "other"} =>
         HttpMode \/ node[n].status = "ERROR"

(* nodes.service.ts:441: a node is OFFLINE when it cannot be reached, and  *)
(* not because its status could not be written the first time.             *)
OfflineIsUnheard ==
  \A n \in Nodes : node[n].status = "OFFLINE" => ~verdict[n].heard
=============================================================================
