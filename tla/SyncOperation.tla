----------------------------- MODULE SyncOperation -----------------------------
(***************************************************************************)
(* A synchronisation operation: what the panel shows of a landing's way to *)
(* the edges.  syncSingle or a confirmation creates the operation with an  *)
(* entry for every node; nothing but getSyncOperationStatus changes it     *)
(* afterwards, which an open tab of the panel calls again and again until  *)
(* the answer looks final.  A call reads the operation, reads the landing  *)
(* row as it is by now, asks every node's health at the same time, writes  *)
(* the entries that differ from what it read, and then the operation.      *)
(* Calls of several tabs overlap.                                          *)
(*                                                                         *)
(* One operation, created when the landing's row had version 1.            *)
(***************************************************************************)
EXTENDS Naturals

CONSTANTS
  Nodes,       \* the nodes registered when the operation was created
  Mute,        \* those whose health answer lists no landings: NODE_ROLE is
               \* SLAVE, or the first address is the master's own
  Tabs,        \* tabs of the panel
  None,        \* no entry
  Scope,       \* what may happen besides deployment
  MaxVersion,  \* bound: the version of the landing
  Bound        \* bound: outages, and tabs opened

Happenings == {"outage", "deletion", "removal"}

OperationAssumption ==
  /\ Mute \subseteq Nodes
  /\ Scope \subseteq Happenings
  /\ MaxVersion \in Nat \ {0} /\ Bound \in Nat

NodeStatus == {"QUEUED", "DEPLOYING", "COMPLETED", "UNREACHABLE"}
OpStatus   == {"RUNNING", "PARTIAL", "COMPLETED"}
Errors     == {"none", "unreachable", "syncing"}   \* lastError
Entry      == [status : NodeStatus, err : Errors]
Entries    == [Nodes -> Entry \cup {None}]

VARIABLES
  row,      \* the version of the master's Landing row, 0 without one
  up,       \* the nodes that answer
  disk,     \* the version on each node's disk, 0 without one
  loading,  \* the version each node downloads, 0 without a download
  entry,    \* the SyncOperationNode rows
  status,   \* the status of the SyncOperation
  tab,      \* the step of each tab's call
  seen,     \* the entries and the status the call read
  want,     \* the version it expects
  branch,   \* where its branch for each node is
  result,   \* what that branch found
  had,      \* history: the nodes that had version 1 or a later one
  count     \* how many outages and openings there were

fleet   == <<up, disk, loading, had>>
tables  == <<entry, status>>
calls   == <<tab, seen, want, branch, result>>
vars    == <<row, fleet, tables, calls, count>>

Steps == {"closed", "read", "expect", "probe", "waiting"}

TypeOK ==
  /\ row \in 0..MaxVersion
  /\ up \subseteq Nodes /\ had \subseteq Nodes
  /\ disk \in [Nodes -> 0..MaxVersion] /\ loading \in [Nodes -> 0..MaxVersion]
  /\ entry \in Entries /\ status \in OpStatus
  /\ tab \in [Tabs -> Steps]
  /\ seen \in [Tabs -> [entries : Entries, status : OpStatus]]
  /\ want \in [Tabs -> 0..MaxVersion]
  /\ branch \in [Tabs -> [Nodes -> {"probe", "save", "done", "broken"}]]
  /\ result \in [Tabs -> Entries]
  /\ count \in [{"outage", "opened"} -> 0..Bound]
  /\ \A t \in Tabs, n \in Nodes :
       branch[t][n] = "save" => tab[t] = "probe" /\ result[t][n] # None

\* wrong Created, for mutation: the status an operation has by default
CreatedPending == [n \in Nodes |-> [status |-> "PENDING", err |-> "none"]]
\* createSyncOperation
Created == [n \in Nodes |-> [status |-> "QUEUED", err |-> "none"]]

NoCall == [seen   |-> [entries |-> Created, status |-> "RUNNING"],
           branch |-> [n \in Nodes |-> "done"],
           result |-> [n \in Nodes |-> None]]

Init ==
  /\ row = 1 /\ up = Nodes
  /\ disk = [n \in Nodes |-> 0] /\ loading = [n \in Nodes |-> 0] /\ had = {}
  /\ entry = Created /\ status = "RUNNING"
  /\ tab = [t \in Tabs |-> "closed"]
  /\ seen = [t \in Tabs |-> NoCall.seen] /\ want = [t \in Tabs |-> 0]
  /\ branch = [t \in Tabs |-> NoCall.branch]
  /\ result = [t \in Tabs |-> NoCall.result]
  /\ count = [c \in {"outage", "opened"} |-> 0]

Counted(c) == count[c] < Bound /\ count' = [count EXCEPT ![c] = @ + 1]
-----------------------------------------------------------------------------
(* The landing is sent again in a later version, or deleted. *)
Resend ==
  /\ row \in 1..MaxVersion - 1
  /\ row' = row + 1
  /\ UNCHANGED <<fleet, tables, calls, count>>

DeleteLanding ==
  /\ "deletion" \in Scope /\ row # 0
  /\ row' = 0
  /\ UNCHANGED <<fleet, tables, calls, count>>

(* A node is deleted in the panel, and its entry with it. *)
RemoveNode(n) ==
  /\ "removal" \in Scope /\ entry[n] # None
  /\ entry' = [entry EXCEPT ![n] = None]
  /\ UNCHANGED <<row, fleet, status, calls, count>>

(* A node applies the landing as LandingSync describes. *)
Download(n) ==
  /\ n \in up /\ loading[n] = 0 /\ disk[n] < row
  /\ loading' = [loading EXCEPT ![n] = row]
  /\ UNCHANGED <<row, up, disk, had, tables, calls, count>>

Deploy(n) ==
  /\ n \in up /\ loading[n] # 0
  /\ disk' = [disk EXCEPT ![n] = loading[n]]
  /\ loading' = [loading EXCEPT ![n] = 0]
  /\ had' = had \cup {n}
  /\ UNCHANGED <<row, up, tables, calls, count>>

Undeploy(n) ==
  /\ n \in up /\ row = 0 /\ disk[n] # 0 /\ loading[n] = 0
  /\ disk' = [disk EXCEPT ![n] = 0]
  /\ UNCHANGED <<row, up, loading, had, tables, calls, count>>

(* A node stops answering; its download is cut. *)
Down(n) ==
  /\ "outage" \in Scope /\ n \in up
  /\ Counted("outage")
  /\ up' = up \ {n}
  /\ loading' = [loading EXCEPT ![n] = 0]
  /\ UNCHANGED <<row, disk, had, tables, calls>>

Up(n) ==
  /\ n \notin up
  /\ up' = up \cup {n}
  /\ UNCHANGED <<row, disk, loading, had, tables, calls, count>>
-----------------------------------------------------------------------------
At(t, step) == tab' = [tab EXCEPT ![t] = step]

Open(t) ==
  /\ tab[t] = "closed"
  /\ Counted("opened")
  /\ At(t, "read")
  /\ UNCHANGED <<row, fleet, tables, seen, want, branch, result>>

ReadOperation(t) ==
  /\ tab[t] = "read"
  /\ seen' = [seen EXCEPT ![t] = [entries |-> entry, status |-> status]]
  /\ At(t, "expect")
  /\ UNCHANGED <<row, fleet, tables, want, branch, result, count>>

Members(t) == {n \in Nodes : seen[t].entries[n] # None}

ReadExpected(t) ==
  /\ tab[t] = "expect"
  /\ want' = [want EXCEPT ![t] = row]
  /\ branch' = [branch EXCEPT ![t] =
                 [n \in Nodes |-> IF n \in Members(t) THEN "probe" ELSE "done"]]
  /\ At(t, "probe")
  /\ UNCHANGED <<row, fleet, tables, seen, result, count>>

\* the landing the health answer lists, and a probe of a deleted node fails
Lists(n)   == IF n \in Mute THEN 0 ELSE disk[n]
Answers(n) == n \in up /\ entry[n] # None
Active(n)  == n \notin Mute /\ loading[n] # 0

\* wrong Complete, for mutation: any version will do
AnyVersion(t, n) == Answers(n)
(* Every expected landing is listed with its version and checksum. *)
Complete(t, n) == Answers(n) /\ (want[t] = 0 \/ Lists(n) = want[t])

Found(t, n) ==
  [status |-> IF Complete(t, n) THEN "COMPLETED"
              ELSE IF ~Answers(n) THEN "UNREACHABLE"
              ELSE IF Active(n) THEN "DEPLOYING"
              ELSE seen[t].entries[n].status,
   err |-> IF ~Answers(n) THEN "unreachable"
           ELSE IF Complete(t, n) THEN "none" ELSE "syncing"]

\* wrong Differs, for mutation: only the error is compared
ErrorDiffers(e, f) == e.err # f.err
Differs(e, f) == e # f

Probe(t, n) ==
  /\ branch[t][n] = "probe"
  /\ result' = [result EXCEPT ![t][n] = Found(t, n)]
  /\ branch' = [branch EXCEPT ![t][n] =
                 IF Differs(Found(t, n), seen[t].entries[n]) THEN "save" ELSE "done"]
  /\ UNCHANGED <<row, fleet, tables, tab, seen, want, count>>

(* The entry is written; the write of a deleted one throws. *)
Save(t, n) ==
  /\ branch[t][n] = "save"
  /\ entry' = IF entry[n] = None THEN entry
              ELSE [entry EXCEPT ![n] = result[t][n]]
  /\ branch' = [branch EXCEPT ![t][n] = IF entry[n] = None THEN "broken" ELSE "done"]
  /\ UNCHANGED <<row, fleet, status, tab, seen, want, result, count>>

\* wrong Overall, for mutation: a node that failed does not count
OverallOf(S, failed) ==
  IF \A s \in S : s = "COMPLETED" THEN "COMPLETED"
  ELSE IF \E s \in S : s \in failed THEN "PARTIAL" ELSE "RUNNING"
FailureIgnored(S) == OverallOf(S, {"COMPLETED"})
Overall(S) == OverallOf(S, {"COMPLETED", "UNREACHABLE"})

\* wrong Final, for mutation: the tab asks once
Once  == OpStatus
\* the answers after which the tab asks no more
Final == {"COMPLETED", "PARTIAL"}

Forget(t) ==
  /\ seen' = [seen EXCEPT ![t] = NoCall.seen]
  /\ want' = [want EXCEPT ![t] = 0]
  /\ branch' = [branch EXCEPT ![t] = NoCall.branch]
  /\ result' = [result EXCEPT ![t] = NoCall.result]

(* The call ends.  One whose branch threw fails, and the tab gives up. *)
Answer(t) ==
  /\ tab[t] = "probe"
  /\ \A n \in Nodes : branch[t][n] \in {"done", "broken"}
  /\ LET overall == Overall({result[t][n].status : n \in Members(t)})
     IN  IF \E n \in Nodes : branch[t][n] = "broken"
         THEN At(t, "closed") /\ UNCHANGED status
         ELSE /\ status' = IF overall # seen[t].status THEN overall ELSE status
              /\ At(t, IF overall \in Final THEN "closed" ELSE "waiting")
  /\ Forget(t)
  /\ UNCHANGED <<row, fleet, entry, count>>

Again(t) ==
  /\ tab[t] = "waiting"
  /\ At(t, "read")
  /\ UNCHANGED <<row, fleet, tables, seen, want, branch, result, count>>

Branch(t, n) == Probe(t, n) \/ Save(t, n)
TabStep(t) == ReadOperation(t) \/ ReadExpected(t) \/ Answer(t) \/ Again(t)

Next ==
  \/ Resend \/ DeleteLanding
  \/ \E n \in Nodes : RemoveNode(n) \/ Down(n) \/ Up(n)
  \/ \E n \in Nodes : Download(n) \/ Deploy(n) \/ Undeploy(n)
  \/ \E t \in Tabs : Open(t) \/ TabStep(t) \/ \E n \in Nodes : Branch(t, n)

(***************************************************************************)
(* Fairness: the master's event loop and the tab's timer run; a node that  *)
(* answers applies the landing.  A node that is down need not come back,   *)
(* and nobody need open a tab.                                             *)
(***************************************************************************)
Fairness ==
  /\ \A n \in Nodes : WF_vars(Download(n)) /\ WF_vars(Deploy(n))
  /\ \A t \in Tabs : WF_vars(TabStep(t))
  /\ \A t \in Tabs : \A n \in Nodes : WF_vars(Branch(t, n))

Spec == Init /\ [][Next]_vars /\ Fairness
-----------------------------------------------------------------------------
(***************************************************************************)
(* A node is recorded as completed, and an operation with it, only when    *)
(* the node had the version the operation was created for or a later one.  *)
(***************************************************************************)
CompletedIsConfirmed ==
  \A n \in Nodes :
    /\ entry[n] # None
    /\ entry[n].status = "COMPLETED" \/ status = "COMPLETED"
    => n \in had

(* The same unless the landing was deleted, which expects nothing of any  *)
(* node.                                                                   *)
CompletedOrDeleted == row = 0 \/ CompletedIsConfirmed

(***************************************************************************)
(* Between its calls the operation's status is what its entries add up to. *)
(* It holds with one tab and while no node is deleted: overlapping calls   *)
(* write what they compute from what they read.                            *)
(***************************************************************************)
StoredAgrees ==
  (\A t \in Tabs : tab[t] \in {"closed", "waiting"}) =>
    status = Overall({entry[n].status : n \in {n \in Nodes : entry[n] # None}})

(***************************************************************************)
(* A node is reported as unreachable only when it did not answer.          *)
(***************************************************************************)
UnreachableIsSilent ==
  \A t \in Tabs, n \in Nodes :
    result[t][n] # None /\ result[t][n].status = "UNREACHABLE" =>
      result[t][n].err = "unreachable"

(***************************************************************************)
(* The panel's tab stops asking: no call and no operation goes on for ever.*)
(***************************************************************************)
TabSettles == \A t \in Tabs : tab[t] # "closed" ~> tab[t] = "closed"

(***************************************************************************)
(* A tab that was opened leads to the operation being completed.           *)
(***************************************************************************)
OperationCompletes == \A t \in Tabs : tab[t] # "closed" ~> status = "COMPLETED"
=============================================================================
