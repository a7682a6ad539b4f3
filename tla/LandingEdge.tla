----------------------------- MODULE LandingEdge -----------------------------
(***************************************************************************)
(* An edge's side of landing deployment.  A landing is applied or removed  *)
(* by one of these tasks:                                                  *)
(*   Consumer   the handler of landing.sync and landing.delete             *)
(*              (SyncConsumerController), one message at a time;           *)
(*   s \in Slugs  SyncPullService.syncOne on the manifest's item for s,    *)
(*              several at a time;                                         *)
(*   Reaper     the deletions of a pull, one at a time.                    *)
(* They share LandingApplyService: its lock per slug makes a second apply  *)
(* return at once, and its deleteLanding takes no lock.  Between two       *)
(* database calls or network reads of a task the other tasks run.          *)
(***************************************************************************)
EXTENDS LandingDeploy

CONSTANTS
  Consumer, Reaper,  \* the tasks that are not named by a slug
  MaxTries           \* how often a message may fail before it is dropped (5)

ASSUME EdgeAssumption ==
  /\ MaxTries \in Nat
  /\ Consumer # Reaper
  /\ {Consumer, Reaper} \cap (Slugs \cup {None}) = {}

VARIABLES
  edgeRow,    \* the edge's Landing row of each slug
  edgeSite,   \* the package whose files the edge serves for each slug
  processed,  \* keys in the edge's ProcessedEvent table
  locks,      \* activeLocks
  tries,      \* the failure counter of the message being consumed
  pc, job,    \* the step each task is about to take, and its message
  mode,       \* what the running pull (tick) does; "idle" without one
  full,       \* whether it is a full synchronisation
  items,      \* the landings of its manifest
  todo,       \* what it has still to handle: slugs to delete, or items
  since       \* lastSyncTimestamp less the overlap; 0 when null

stores    == <<edgeRow, edgeSite, processed>>
taskVars  == <<pc, job>>
pullVars  == <<mode, full, items, todo, since>>
edgeVars  == <<stores, locks, tries, taskVars, pullVars>>

Tasks == Slugs \cup {Consumer, Reaper}
Local == [ver : Times, sum : Checksum]
ASSUME LocalAssumption == None \notin Local

EdgeTypeOK ==
  /\ edgeRow \in [Slugs -> Local \cup {None}]
  /\ edgeSite \in [Slugs -> Checksum \cup {None}]
  /\ processed \subseteq Message
  /\ locks \subseteq Slugs
  /\ tries \in Nat
  /\ pc \in [Tasks -> {"idle", "check", "compare", "lock", "download", "store",
                       "mark", "find", "drop", "remove", "done", "failed",
                       "corrupt"}]
  /\ job \in [Tasks -> Message \cup {None}]
  /\ \A t \in Tasks :
       /\ pc[t] # "idle" => job[t] \in Message
       /\ pc[t] \in {"compare", "lock", "download", "store"} =>
            job[t].kind # "delete"
  /\ mode \in {"idle", "delete", "apply", "cleanup"}
  /\ full \in BOOLEAN
  /\ items \subseteq Message
  /\ todo \subseteq IF mode = "apply" THEN Message ELSE Slugs
  /\ since \in Nat

EdgeInit ==
  /\ edgeRow = [s \in Slugs |-> None]
  /\ edgeSite = [s \in Slugs |-> None]
  /\ processed = {}
  /\ locks = {}
  /\ tries = 0
  /\ pc = [t \in Tasks |-> "idle"]
  /\ job = [t \in Tasks |-> None]
  /\ mode = "idle" /\ full = FALSE /\ items = {} /\ todo = {} /\ since = 0

Slug(t) == job[t].slug
Goto(t, st) == pc' = [pc EXCEPT ![t] = st]
Start(t, m, st) ==
  /\ pc[t] = "idle"
  /\ Goto(t, st)
  /\ job' = [job EXCEPT ![t] = m]
Stop(t) ==
  /\ Goto(t, "idle")
  /\ job' = [job EXCEPT ![t] = None]
-----------------------------------------------------------------------------
(* alreadyProcessed.  The pull then compares with the local row. *)
Check(t) ==
  /\ pc[t] = "check"
  /\ Goto(t, IF job[t] \in processed THEN "done"
             ELSE IF job[t].kind = "delete" THEN "find"
             ELSE IF t = Consumer THEN "lock" ELSE "compare")
  /\ UNCHANGED <<stores, locks, tries, job, pullVars>>

\* wrong UpToDate, for mutation: any version will do
Present(row, m)  == row # None
UpToDate(row, m) == row # None /\ row.sum = m.sum /\ row.ver >= m.ver

Compare(t) ==
  /\ pc[t] = "compare"
  /\ Goto(t, IF UpToDate(edgeRow[Slug(t)], job[t]) THEN "mark" ELSE "lock")
  /\ UNCHANGED <<stores, locks, tries, job, pullVars>>

\* wrong Locked, for mutation: every apply goes on
NeverLocked(s) == FALSE
Locked(s) == s \in locks

(* The consumer counts the attempt, and after MaxTries gives the message   *)
(* up as processed.  applyLanding takes the slug's lock; while another     *)
(* task holds it, it returns at once, as it does when it succeeds.         *)
Lock(t) ==
  /\ pc[t] = "lock"
  /\ tries' = IF t = Consumer THEN tries + 1 ELSE tries
  /\ IF tries' > MaxTries \/ Locked(Slug(t))
     THEN Goto(t, "mark") /\ UNCHANGED locks
     ELSE Goto(t, "download") /\ locks' = locks \cup {Slug(t)}
  /\ UNCHANGED <<stores, job, pullVars>>

(* The package arrived with the right checksum: the files are replaced. *)
Downloaded(t) ==
  /\ pc[t] = "download"
  /\ edgeSite' = [edgeSite EXCEPT ![Slug(t)] = job[t].sum]
  /\ Goto(t, "store")
  /\ UNCHANGED <<edgeRow, processed, locks, tries, job, pullVars>>

(* Every attempt on every URL failed ("failed"), or the package has        *)
(* another checksum ("corrupt").                                           *)
DownloadFails(t, outcome) ==
  /\ pc[t] = "download"
  /\ locks' = locks \ {Slug(t)}
  /\ Goto(t, outcome)
  /\ UNCHANGED <<stores, tries, job, pullVars>>

(* landing.upsert; then the lock is released. *)
Store(t) ==
  /\ pc[t] = "store"
  /\ edgeRow' = [edgeRow EXCEPT ![Slug(t)] = [ver |-> job[t].ver,
                                              sum |-> job[t].sum]]
  /\ locks' = locks \ {Slug(t)}
  /\ Goto(t, "mark")
  /\ UNCHANGED <<edgeSite, processed, tries, job, pullVars>>

(* deleteLanding: look up the row, ... *)
Find(t) ==
  /\ pc[t] = "find"
  /\ Goto(t, IF edgeRow[Slug(t)] = None THEN "remove" ELSE "drop")
  /\ UNCHANGED <<stores, locks, tries, job, pullVars>>

(* ... delete it, which throws when it is gone already, ... *)
Drop(t) ==
  /\ pc[t] = "drop"
  /\ IF edgeRow[Slug(t)] = None
     THEN Goto(t, "failed") /\ UNCHANGED edgeRow
     ELSE Goto(t, "remove") /\ edgeRow' = [edgeRow EXCEPT ![Slug(t)] = None]
  /\ UNCHANGED <<edgeSite, processed, locks, tries, job, pullVars>>

\* wrong Remaining, for mutation: the files stay
FilesStay(t) == edgeSite
Remaining(t) == [edgeSite EXCEPT ![Slug(t)] = None]

(* ... and remove the files.  A pull's deletion is not recorded. *)
Remove(t) ==
  /\ pc[t] = "remove"
  /\ edgeSite' = Remaining(t)
  /\ Goto(t, IF t = Reaper THEN "done" ELSE "mark")
  /\ UNCHANGED <<edgeRow, processed, locks, tries, job, pullVars>>

(* markProcessed creates the key; it throws when the key exists. *)
Mark(t) ==
  /\ pc[t] = "mark"
  /\ IF job[t] \in processed
     THEN Goto(t, "failed") /\ UNCHANGED processed
     ELSE Goto(t, "done") /\ processed' = processed \cup {job[t]}
  /\ UNCHANGED <<edgeRow, edgeSite, locks, tries, job, pullVars>>

TaskStep(t) ==
  \/ Check(t) \/ Compare(t) \/ Lock(t) \/ Downloaded(t) \/ Store(t)
  \/ Find(t) \/ Drop(t) \/ Remove(t) \/ Mark(t)

Ended == {"done", "failed", "corrupt"}
-----------------------------------------------------------------------------
(***************************************************************************)
(* A pull: fetch the manifest, delete the tombstoned landings, apply the   *)
(* listed ones, and in a full synchronisation remove what is not listed.   *)
(* It is a full one by its timer; the manifest is a full one also when no  *)
(* time is known.  A 304 changes nothing, and whether the ETag still fits  *)
(* depends on forms, products and settings too, so it is left out.         *)
(***************************************************************************)
Fetch(isFull) ==
  /\ mode = "idle"
  /\ full' = isFull
  /\ LET from == IF isFull THEN 0 ELSE since
     IN  /\ items' = Listed(from)
         /\ todo' = Tombstoned(from)
  /\ since' \in since..clock \ {0}
  /\ mode' = "delete"
  /\ UNCHANGED <<stores, locks, tries, taskVars>>

(* The next landing to delete, by a tombstone or in the cleanup. *)
Reap ==
  /\ mode \in {"delete", "cleanup"}
  /\ \E s \in todo :
       /\ Start(Reaper, Deletion(s, 0), "find")
       /\ todo' = todo \ {s}
  /\ UNCHANGED <<stores, locks, tries, mode, full, items, since>>

(* A failed deletion is skipped; in the cleanup it ends the loop. *)
Reaped ==
  /\ pc[Reaper] \in Ended
  /\ Stop(Reaper)
  /\ todo' = IF mode = "cleanup" /\ pc[Reaper] = "failed" THEN {} ELSE todo
  /\ UNCHANGED <<stores, locks, tries, mode, full, items, since>>

BeginItems ==
  /\ mode = "delete" /\ todo = {} /\ pc[Reaper] = "idle"
  /\ mode' = "apply"
  /\ todo' = items
  /\ UNCHANGED <<stores, locks, tries, taskVars, full, items, since>>

StartItem(s) ==
  /\ mode = "apply"
  /\ \E m \in todo :
       /\ m.slug = s
       /\ Start(s, m, "check")
       /\ todo' = todo \ {m}
  /\ UNCHANGED <<stores, locks, tries, mode, full, items, since>>

(* An item's error is logged: the pull goes on. *)
ItemEnds(s) ==
  /\ pc[s] \in Ended
  /\ Stop(s)
  /\ UNCHANGED <<stores, locks, tries, pullVars>>

Unlisted == {s \in Slugs : edgeRow[s] # None /\ \A m \in items : m.slug # s}

EndItems ==
  /\ mode = "apply" /\ todo = {} /\ \A s \in Slugs : pc[s] = "idle"
  /\ IF full THEN mode' = "cleanup" /\ todo' = Unlisted
             ELSE mode' = "idle" /\ UNCHANGED todo
  /\ UNCHANGED <<stores, locks, tries, taskVars, full, items, since>>

EndPull ==
  /\ mode = "cleanup" /\ todo = {} /\ pc[Reaper] = "idle"
  /\ mode' = "idle"
  /\ UNCHANGED <<stores, locks, tries, taskVars, full, items, todo, since>>

PullStep ==
  \/ Reap \/ Reaped \/ BeginItems \/ EndItems \/ EndPull
  \/ \E s \in Slugs : StartItem(s) \/ ItemEnds(s)

(* The edge restarts: its tasks, locks, counters and times are gone. *)
EdgeRestart ==
  /\ locks' = {}
  /\ tries' = 0
  /\ pc' = [t \in Tasks |-> "idle"]
  /\ job' = [t \in Tasks |-> None]
  /\ mode' = "idle" /\ full' = FALSE /\ items' = {} /\ todo' = {} /\ since' = 0
  /\ UNCHANGED stores
=============================================================================
