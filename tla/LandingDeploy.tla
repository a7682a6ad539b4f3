---------------------------- MODULE LandingDeploy ----------------------------
(***************************************************************************)
(* The master's side of landing deployment (DeploymentService): an admin   *)
(* confirms an uploaded package, rebuilds and resends a landing, or        *)
(* deletes it.  A request is a series of database calls between which      *)
(* other requests run; what happens between two calls (files replaced or   *)
(* zipped with the synchronous fs functions) is one step with the call     *)
(* that precedes it.  Every transaction also writes its event into the     *)
(* outbox (MasterOutbox), which the actions here leave to LandingSync.     *)
(*                                                                         *)
(* A package is known by its checksum.  The one an admin uploads is a      *)
(* member of Packages; the one syncSingle zips from the served files is    *)
(* new each time (it holds the times of its files) and named by the time.  *)
(***************************************************************************)
EXTENDS MasterOutbox

CONSTANTS
  Slugs,       \* names of the landings
  Packages,    \* checksums of the packages an admin may upload
  Requests,    \* the admin requests that may run at the same time
  None,        \* no landing, no package, no job
  MaxChanges,  \* how many requests an admin makes
  CanDelete    \* whether the admin deletes landings

ASSUME DeployAssumption ==
  /\ MaxChanges \in Nat
  /\ CanDelete \in BOOLEAN
  /\ Packages \cap Nat = {}
  /\ None \notin Packages \cup Nat \cup Slugs

VARIABLES
  landing,   \* the master's Landing row of each slug
  site,      \* the package whose files the master serves for each slug
  tombs,     \* the SyncTombstone rows
  clock,     \* the number of changes so far: the time of the next one
  begun,     \* how many requests were begun
  step,      \* the step each request is about to take
  arg        \* its slug, package and version

deployTables  == <<landing, events, tombs, clock>>
deployVars == <<landing, site, events, tombs, clock, begun, step, arg>>

Checksum == Packages \cup Nat
Times    == Nat \ {0}
LandingRow == [ver : Times, sum : Checksum, at : Times]
ASSUME RowAssumption == None \notin LandingRow
NoArg  == [slug |-> None, sum |-> None, ver |-> 0]

(***************************************************************************)
(* A message about a landing.  It stands for its idempotencyKey, which     *)
(* names all of its fields: `landing:<slug>:v<ver>:<sum>` for a confirmed  *)
(* one, with `:node:<id>` for a resent one ("resent"), and                 *)
(* `landing:<slug>:delete:<uuid>` for a deletion, the uuid being the time. *)
(***************************************************************************)
Kinds == {"confirmed", "resent", "delete"}
Message ==
  {m \in [kind : Kinds, slug : Slugs, ver : Nat, sum : Checksum \cup {None}] :
     m.kind # "delete" => m.ver # 0 /\ m.sum # None}

Confirmed(s, v, k) == [kind |-> "confirmed", slug |-> s, ver |-> v, sum |-> k]
Resent(s, v, k)    == [kind |-> "resent", slug |-> s, ver |-> v, sum |-> k]
Deletion(s, time)  == [kind |-> "delete", slug |-> s, ver |-> time, sum |-> None]

Logged(m) == \E i \in 1..Len(events) : events[i] = m

DeployTypeOK ==
  /\ landing \in [Slugs -> LandingRow \cup {None}]
  /\ site \in [Slugs -> Checksum \cup {None}]
  /\ events \in Seq(Message)
  /\ tombs \subseteq [slug : Slugs, at : Times]
  /\ clock \in Times
  /\ begun \in 0..MaxChanges
  /\ step \in [Requests -> {"idle", "version", "publish", "read", "rebuild",
                            "find", "delete", "clean"}]
  /\ arg \in [Requests -> [slug : Slugs, sum : Checksum \cup {None}, ver : Nat]
                            \cup {NoArg}]
  /\ \A r \in Requests :
       /\ step[r] # "idle" => arg[r].slug \in Slugs
       /\ step[r] \in {"version", "publish", "rebuild"} => arg[r].sum # None
       /\ step[r] \in {"publish", "rebuild"} => arg[r].ver # 0

DeployInit ==
  /\ landing = [s \in Slugs |-> None]
  /\ site = [s \in Slugs |-> None]
  /\ tombs = {}
  /\ clock = 1
  /\ begun = 0
  /\ step = [r \in Requests |-> "idle"]
  /\ arg = [r \in Requests |-> NoArg]

At(r, st) == step' = [step EXCEPT ![r] = st]
End(r) == At(r, "idle") /\ arg' = [arg EXCEPT ![r] = NoArg]

Begin(r, st, s, k) ==
  /\ step[r] = "idle" /\ begun < MaxChanges
  /\ begun' = begun + 1
  /\ At(r, st)
  /\ arg' = [arg EXCEPT ![r] = [slug |-> s, sum |-> k, ver |-> 0]]

(* A committed change of slug s: its row is stamped with the time. *)
Row(v, k) == [ver |-> v, sum |-> k, at |-> clock]
SetRow(s, row) == landing' = [landing EXCEPT ![s] = row]
-----------------------------------------------------------------------------
(* confirm: the served files are replaced before anything else. *)
BeginConfirm(r, s, k) ==
  /\ Begin(r, "version", s, k)
  /\ site' = [site EXCEPT ![s] = k]
  /\ UNCHANGED deployTables

\* wrong NextVersion, for mutation: no row is found; counting from 0
FirstVersion(row) == 1
ZeroBased(row)    == IF row = None THEN 0 ELSE row.ver + 1
NextVersion(row) == IF row = None THEN 1 ELSE row.ver + 1

ReadVersion(r) ==
  /\ step[r] = "version"
  /\ arg' = [arg EXCEPT ![r].ver = NextVersion(landing[arg[r].slug])]
  /\ At(r, "publish")
  /\ UNCHANGED <<deployTables, site, begun>>

(* Its transaction: the row and its event, or nothing when the event's     *)
(* unique idempotencyKey exists.                                           *)
Publish(r) ==
  LET a == arg[r]
      m == Confirmed(a.slug, a.ver, a.sum)
  IN  /\ step[r] = "publish"
      /\ IF Logged(m)
         THEN UNCHANGED deployTables
         ELSE /\ SetRow(a.slug, Row(a.ver, a.sum))
              /\ Announce(m)
              /\ clock' = clock + 1
              /\ UNCHANGED tombs
      /\ End(r)
      /\ UNCHANGED <<site, begun>>

(* syncSingle, syncAll's body: the row is read and the served files are    *)
(* zipped; without a row it throws.                                        *)
BeginResend(r, s) ==
  /\ Begin(r, "read", s, None)
  /\ UNCHANGED <<deployTables, site>>

(* The zip of whatever is served becomes the package of the next version.  *)
(* Files edited in the panel (LandingFilesController) go out this way.     *)
Rebuild(r) ==
  LET a == arg[r]
  IN  /\ step[r] = "read"
      /\ IF landing[a.slug] = None \/ site[a.slug] = None
         THEN End(r) /\ UNCHANGED <<clock, site>>
         ELSE /\ arg' = [arg EXCEPT ![r] =
                           [@ EXCEPT !.ver = landing[a.slug].ver + 1,
                                     !.sum = clock]]
              /\ At(r, "rebuild")
              /\ site' = [site EXCEPT ![a.slug] = clock]
              /\ clock' = clock + 1
      /\ UNCHANGED <<landing, events, tombs, begun>>

(* Its transaction: an update, which needs the row, and one event a node.  *)
Republish(r) ==
  LET a == arg[r]
  IN  /\ step[r] = "rebuild"
      /\ IF landing[a.slug] = None
         THEN UNCHANGED deployTables
         ELSE /\ SetRow(a.slug, Row(a.ver, a.sum))
              /\ Announce(Resent(a.slug, a.ver, a.sum))
              /\ clock' = clock + 1
              /\ UNCHANGED tombs
      /\ End(r)
      /\ UNCHANGED <<site, begun>>

(* deleteLanding: the row is looked up, ... *)
BeginDelete(r, s) ==
  /\ CanDelete
  /\ Begin(r, "find", s, None)
  /\ UNCHANGED <<deployTables, site>>

FindLanding(r) ==
  /\ step[r] = "find"
  /\ IF landing[arg[r].slug] = None THEN End(r)
                                    ELSE At(r, "delete") /\ UNCHANGED arg
  /\ UNCHANGED <<deployTables, site, begun>>

(* ... deleted in one transaction with a tombstone and an event, ... *)
DeleteRow(r) ==
  LET s == arg[r].slug
  IN  /\ step[r] = "delete"
      /\ IF landing[s] = None
         THEN End(r) /\ UNCHANGED deployTables
         ELSE /\ SetRow(s, None)
              /\ tombs' = tombs \cup {[slug |-> s, at |-> clock]}
              /\ Announce(Deletion(s, clock))
              /\ clock' = clock + 1
              /\ At(r, "clean") /\ UNCHANGED arg
      /\ UNCHANGED <<site, begun>>

(* ... and its files removed. *)
CleanSite(r) ==
  /\ step[r] = "clean"
  /\ site' = [site EXCEPT ![arg[r].slug] = None]
  /\ End(r)
  /\ UNCHANGED <<deployTables, begun>>

(* The master stops: its requests end where they are. *)
RequestsEnd ==
  /\ step' = [r \in Requests |-> "idle"]
  /\ arg' = [r \in Requests |-> NoArg]
  /\ UNCHANGED <<landing, site, tombs, clock, begun>>

DeployStep(r) ==
  \/ ReadVersion(r) \/ Publish(r) \/ Rebuild(r) \/ Republish(r)
  \/ FindLanding(r) \/ DeleteRow(r) \/ CleanSite(r)

Admin(r) ==
  \E s \in Slugs :
    \/ \E k \in Packages : BeginConfirm(r, s, k)
    \/ BeginResend(r, s)
    \/ BeginDelete(r, s)
-----------------------------------------------------------------------------
(***************************************************************************)
(* The manifest, for an edge that has everything before `since` (0: for    *)
(* one that has nothing, or in a full synchronisation).  The key of a      *)
(* landing in it is the key of a confirmed message.                        *)
(***************************************************************************)
Listed(since) ==
  {Confirmed(s, landing[s].ver, landing[s].sum) :
     s \in {s \in Slugs : landing[s] # None /\ landing[s].at >= since}}

Tombstoned(since) ==
  IF since = 0 THEN {} ELSE {t.slug : t \in {t \in tombs : t.at >= since}}
-----------------------------------------------------------------------------
(***************************************************************************)
(* The transactional outbox: the row of a landing is what the last of the  *)
(* slug's events announces, so that an edge that handles the events in     *)
(* order ends with the row.                                                *)
(***************************************************************************)
Announces(m, row) ==
  IF m.kind = "delete" THEN row = None
  ELSE row # None /\ m.ver = row.ver /\ m.sum = row.sum

RowIsAnnounced ==
  \A s \in Slugs :
    /\ (\A i \in 1..Len(events) : events[i].slug # s) => landing[s] = None
    /\ \A i \in 1..Len(events) :
         events[i].slug = s /\ (\A j \in i+1..Len(events) : events[j].slug # s)
           => Announces(events[i], landing[s])

(* The slugs of which no landing was ever deleted. *)
Kept == {s \in Slugs : \A t \in tombs : t.slug # s}

(***************************************************************************)
(* No two packages of a slug that was never deleted are published under    *)
(* one version.  It holds while the admin's requests do not overlap: the   *)
(* version is read in one call and used in another.                        *)
(***************************************************************************)
VersionNamesPackage ==
  \A i, j \in 1..Len(events) :
    /\ events[i].slug \in Kept
    /\ events[i].slug = events[j].slug
    /\ events[i].ver = events[j].ver
    => events[i].sum = events[j].sum

(***************************************************************************)
(* Between requests the master serves the package its row names, for a     *)
(* slug that was never deleted.  It holds while requests do not overlap:   *)
(* the files are replaced before the row, outside its transaction.         *)
(***************************************************************************)
ServedIsPublished ==
  (\A r \in Requests : step[r] = "idle") =>
    \A s \in Kept :
      site[s] = IF landing[s] = None THEN None ELSE landing[s].sum
=============================================================================
