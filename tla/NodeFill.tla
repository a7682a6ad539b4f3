------------------------------- MODULE NodeFill -------------------------------
(***************************************************************************)
(* The package files of a landing on the master (DeploymentService and     *)
(* FileService) and the events that name them, up to the files of one edge *)
(* node.  Events of confirm and syncSingle name a package by version and   *)
(* checksum; NodesService.syncAllLandingsToNode names `/package`, which is *)
(* the file <slug>.zip, zipped from the served folder when it is missing.  *)
(* A request of the panel takes a step per database call; requests overlap.*)
(* The queue loses nothing here; LandingSync has its failures.             *)
(***************************************************************************)
EXTENDS Naturals, Sequences

CONSTANTS
  Requests,    \* the panel's requests that may run at the same time
  None,        \* no row, no file
  MaxRequests, \* bound: requests of the panel
  MaxUploads,  \* bound: uploaded packages
  Operations,  \* which of "confirm", "save", "delete", "fill", "zip" are used
  ListedFirst  \* whether the node was created before the first landing

FillAssumption ==
  /\ MaxRequests \in Nat /\ MaxUploads \in Nat
  /\ ListedFirst \in BOOLEAN
  /\ None \notin Nat

VARIABLES
  row,      \* the Landing row: its version and checksum
  folder,   \* the state of the served files, 0 when there are none
  zipped,   \* <slug>.zip: the state of the files it was made from
  files,    \* the versioned package files
  states,   \* how many states the folder has had
  uploads,  \* how many packages were uploaded
  keys,     \* the idempotency keys of the events written
  outbox,   \* events to be published, oldest first
  queue,    \* the node's queue
  listed,   \* whether the node has a row in EdgeNode
  edge,     \* the node's row
  step,     \* the step each request is about to take
  arg,      \* what it has read so far
  begun     \* how many requests were begun

master   == <<row, folder, zipped, files, states, uploads, keys, outbox, listed>>
requests == <<step, arg, begun>>
vars     == <<master, queue, edge, requests>>

(***************************************************************************)
(* Bytes stand for their checksum.  An upload is new; a zip depends on the *)
(* state of the folder, which .syncpage-meta.json with its time is part of.*)
(***************************************************************************)
Upload(i) == [kind |-> "upload", id |-> i]
Zip(f)    == [kind |-> "zip", id |-> f]
Bytes     == [kind : {"upload", "zip"}, id : Nat]
RowOf(v, b) == [ver |-> v, sum |-> b]
Row       == [ver : Nat, sum : Bytes]

\* wrong FileName, for mutation: the version alone
NameByVersion(v, b) == <<v>>
FileName(v, b) == <<v, b>>

(* How an event names its package, and whether it is for this node alone. *)
Urls  == {"versioned", "package", "none"}
Event == [ver : Nat, sum : Bytes \cup {None}, url : Urls, only : BOOLEAN]
Apply(v, b, url, only) == [ver |-> v, sum |-> b, url |-> url, only |-> only]
Deletion(v) == [ver |-> v, sum |-> None, url |-> "none", only |-> FALSE]

NoArg == [ver |-> 0, sum |-> None, only |-> FALSE]
Steps == {"idle", "version", "publish", "find", "nodes", "commit",
          "seek", "remove", "clean", "rows", "enqueue"}

TypeOK ==
  /\ row \in Row \cup {None}
  /\ folder \in 0..states /\ zipped \in 0..states
  /\ states \in Nat /\ uploads \in 0..MaxUploads
  /\ \A f \in files : f.bytes \in Bytes
  /\ outbox \in Seq(Event) /\ queue \in Seq(Event)
  /\ listed \in BOOLEAN
  /\ edge \in Row \cup {None}
  /\ step \in [Requests -> Steps]
  /\ arg \in [Requests -> [ver : Nat, sum : Bytes \cup {None}, only : BOOLEAN]]
  /\ begun \in 0..MaxRequests

Init ==
  /\ row = None /\ folder = 0 /\ zipped = 0 /\ files = {}
  /\ states = 0 /\ uploads = 0 /\ keys = {} /\ outbox = <<>>
  /\ queue = <<>> /\ listed = ListedFirst /\ edge = None
  /\ step = [r \in Requests |-> "idle"]
  /\ arg = [r \in Requests |-> NoArg]
  /\ begun = 0

Goto(r, s) == step' = [step EXCEPT ![r] = s]
End(r) == Goto(r, "idle") /\ arg' = [arg EXCEPT ![r] = NoArg]
Begin(r, op, s) ==
  /\ step[r] = "idle" /\ begun < MaxRequests /\ op \in Operations
  /\ begun' = begun + 1
  /\ Goto(r, s)
(* The served files change. *)
Touch == folder' = states + 1 /\ states' = states + 1
(* A package file is written. *)
Write(v, b) ==
  files' = {f \in files : f.name # FileName(v, b)}
             \cup {[name |-> FileName(v, b), bytes |-> b]}
Post(event, key) == outbox' = Append(outbox, event) /\ keys' = keys \cup {key}
-----------------------------------------------------------------------------
(* confirm: the folder is replaced; <slug>.zip stays what it was. *)
BeginConfirm(r) ==
  /\ Begin(r, "confirm", "version")
  /\ uploads < MaxUploads
  /\ uploads' = uploads + 1
  /\ arg' = [arg EXCEPT ![r].sum = Upload(uploads + 1)]
  /\ Touch
  /\ UNCHANGED <<row, zipped, files, keys, outbox, listed, queue, edge>>

\* wrong NextVersion, for mutation: no version for the first package
NoFirstVersion(x) == IF x = None THEN None ELSE x.ver + 1
NextVersion(x) == IF x = None THEN 1 ELSE x.ver + 1

(* The version, the marker and the package file.  Without the folder (a    *)
(* deletion came between) the marker cannot be written.                    *)
ReadVersion(r) ==
  LET v == NextVersion(row)
  IN  /\ step[r] = "version"
      /\ IF folder = 0
           THEN End(r) /\ UNCHANGED <<folder, states, files>>
           ELSE /\ arg' = [arg EXCEPT ![r].ver = v]
                /\ Touch
                /\ Write(v, arg[r].sum)
                /\ Goto(r, "publish")
      /\ UNCHANGED <<row, zipped, uploads, keys, outbox, listed, queue, edge,
                     begun>>

(* Its transaction, which fails on a key that exists. *)
Publish(r) ==
  LET a == arg[r]
      key == <<"confirm", a.ver, a.sum>>
  IN  /\ step[r] = "publish"
      /\ IF key \in keys
           THEN UNCHANGED <<row, keys, outbox>>
           ELSE /\ row' = RowOf(a.ver, a.sum)
                /\ Post(Apply(a.ver, a.sum, "versioned", FALSE), key)
      /\ End(r)
      /\ UNCHANGED <<folder, zipped, files, states, uploads, listed, queue,
                     edge, begun>>
-----------------------------------------------------------------------------
(* The file manager saves a file, which removes <slug>.zip, and runs       *)
(* syncSingle.                                                             *)
Save(r) ==
  /\ Begin(r, "save", "find")
  /\ folder # 0
  /\ Touch
  /\ zipped' = 0
  /\ UNCHANGED <<row, files, uploads, keys, outbox, listed, queue, edge, arg>>

(* The row, and the package zipped from the folder. *)
FindRow(r) ==
  LET v == row.ver + 1
  IN  /\ step[r] = "find"
      /\ IF row = None \/ folder = 0
           THEN End(r) /\ UNCHANGED files
           ELSE /\ arg' = [arg EXCEPT ![r] = [@ EXCEPT !.ver = v,
                                                       !.sum = Zip(folder)]]
                /\ Write(v, Zip(folder))
                /\ Goto(r, "nodes")
      /\ UNCHANGED <<row, folder, zipped, states, uploads, keys, outbox, listed,
                     queue, edge, begun>>

ListNodes(r) ==
  /\ step[r] = "nodes"
  /\ arg' = [arg EXCEPT ![r].only = listed]
  /\ Goto(r, "commit")
  /\ UNCHANGED <<master, queue, edge, begun>>

(* Its transaction, which fails without a row or on a key that exists, and *)
(* the marker.                                                             *)
Commit(r) ==
  LET a == arg[r]
      key == <<"single", a.ver, a.sum>>
  IN  /\ step[r] = "commit"
      /\ IF row = None \/ (a.only /\ key \in keys)
           THEN UNCHANGED <<row, keys, outbox, folder, states>>
           ELSE /\ row' = RowOf(a.ver, a.sum)
                /\ IF a.only THEN Post(Apply(a.ver, a.sum, "versioned", TRUE), key)
                             ELSE UNCHANGED <<keys, outbox>>
                /\ IF folder # 0 THEN Touch ELSE UNCHANGED <<folder, states>>
      /\ End(r)
      /\ UNCHANGED <<zipped, files, uploads, listed, queue, edge, begun>>
-----------------------------------------------------------------------------
(* deleteLanding: the row, its transaction, and the folder with <slug>.zip;*)
(* versioned packages stay.                                                *)
BeginDelete(r) ==
  /\ Begin(r, "delete", "seek")
  /\ UNCHANGED <<master, queue, edge, arg>>

Seek(r) ==
  /\ step[r] = "seek"
  /\ Goto(r, IF row = None THEN "idle" ELSE "remove")
  /\ UNCHANGED <<master, queue, edge, arg, begun>>

RemoveRow(r) ==
  /\ step[r] = "remove"
  /\ IF row = None
       THEN Goto(r, "idle") /\ UNCHANGED <<row, keys, outbox>>
       ELSE /\ row' = None
            /\ Post(Deletion(row.ver), <<"delete", row.ver, row.sum>>)
            /\ Goto(r, "clean")
  /\ UNCHANGED <<folder, zipped, files, states, uploads, listed, queue, edge,
                 arg, begun>>

\* wrong Cleaned, for mutation: a deletion purges the landing's packages
NothingLeft(fs) == {}
Cleaned(fs) == fs

Clean(r) ==
  /\ step[r] = "clean"
  /\ folder' = 0 /\ zipped' = 0
  /\ files' = Cleaned(files)
  /\ Goto(r, "idle")
  /\ UNCHANGED <<row, states, uploads, keys, outbox, listed, queue, edge, arg,
                 begun>>
-----------------------------------------------------------------------------
(* syncAllLandingsToNode: the node, the rows, and then an event. *)
BeginFill(r) ==
  /\ Begin(r, "fill", "rows")
  /\ listed
  /\ UNCHANGED <<master, queue, edge, arg>>

ReadRows(r) ==
  /\ step[r] = "rows"
  /\ IF row = None
       THEN End(r)
       ELSE /\ arg' = [arg EXCEPT ![r] = [ver |-> row.ver, sum |-> row.sum,
                                          only |-> TRUE]]
            /\ Goto(r, "enqueue")
  /\ UNCHANGED <<master, queue, edge, begun>>

Enqueue(r) ==
  LET a == arg[r]
  IN  /\ step[r] = "enqueue"
      /\ Post(Apply(a.ver, a.sum, "package", TRUE), <<"fill", a.ver, a.sum>>)
      /\ End(r)
      /\ UNCHANGED <<row, folder, zipped, files, states, uploads, listed, queue,
                     edge, begun>>

(* The panel downloads the landing, which makes <slug>.zip anew. *)
DownloadZip ==
  /\ "zip" \in Operations /\ folder # 0 /\ zipped # folder
  /\ zipped' = folder
  /\ UNCHANGED <<row, folder, files, states, uploads, keys, outbox, listed,
                 queue, edge, requests>>

(* A node is created in the panel and installed. *)
Register ==
  /\ ~listed
  /\ listed' = TRUE
  /\ UNCHANGED <<row, folder, zipped, files, states, uploads, keys, outbox,
                 queue, edge, requests>>
-----------------------------------------------------------------------------
(* The outbox publishes its oldest event to the queues of the nodes there  *)
(* are (without any, to a queue of no node), or to the one it is for.      *)
Flush ==
  /\ outbox # <<>>
  /\ queue' = IF listed \/ Head(outbox).only THEN Append(queue, Head(outbox))
                                             ELSE queue
  /\ outbox' = Tail(outbox)
  /\ UNCHANGED <<row, folder, zipped, files, states, uploads, keys, listed, edge,
                 requests>>

(* getImmutablePackagePath, and getPackagePath, which makes the file it    *)
(* does not find from the folder.                                          *)
Served(m) ==
  IF m.url = "versioned"
    THEN {f.bytes : f \in {g \in files : g.name = FileName(m.ver, m.sum)}}
    ELSE {Zip(z) : z \in {IF zipped # 0 THEN zipped ELSE folder} \ {0}}

(* The consumer of the node: a package with another checksum is dropped,   *)
(* one that is not served is tried again and given up in the end.          *)
Consume ==
  LET m == Head(queue)
  IN  /\ queue # <<>>
      /\ zipped' = IF m.url = "package" /\ zipped = 0 THEN folder ELSE zipped
      /\ edge' = IF m.url = "none" THEN None
                 ELSE IF m.sum \in Served(m) THEN RowOf(m.ver, m.sum)
                 ELSE edge
      /\ queue' = Tail(queue)
      /\ UNCHANGED <<row, folder, files, states, uploads, keys, outbox, listed,
                     requests>>
-----------------------------------------------------------------------------
Step(r) ==
  \/ BeginConfirm(r) \/ ReadVersion(r) \/ Publish(r)
  \/ Save(r) \/ FindRow(r) \/ ListNodes(r) \/ Commit(r)
  \/ BeginDelete(r) \/ Seek(r) \/ RemoveRow(r) \/ Clean(r)
  \/ BeginFill(r) \/ ReadRows(r) \/ Enqueue(r)

Next ==
  \/ \E r \in Requests : Step(r)
  \/ DownloadZip \/ Register \/ Flush \/ Consume

Spec == Init /\ [][Next]_vars
-----------------------------------------------------------------------------
Pending == {outbox[i] : i \in 1..Len(outbox)} \cup {queue[i] : i \in 1..Len(queue)}
Quiet   == Pending = {} /\ \A r \in Requests : step[r] = "idle"

(* file.service.ts:162: a later save must never replace the bytes that a   *)
(* queued event refers to.  It holds of the events that name a versioned   *)
(* package, through deletions, later versions, overlapping requests and a  *)
(* version number used again after a deletion.                             *)
VersionedBytesAreKept ==
  \A m \in Pending : m.url = "versioned" => m.sum \in Served(m)

(* A node that was there from the start ends with the master's row         *)
(* whatever confirm, syncSingle and deleteLanding overlap: the events have *)
(* the order of the transactions, and each finds its package.              *)
SettledNodeHasRow == Quiet /\ ListedFirst => edge = row

(* admin.controller.ts:2120: all landings were queued for this node.  Once *)
(* all is consumed, a node that was sent the master's present row has it.  *)
FilledNodeHasRow ==
  Quiet /\ row # None /\ <<"fill", row.ver, row.sum>> \in keys => edge = row
=============================================================================
