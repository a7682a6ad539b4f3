-------------------------------- MODULE MCNodes --------------------------------
(***************************************************************************)
(* Small instances of the three components behind the panel's pages of     *)
(* nodes and landings: the verification of a node (NodeVerify), the        *)
(* packages its events name (NodeFill) and the synchronisation operation   *)
(* (SyncOperation).  They share no state; a behaviour is one of one of     *)
(* them, as `part` says.                                                   *)
(***************************************************************************)
EXTENDS NodeVerify, TLC

CONSTANTS
  Requests, MaxRequests, MaxUploads, Operations, ListedFirst,
  OpNodes, Mute, Tabs, Scope, MaxVersion, Bound, None

VARIABLES
  part,
  row, folder, zipped, files, states, uploads, keys, outbox, queue, listed,
  edge, step, arg, begun,
  landing, up, disk, loading, entry, status, tab, seen, want, branch, result,
  had, count

Fill == INSTANCE NodeFill
Op   == INSTANCE SyncOperation WITH Nodes <- OpNodes, row <- landing

ASSUME FillAssumption == Fill!FillAssumption
ASSUME OperationAssumption == Op!OperationAssumption

fillVars == <<row, folder, zipped, files, states, uploads, keys, outbox, queue,
              listed, edge, step, arg, begun>>
opVars   == <<landing, up, disk, loading, entry, status, tab, seen, want,
              branch, result, had, count>>

PartInit ==
  part \in {"verify", "fill", "operation"} /\ Init /\ Fill!Init /\ Op!Init

VerifyPart    == part = "verify" /\ Next /\ UNCHANGED <<fillVars, opVars>>
FillPart      == part = "fill" /\ Fill!Next /\ UNCHANGED <<vars, opVars>>
OperationPart == part = "operation" /\ Op!Next /\ UNCHANGED <<vars, fillVars>>

PartNext == UNCHANGED part /\ (VerifyPart \/ FillPart \/ OperationPart)

PartSpec == PartInit /\ [][PartNext]_<<part, vars, fillVars, opVars>>

Symmetry ==
  Permutations(Calls) \cup Permutations(Requests) \cup Permutations(Tabs)

(* NodeFill's VersionedBytesAreKept: a queued event that names a versioned *)
(* package finds the bytes of its checksum.                                *)
FillVersionedBytesAreKept == Fill!VersionedBytesAreKept

(* SyncOperation's CompletedOrDeleted: a node is recorded as completed     *)
(* only when it had the version, or the landing was deleted.               *)
OperationCompletedOrDeleted == Op!CompletedOrDeleted
=============================================================================
