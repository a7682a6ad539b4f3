------------------------------ MODULE MCTransport ------------------------------
(***************************************************************************)
(* Small instances of the two components that deal with the network alone: *)
(* the download of a package (ResumableDownload) and the RabbitMQ          *)
(* connection (OutboxConnection).  They share no state; a behaviour is one *)
(* of the one or of the other, as `part` says.                             *)
(***************************************************************************)
EXTENDS ResumableDownload, TLC

CONSTANTS wanted, other, Conns, None, MaxFaults, MaxFlushes

VARIABLES
  part, hasNodes, step, up, live, connecting, sleeping, destroyed, faults,
  flushes, broken

Link == INSTANCE OutboxConnection

ASSUME LinkAssumption == Link!ConnectionAssumption

MCSize == wanted :> 2 @@ other :> 3

link     == <<step, up, live, connecting, sleeping, destroyed, faults, flushes,
              broken>>
fixed    == <<part, hasNodes>>
partVars == <<vars, link, fixed>>

PartInit == part \in {"download", "link"} /\ Init /\ Link!Init

DownloadPart == part = "download" /\ Next /\ UNCHANGED <<link, hasNodes>>
LinkPart     == part = "link" /\ Link!Next /\ UNCHANGED vars

PartNext == UNCHANGED part /\ (DownloadPart \/ LinkPart)

LinkDials(c) == part = "link" /\ Link!DialStep(c)
LinkWakes    == part = "link" /\ \E c \in Conns : Link!Wake(c)
Downloads    == part = "download" /\ Step

(* The fairness of the two modules, of the one that runs. *)
PartSpec ==
  /\ PartInit /\ [][PartNext]_partVars
  /\ WF_vars(Downloads)
  /\ \A c \in Conns : WF_link(LinkDials(c))
  /\ WF_link(LinkWakes)

(* ResumableDownload's DownloadEnds, of its behaviours: the slug's lock is *)
(* released in the end.                                                    *)
TransferEnds == part = "download" => DownloadEnds

(* OutboxConnection's Reconnects, of its behaviours: once the faults are   *)
(* over the process has an open channel for good.                          *)
LinkReconnects == part = "link" => Link!Reconnects

(* OutboxConnection's ConnectionInv: one dial at a time, a missing channel *)
(* looked after, an open one in use, and no more connections and loops     *)
(* than the faults account for.                                            *)
LinkInv == Link!ConnectionInv
=============================================================================
