------------------------- MODULE MasterIngestOverlap -------------------------
(***************************************************************************)
(* What the handlers of MasterIngest promise of a lead as long as no two   *)
(* of them handle it at the same time.  The history variable raced holds   *)
(* the leads of which two did; the steps are those of MasterIngest.        *)
(***************************************************************************)
EXTENDS MasterIngest

VARIABLE raced
overlapVars == <<ingestVars, raced>>

Running(l) == {w \in Workers : pc[w] # "idle" /\ msg[w].lead = l}

OverlapInit == IngestInit /\ raced = {}

OverlapNext ==
  /\ IngestNext
  /\ raced' = raced \cup {l \in Leads : \E v, w \in Running(l)' : v # w}

OverlapSpec == OverlapInit /\ [][OverlapNext]_overlapVars
-----------------------------------------------------------------------------
(***************************************************************************)
(* A processed key means the master's copy is at least as new as that      *)
(* version, unless handlers of the lead overlapped: the comparison of      *)
(* versions in the handlers drops what is stale, in whatever order the     *)
(* versions come.                                                          *)
(***************************************************************************)
ProcessedIsCurrent ==
  \A k \in processed :
    FormOf[k[1]] \in masterForms /\ k[1] \notin raced =>
      masterLead[k[1]].ver >= k[2]

(***************************************************************************)
(* The copy of a lead never goes back to an older version, except that its *)
(* form's deletion removes it, or that handlers of the lead overlapped.    *)
(***************************************************************************)
VersionNeverRegresses ==
  [][\A l \in Leads \ raced : \/ masterLead'[l].ver >= masterLead[l].ver
                              \/ FormOf[l] \notin masterForms']_overlapVars

(***************************************************************************)
(* The leads of a form without payment are sent to the webhook once, not   *)
(* once per version, unless handlers of the lead overlapped.               *)
(***************************************************************************)
LeadNotifiedOnce ==
  \A l \in Leads \ raced :
    ~IsPaid(l) => notified[<<l, 1>>] + notified[<<l, 2>>] <= 1
-----------------------------------------------------------------------------
Past == {"pay", "mark"}

(* The handlers of a lead that is not in raced: at most one at a time.     *)
OneHandler ==
  \A v, w \in Workers :
    pc[v] # "idle" /\ pc[w] # "idle" /\ msg[v].lead = msg[w].lead /\ v # w =>
      msg[v].lead \in raced

(* What such a handler read of the lead's row is still there when it       *)
(* writes, and its version or a newer one is there from then on.           *)
ReadIsCurrent(w) ==
  LET l == msg[w].lead
  IN  pc[w] # "idle" /\ l \notin raced /\ FormOf[l] \in masterForms =>
        /\ pc[w] = "store" => /\ seen[w] = masterLead[l].ver
                              /\ IsNewer(msg[w], seen[w])
        /\ pc[w] \in Past => masterLead[l].ver >= msg[w].ver

Silent(l) == \A v \in Versions : notified[<<l, v>>] = 0

(* Why a lead without payment is notified once: a lead that was notified   *)
(* has a row, and whoever would notify it has read none.                   *)
NotifiedHasRow ==
  \A l \in Leads \ raced :
    FormOf[l] \in masterForms /\ ~IsPaid(l) /\ masterLead[l] = NoRow => Silent(l)

FirstNotifies(w) ==
  LET l == msg[w].lead
  IN  pc[w] # "idle" /\ l \notin raced /\ ~IsPaid(l) =>
        /\ pc[w] = "store" /\ seen[w] = 0 /\ FormOf[l] \in masterForms => Silent(l)
        /\ pc[w] \in Past /\ seen[w] = 0 => Silent(l)
        /\ pc[w] = "dispatch" => Silent(l)

(***************************************************************************)
(* The inductive invariant of the handlers of one lead.                    *)
(***************************************************************************)
OverlapInv ==
  /\ IngestInv
  /\ raced \subseteq Leads
  /\ OneHandler
  /\ \A w \in Workers : ReadIsCurrent(w) /\ FirstNotifies(w)
  /\ NotifiedHasRow
  /\ ProcessedIsCurrent
  /\ LeadNotifiedOnce
=============================================================================
