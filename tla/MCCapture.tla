------------------------------- MODULE MCCapture -------------------------------
(***************************************************************************)
(* Small instances of the two components that handle one lead on one       *)
(* installation: its one-time code and payment offer (OtpVerification) and *)
(* its sending to the webhook (WebhookDispatch).  They share no state; a   *)
(* behaviour is one of the one or of the other, as `part` says.            *)
(***************************************************************************)
EXTENDS OtpVerification, TLC

CONSTANTS HookLeads, Runs, MaxRuns, MaxDbErrors, MaxRestarts

VARIABLES
  part, status, count, log, pc, lead, tries, good, accepted, lost, started,
  overlapped, disturbed, dbErrors, restarts

Hook == INSTANCE WebhookDispatch WITH Leads <- HookLeads

ASSUME HookAssumption == Hook!DispatchAssumption

hookVars == <<status, count, log, pc, lead, tries, good, accepted, lost,
              started, overlapped, disturbed, dbErrors, restarts>>

PartInit == part \in {"otp", "webhook"} /\ Init /\ Hook!Init

OtpPart     == part = "otp" /\ Next /\ UNCHANGED hookVars
WebhookPart == part = "webhook" /\ Hook!Next /\ UNCHANGED vars

PartNext == UNCHANGED part /\ (OtpPart \/ WebhookPart)

PartSpec == PartInit /\ [][PartNext]_<<part, vars, hookVars>>

Symmetry == Permutations(Calls) \cup Permutations(Leads) \cup Permutations(Runs)

(* WebhookDispatch's UndeliveredIsListed: a lead that the receiver never   *)
(* took is listed as failed when its runs are over.                        *)
HookUndeliveredIsListed == Hook!UndeliveredIsListed

(* WebhookDispatch's RepeatsAreAccounted: the receiver gets a lead more    *)
(* than once per run only if its answer was lost.                          *)
HookRepeatsAreAccounted == Hook!RepeatsAreAccounted
=============================================================================
