-------------------------- MODULE IdempotentInbox --------------------------
(***************************************************************************)
(* What the receiving side of the synchronisation promises, whatever the   *)
(* transport does: a key is accepted once, and the outside effect of a key *)
(* is performed at most once and only after the key was accepted.          *)
(***************************************************************************)
EXTENDS Naturals

CONSTANT Keys

VARIABLES
  accepted,   \* the keys recorded as handled
  effects     \* how often the effect of each key was performed

vars == <<accepted, effects>>

Init ==
  /\ accepted = {}
  /\ effects = [k \in Keys |-> 0]

Accept(k) ==
  /\ k \notin accepted
  /\ accepted' = accepted \cup {k}
  /\ UNCHANGED effects

Perform(k) ==
  /\ k \in accepted
  /\ effects[k] = 0
  /\ effects' = [effects EXCEPT ![k] = 1]
  /\ UNCHANGED accepted

Next == \E k \in Keys : Accept(k) \/ Perform(k)

Spec == Init /\ [][Next]_vars
=============================================================================
