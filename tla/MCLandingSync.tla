---------------------------- MODULE MCLandingSync ----------------------------
(* Small instances of LandingSync. *)
EXTENDS LandingSync, TLC

Symmetry == Permutations(Packages) \cup Permutations(Requests)
=============================================================================
