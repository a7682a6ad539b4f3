--------------------------- MODULE MCPaymentVerify ---------------------------
(* Small instances of PaymentVerify. *)
EXTENDS PaymentVerify, TLC

Symmetry == Permutations(Callbacks)
=============================================================================
