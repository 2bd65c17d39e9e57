----------------------------- MODULE MCBilling ------------------------------
(* TLC instances of Billing. *)
EXTENDS Billing, TLC

Symmetry == Permutations(Servers) \cup Permutations(Admins)
=============================================================================
