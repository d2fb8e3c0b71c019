----------------------------- MODULE MCBilling -----------------------------
(* Billing on small tables. *)
EXTENDS Billing, TLC

\* Requests are alike.
Symmetry == Permutations(Requests)
=============================================================================
