--------------------------- MODULE MCConfigCache ---------------------------
(* Requests are alike, and so are the admin panel's handlers.              *)
EXTENDS ConfigCache, TLC

MCSymmetry == Permutations(Workers) \cup Permutations(Admins)
=============================================================================
