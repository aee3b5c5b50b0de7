------------------------------- MODULE MCCache ------------------------------
(* An instance of Cache for TLC. *)
EXTENDS Cache, TLC

Symmetry == Permutations(Urls) \cup Permutations(Keys)
============================================================================
