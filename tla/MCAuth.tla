------------------------------- MODULE MCAuth -------------------------------
(* Small instances of Auth for TLC. *)
EXTENDS Auth, TLC

Symmetry == Permutations(Tokens) \cup Permutations(Requests)
=============================================================================
