---------------------------- MODULE MCFastPool ----------------------------
(* TLC instances of FastPool. *)
EXTENDS FastPool, TLC

Symmetry == Permutations(Workers)

=============================================================================
