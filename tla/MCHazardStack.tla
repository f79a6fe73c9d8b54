--------------------------- MODULE MCHazardStack ---------------------------
(* Instances of HazardStack for TLC. *)
EXTENDS HazardStack, TLC

Symmetry == Permutations(Threads) \union Permutations(Nodes)

=============================================================================
