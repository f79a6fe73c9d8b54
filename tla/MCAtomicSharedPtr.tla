------------------------- MODULE MCAtomicSharedPtr -------------------------
(* Instances of AtomicSharedPtr for TLC. *)
EXTENDS AtomicSharedPtr, TLC

Symmetry == Permutations(Threads) \union Permutations(Blocks)

=============================================================================
