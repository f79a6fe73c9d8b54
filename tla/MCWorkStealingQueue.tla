----------------------- MODULE MCWorkStealingQueue -----------------------
(* Instances of WorkStealingQueue for TLC. *)
EXTENDS WorkStealingQueue, TLC

\* The thieves run the same code and are told apart by no property.
ThiefSymmetry == Permutations(Thieves)

=============================================================================
