------------------------------ MODULE MCLatch ------------------------------
(* Instances of Latch for TLC. *)
EXTENDS Latch

=============================================================================
