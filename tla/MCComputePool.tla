--------------------------- MODULE MCComputePool ---------------------------
(* Instances of ComputePool for TLC. *)
EXTENDS ComputePool

=============================================================================
