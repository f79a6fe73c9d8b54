------------------------ MODULE MCBufferedChannel ------------------------
(* Instances of BufferedChannel for TLC. *)
EXTENDS BufferedChannel, TLC

=============================================================================
