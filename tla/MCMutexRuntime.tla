-------------------------- MODULE MCMutexRuntime --------------------------
(* Instances of MutexRuntime, and with it of FifoMutex and FiberRuntime, for TLC. *)
EXTENDS MutexRuntime

=============================================================================
