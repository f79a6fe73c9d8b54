----------------------------- MODULE FifoLock -----------------------------
(***************************************************************************)
(* What a fair mutex promises: one owner at a time, and the lock is handed  *)
(* to those who wait for it in the order in which they came; nobody who     *)
(* only tries can get in before them.                                       *)
(***************************************************************************)
EXTENDS Integers, Sequences

CONSTANTS Fibers, Nobody

VARIABLES
  owner,     \* who has the lock
  queue      \* who waits for it, first come first

Init == owner = Nobody /\ queue = <<>>

Acquire(f) == owner = Nobody /\ owner' = f /\ UNCHANGED queue

Enqueue(f) == owner # Nobody /\ queue' = Append(queue, f) /\ UNCHANGED owner

Release ==
  /\ owner # Nobody
  /\ owner' = IF queue = <<>> THEN Nobody ELSE Head(queue)
  /\ queue' = IF queue = <<>> THEN queue ELSE Tail(queue)

Next == Release \/ \E f \in Fibers : Acquire(f) \/ Enqueue(f)

Spec == Init /\ [][Next]_<<owner, queue>>

=============================================================================
