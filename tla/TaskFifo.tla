----------------------------- MODULE TaskFifo -----------------------------
(***************************************************************************)
(* What a bounded queue of tasks promises its callers: tasks leave it in   *)
(* the order they entered, each of them once, one or several at a time,    *)
(* and never more than Capacity of them are inside.  The work-stealing     *)
(* ring buffer is shown to implement it.                                   *)
(***************************************************************************)
EXTENDS Integers, Sequences

CONSTANT Capacity

VARIABLES
  queue,   \* the tasks inside
  taken    \* the tasks that left, in order

Init == queue = <<>> /\ taken = <<>>

\* Tasks are numbered in the order they are pushed.
Push ==
  /\ Len(queue) < Capacity
  /\ queue' = Append(queue, Len(taken) + Len(queue))
  /\ UNCHANGED taken

Take ==
  \E k \in 1 .. Len(queue) :
    /\ taken' = taken \o SubSeq(queue, 1, k)
    /\ queue' = SubSeq(queue, k + 1, Len(queue))

Next == Push \/ Take

Spec == Init /\ [][Next]_<<queue, taken>>

=============================================================================
