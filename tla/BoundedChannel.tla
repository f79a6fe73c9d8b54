-------------------------- MODULE BoundedChannel --------------------------
(***************************************************************************)
(* What a buffered channel promises (fiber/sync/channel/buffered.hpp, after *)
(* Go's buffered channels): a FIFO buffer of at most Capacity values; Send  *)
(* appends one, Recv takes the oldest.                                      *)
(***************************************************************************)
EXTENDS Integers, Sequences

CONSTANTS Capacity, Value

VARIABLES
  contents,   \* the values in the channel, oldest first
  received    \* the values Recv returned, in order

Init == contents = <<>> /\ received = <<>>

Send ==
  /\ Len(contents) < Capacity
  /\ \E v \in Value : contents' = Append(contents, v)
  /\ UNCHANGED received

Recv ==
  /\ contents # <<>>
  /\ received' = Append(received, Head(contents))
  /\ contents' = Tail(contents)

Next == Send \/ Recv

Spec == Init /\ [][Next]_<<contents, received>>

=============================================================================
