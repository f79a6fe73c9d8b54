------------------------- MODULE CriticalSections -------------------------
(***************************************************************************)
(* What mutual exclusion with delegation promises (fiber/sync/strand.hpp):  *)
(* each call has its critical section run exactly once, by anybody, between *)
(* the call and its return, and no two sections overlap.                    *)
(***************************************************************************)
EXTENDS Integers

CONSTANTS Fibers, Nil

VARIABLES
  call,      \* "none", "pending" (section not finished) or "served"
  running    \* whose section is running

Init ==
  /\ call = [f \in Fibers |-> "none"]
  /\ running = Nil

Invoke(f) ==
  /\ call[f] = "none"
  /\ call' = [call EXCEPT ![f] = "pending"]
  /\ UNCHANGED running

Enter(f) ==
  /\ call[f] = "pending" /\ running = Nil
  /\ running' = f
  /\ UNCHANGED call

Leave(f) ==
  /\ running = f
  /\ running' = Nil
  /\ call' = [call EXCEPT ![f] = "served"]

Return(f) ==
  /\ call[f] = "served"
  /\ call' = [call EXCEPT ![f] = "none"]
  /\ UNCHANGED running

Next == \E f \in Fibers : Invoke(f) \/ Enter(f) \/ Leave(f) \/ Return(f)

Spec == Init /\ [][Next]_<<call, running>>

=============================================================================
