-------------------------- MODULE BufferedChannel --------------------------
(***************************************************************************)
(* BufferedChannelState (fiber/sync/channel/buffered.hpp): a ring of        *)
(* Capacity + 1 slots under a spinlock, with a queue of parked senders and  *)
(* one of parked receivers.                                                 *)
(*                                                                          *)
(* A fiber that finds the channel full (or empty) suspends while it holds   *)
(* lock_; the awaiter, which the worker runs after it switched the fiber    *)
(* out, parks the fiber and only then unlocks.  A woken fiber competes for  *)
(* lock_ with everybody else and tests the condition again.                 *)
(*                                                                          *)
(* What runs between lock_.lock() and lock_.unlock() or Suspend is one      *)
(* step: it touches nothing but what lock_ protects.                        *)
(***************************************************************************)
EXTENDS Integers, Sequences, FiniteSets

CONSTANTS
  Producers,    \* fibers that call Send
  Consumers,    \* fibers that call Recv
  Capacity,     \* capacity_
  SendsEach,    \* bound: calls of Send by a producer
  RecvsEach,    \* bound: calls of Recv by a consumer
  Nobody,       \* lock_ is free
  Moved         \* what std::move leaves behind in a slot

Fibers == Producers \union Consumers
Value == Producers \X (1 .. SendsEach)   \* told apart by the call of Send
Quota(f) == IF f \in Producers THEN SendsEach ELSE RecvsEach

ASSUME CapacityAssumption == Capacity \in Nat \ {0}   \* "`capacity` > 0"
ASSUME FibersAssumption ==
  /\ IsFiniteSet(Fibers) /\ Producers \intersect Consumers = {}
  /\ Nobody \notin Fibers
ASSUME QuotaAssumption == SendsEach \in Nat /\ RecvsEach \in Nat
ASSUME MovedAssumption == Moved \notin Value

VARIABLES
  lock,        \* who holds lock_
  senders,     \* senders_
  recvs,       \* recvs_
  head, tail,  \* head_, tail_
  data,        \* data_: slot i is data[i + 1]
  pc,          \* "idle", "critical" (holds lock_), "suspending" (switched out,
               \* the awaiter has not run yet), "parked" or "woken"
  todo,        \* calls a fiber has still to complete
  received     \* history: the values Recv returned

vars == <<lock, senders, recvs, head, tail, data, pc, todo, received>>

Init ==
  /\ lock = Nobody
  /\ senders = <<>> /\ recvs = <<>>
  /\ head = 0 /\ tail = 0 /\ data = <<>>
  /\ pc = [f \in Fibers |-> "idle"]
  /\ todo = [f \in Fibers |-> Quota(f)]
  /\ received = <<>>

NextSlot(p) == (p + 1) % (Capacity + 1)      \* Next
IsEmpty == tail = head
IsFullNoWrap == tail + 1 = head                              \* mutant
IsFull == NextSlot(tail) = head

\* lock_.lock(), at the start of a call or after a suspension.
Lock(f) ==
  /\ pc[f] = "woken" \/ (pc[f] = "idle" /\ todo[f] > 0)
  /\ lock = Nobody
  /\ lock' = f
  /\ pc' = [pc EXCEPT ![f] = "critical"]
  /\ UNCHANGED <<senders, recvs, head, tail, data, todo, received>>

\* Suspend(awaiter) with lock_ held.
SpinFull(f) ==                                              \* mutant
  /\ f \in Producers /\ pc[f] = "critical"
  /\ IsFull
  /\ UNCHANGED vars
SuspendFull(f) ==
  /\ f \in Producers /\ pc[f] = "critical"
  /\ IsFull
  /\ pc' = [pc EXCEPT ![f] = "suspending"]
  /\ UNCHANGED <<lock, senders, recvs, head, tail, data, todo, received>>

SuspendEmptyUnlocked(f) ==                                  \* mutant
  /\ f \in Consumers /\ pc[f] = "critical"
  /\ IsEmpty
  /\ lock' = Nobody
  /\ pc' = [pc EXCEPT ![f] = "suspending"]
  /\ UNCHANGED <<senders, recvs, head, tail, data, todo, received>>
SuspendEmpty(f) ==
  /\ f \in Consumers /\ pc[f] = "critical"
  /\ IsEmpty
  /\ pc' = [pc EXCEPT ![f] = "suspending"]
  /\ UNCHANGED <<lock, senders, recvs, head, tail, data, todo, received>>

\* The awaiters.
ParkSender(f) ==
  /\ f \in Producers /\ pc[f] = "suspending"
  /\ senders' = Append(senders, f)
  /\ lock' = Nobody
  /\ pc' = [pc EXCEPT ![f] = "parked"]
  /\ UNCHANGED <<recvs, head, tail, data, todo, received>>

ParkReceiver(f) ==
  /\ f \in Consumers /\ pc[f] = "suspending"
  /\ recvs' = Append(recvs, f)
  /\ lock' = Nobody
  /\ pc' = [pc EXCEPT ![f] = "parked"]
  /\ UNCHANGED <<senders, head, tail, data, todo, received>>

\* data_ grows to Capacity + 1 elements, then slots are reused.
Place(v) ==
  IF Len(data) < Capacity + 1 THEN Append(data, v) ELSE [data EXCEPT ![tail + 1] = v]

\* pc after f schedules the first fiber of a waiters queue and returns.
LeaveAndWake(f, queue) ==
  IF queue = <<>> THEN [pc EXCEPT ![f] = "idle"]
  ELSE [pc EXCEPT ![f] = "idle", ![Head(queue)] = "woken"]

PopWaiter(queue) == IF queue = <<>> THEN queue ELSE Tail(queue)

Send(f) ==
  /\ f \in Producers /\ pc[f] = "critical"
  /\ ~IsFull
  /\ data' = Place(<<f, todo[f]>>)
  /\ tail' = NextSlot(tail)
  /\ pc' = LeaveAndWake(f, recvs)
  /\ recvs' = PopWaiter(recvs)
  /\ lock' = Nobody
  /\ todo' = [todo EXCEPT ![f] = @ - 1]
  /\ UNCHANGED <<senders, head, received>>

Recv(f) ==
  /\ f \in Consumers /\ pc[f] = "critical"
  /\ ~IsEmpty
  /\ received' = Append(received, data[head + 1])
  /\ data' = [data EXCEPT ![head + 1] = Moved]
  /\ head' = NextSlot(head)
  /\ pc' = LeaveAndWake(f, senders)
  /\ senders' = PopWaiter(senders)
  /\ lock' = Nobody
  /\ todo' = [todo EXCEPT ![f] = @ - 1]
  /\ UNCHANGED <<recvs, tail>>

\* All calls have returned.
Finished ==
  /\ \A f \in Fibers : pc[f] = "idle" /\ todo[f] = 0
  /\ UNCHANGED vars

Step(f) ==
  \/ Lock(f)
  \/ SuspendFull(f) \/ ParkSender(f) \/ Send(f)
  \/ SuspendEmpty(f) \/ ParkReceiver(f) \/ Recv(f)

Next == (\E f \in Fibers : Step(f)) \/ Finished

\* A runnable fiber is run by some worker, and a fiber that spins on lock_
\* gets it if it stays free.
Fairness == \A f \in Fibers : WF_vars(Step(f))

Spec == Init /\ [][Next]_vars
FairSpec == Spec /\ Fairness

-----------------------------------------------------------------------------
(* Properties. *)

\* Types: data_ never outgrows its capacity_ + 1 reserved elements, nobody
\* takes more turns than it has calls, and Recv only returns values that were
\* sent, never a moved-from slot.
TypeOK ==
  /\ lock \in Fibers \union {Nobody}
  /\ senders \in Seq(Producers) /\ recvs \in Seq(Consumers)
  /\ head \in 0 .. Capacity /\ tail \in 0 .. Capacity
  /\ data \in Seq(Value \union {Moved}) /\ Len(data) <= Capacity + 1
  /\ pc \in [Fibers -> {"idle", "critical", "suspending", "parked", "woken"}]
  /\ todo \in [Fibers -> Nat] /\ \A f \in Fibers : todo[f] <= Quota(f)
  /\ received \in Seq(Value)

\* Number of values in the channel.
Count == IF tail >= head THEN tail - head ELSE tail + Capacity + 1 - head

\* Fibers that are about to test the condition (again) under lock_.
Active(fibers) == {f \in fibers : pc[f] \in {"woken", "critical"}}

\* No lost wakeup, although one wakeup is sent per value and any fiber may
\* steal the value from the one that was woken for it: while a receiver is
\* parked, every value in the channel has a receiver on its way to it, and
\* while a sender is parked every free slot has a sender on its way.
NoLostWakeup ==
  /\ recvs # <<>> => Count <= Cardinality(Active(Consumers))
  /\ senders # <<>> => Capacity - Count <= Cardinality(Active(Producers))

\* The i-th value in the channel: slots are taken from head_ on, around the ring.
At(i) ==
  LET p == head + i - 1
  IN  IF p <= Capacity THEN data[p + 1] ELSE data[p - Capacity]

\* The ring under the spinlock implements a bounded FIFO channel.
Channel == INSTANCE BoundedChannel WITH contents <- [i \in 1 .. Count |-> At(i)]
ImplementsChannel == Channel!Spec

\* When as many values are received as are sent, every call returns.
EveryCallReturns == <>[](\A f \in Fibers : pc[f] = "idle" /\ todo[f] = 0)

=============================================================================
