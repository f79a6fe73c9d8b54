----------------------- MODULE BufferedChannelProofs -----------------------
(***************************************************************************)
(* Proofs about BufferedChannel, for every number of fibers, capacity and   *)
(* number of calls.                                                         *)
(*                                                                          *)
(* NoLostWakeup counts, on purpose, every fiber on its way to the test and  *)
(* not only the woken ones: "some receiver is coming" is not inductive,     *)
(* since that receiver may take one value and leave the next one behind.    *)
(* The rest of the inductive invariant says that the ring is a window of    *)
(* Count sent values, that lock_ is held by at most one fiber, that a fiber *)
(* suspends only while its condition holds, and that the waiters queues     *)
(* hold parked fibers, each once.                                           *)
(***************************************************************************)
EXTENDS BufferedChannel, FiniteSetTheorems, SequenceTheorems, TLAPS

\* data_ is filled in order before any slot is reused, and the slots from
\* head_ to tail_ hold values that were sent.
RingInv ==
  /\ Len(data) < Capacity + 1 => tail = Len(data) /\ head <= tail
  /\ \A i \in 1 .. Count : At(i) \in Value

\* lock_ is held from lock() to unlock(), across the suspension.
LockInv ==
  /\ \A f \in Fibers : pc[f] \in {"critical", "suspending"} <=> lock = f
  /\ \A f \in Fibers : pc[f] # "idle" => todo[f] > 0
  /\ \A f \in Producers : pc[f] = "suspending" => IsFull
  /\ \A f \in Consumers : pc[f] = "suspending" => IsEmpty

Parked(queue) ==
  /\ \A i \in 1 .. Len(queue) : pc[queue[i]] = "parked"
  /\ \A i, j \in 1 .. Len(queue) : queue[i] = queue[j] => i = j

QueueInv == Parked(senders) /\ Parked(recvs)

IndInv == TypeOK /\ RingInv /\ LockInv /\ QueueInv /\ NoLostWakeup

-----------------------------------------------------------------------------
(* Arithmetic of the ring. *)

\* Next steps around the ring.
LEMMA NextSlotWraps ==
  \A p \in 0 .. Capacity : NextSlot(p) = IF p = Capacity THEN 0 ELSE p + 1
<1> SUFFICES ASSUME NEW p \in 0 .. Capacity
             PROVE  NextSlot(p) = IF p = Capacity THEN 0 ELSE p + 1
  OBVIOUS
<1>1. CASE p = Capacity
  <2>1. (p + 1) % (Capacity + 1) = 0
    BY <1>1, CapacityAssumption, SMT
  <2> QED BY <2>1, <1>1 DEF NextSlot
<1>2. CASE p # Capacity
  <2>1. p + 1 \in 0 .. Capacity
    BY <1>2, CapacityAssumption
  <2>2. (p + 1) % (Capacity + 1) = p + 1
    BY <2>1, CapacityAssumption, SMT
  <2> QED BY <2>2, <1>2 DEF NextSlot
<1> QED BY <1>1, <1>2

\* IsFull and IsEmpty are the two extremes of Count.
LEMMA CountRange ==
  ASSUME TypeOK
  PROVE  /\ Count \in 0 .. Capacity
         /\ IsFull <=> Count = Capacity
         /\ IsEmpty <=> Count = 0
<1>1. head \in 0 .. Capacity /\ tail \in 0 .. Capacity
  BY DEF TypeOK
<1>2. NextSlot(tail) = IF tail = Capacity THEN 0 ELSE tail + 1
  BY <1>1, NextSlotWraps
<1> QED BY <1>1, <1>2, CapacityAssumption DEF Count, IsFull, IsEmpty

-----------------------------------------------------------------------------
(* The fibers on their way to the condition. *)

LEMMA ActiveFinite ==
  ASSUME NEW S, S \subseteq Fibers
  PROVE  IsFiniteSet(Active(S)) /\ Cardinality(Active(S)) \in Nat
<1>1. Active(S) \subseteq Fibers
  BY DEF Active
<1> QED BY <1>1, FibersAssumption, FS_Subset, FS_CardinalityType

\* A fiber joins, the others stay.
LEMMA ActiveJoins ==
  ASSUME NEW S, S \subseteq Fibers, NEW T, NEW f, f \notin Active(S),
         T = Active(S) \union {f}
  PROVE  Cardinality(T) = Cardinality(Active(S)) + 1
BY ActiveFinite, FS_AddElement

\* A fiber leaves, the others stay.
LEMMA ActiveLeaves ==
  ASSUME NEW S, S \subseteq Fibers, NEW T, NEW f \in Active(S),
         T = Active(S) \ {f}
  PROVE  Cardinality(T) = Cardinality(Active(S)) - 1
BY ActiveFinite, FS_RemoveElement

-----------------------------------------------------------------------------
(* Every step preserves the invariant. *)

\* The ring does not move: neither do its invariant and its tests.
LEMMA RingFrame ==
  ASSUME UNCHANGED <<head, tail, data>>
  PROVE  /\ RingInv => RingInv'
         /\ Count' = Count /\ IsFull' = IsFull /\ IsEmpty' = IsEmpty
<1>1. Count' = Count /\ IsFull' = IsFull /\ IsEmpty' = IsEmpty
  BY DEF Count, IsFull, IsEmpty, NextSlot
<1>2. \A i : At(i)' = At(i)
  BY DEF At
<1> QED BY <1>1, <1>2 DEF RingInv

\* No parked fiber is touched and the queue is the same.
LEMMA ParkedFrame ==
  ASSUME NEW S, NEW q \in Seq(S), Parked(q),
         \A g \in S : pc[g] = "parked" => pc'[g] = "parked"
  PROVE  /\ \A i \in 1 .. Len(q) : pc'[q[i]] = "parked"
         /\ \A i, j \in 1 .. Len(q) : q[i] = q[j] => i = j
<1>1. \A i \in 1 .. Len(q) : q[i] \in S
  BY ElementOfSeq
<1> QED BY <1>1 DEF Parked

LEMMA InitInv == Init => IndInv
<1> SUFFICES ASSUME Init PROVE IndInv
  OBVIOUS
<1>1. TypeOK
  BY CapacityAssumption, QuotaAssumption DEF Init, TypeOK, Quota
<1>2. Count = 0 /\ Len(data) = 0 /\ Len(senders) = 0 /\ Len(recvs) = 0
  BY DEF Init, Count
<1>3. RingInv
  BY <1>2 DEF RingInv, Init
<1>4. LockInv
  BY FibersAssumption DEF LockInv, Init, Fibers
<1>5. QueueInv
  BY <1>2 DEF QueueInv, Parked
<1>6. NoLostWakeup
  BY DEF NoLostWakeup, Init
<1> QED BY <1>1, <1>3, <1>4, <1>5, <1>6 DEF IndInv

\* lock(): more fibers are active, nothing else changes.
LEMMA LockInvariant ==
  ASSUME IndInv, NEW f \in Fibers, Lock(f)
  PROVE  IndInv'
<1>1. pc \in [Fibers -> {"idle", "critical", "suspending", "parked", "woken"}]
  BY DEF IndInv, TypeOK
<1>2. pc' = [pc EXCEPT ![f] = "critical"] /\ lock = Nobody /\ lock' = f
      /\ pc[f] \in {"woken", "idle"} /\ (pc[f] = "idle" => todo[f] > 0)
  BY DEF Lock
<1>3. UNCHANGED <<senders, recvs, head, tail, data, todo, received>>
  BY DEF Lock
<1>4. TypeOK'
  BY <1>1, <1>2, <1>3 DEF IndInv, TypeOK
<1>5. RingInv' /\ Count' = Count /\ IsFull' = IsFull /\ IsEmpty' = IsEmpty
  BY <1>3, RingFrame DEF IndInv
<1>6. LockInv'
  BY <1>1, <1>2, <1>3, <1>5, FibersAssumption DEF IndInv, LockInv, Fibers
<1>7. \A g \in Fibers : pc[g] = "parked" => pc'[g] = "parked"
  BY <1>1, <1>2
<1>8. senders \in Seq(Producers) /\ recvs \in Seq(Consumers)
      /\ Parked(senders) /\ Parked(recvs)
  BY DEF IndInv, TypeOK, QueueInv
<1>9. QueueInv'
  BY <1>3, <1>7, <1>8, ParkedFrame DEF QueueInv, Parked, Fibers
<1>10. ASSUME NEW S, S \subseteq Fibers
       PROVE  Cardinality(Active(S)) <= Cardinality(Active(S)')
  <2>1. Active(S) \subseteq Active(S)' /\ Active(S)' \subseteq Fibers
    BY <1>1, <1>2, <1>10 DEF Active
  <2> QED BY <2>1, FibersAssumption, FS_Subset
<1>11. ASSUME NEW S, S \subseteq Fibers
       PROVE  Cardinality(Active(S)) \in Nat /\ Cardinality(Active(S)') \in Nat
  <2>1. Active(S)' \subseteq Fibers
    BY <1>11 DEF Active
  <2> QED BY <2>1, <1>11, ActiveFinite, FibersAssumption, FS_Subset, FS_CardinalityType
<1>12. Count \in 0 .. Capacity
  BY CountRange DEF IndInv
<1>13. NoLostWakeup'
  <2>1. /\ Cardinality(Active(Consumers)) <= Cardinality(Active(Consumers)')
        /\ Cardinality(Active(Producers)) <= Cardinality(Active(Producers)')
        /\ Cardinality(Active(Consumers)) \in Nat /\ Cardinality(Active(Consumers)') \in Nat
        /\ Cardinality(Active(Producers)) \in Nat /\ Cardinality(Active(Producers)') \in Nat
    BY <1>10, <1>11 DEF Fibers
  <2> QED BY <2>1, <1>3, <1>5, <1>12, CapacityAssumption DEF IndInv, NoLostWakeup
<1> QED BY <1>4, <1>5, <1>6, <1>9, <1>13 DEF IndInv

\* Suspend with lock_ held: the fiber that leaves Active(Producers) does so while its
\* condition holds, so that its half of NoLostWakeup asks for nobody.
LEMMA SuspendFullInvariant ==
  ASSUME IndInv, NEW f \in Fibers, SuspendFull(f)
  PROVE  IndInv'
<1>1. pc \in [Fibers -> {"idle", "critical", "suspending", "parked", "woken"}]
  BY DEF IndInv, TypeOK
<1>2. pc' = [pc EXCEPT ![f] = "suspending"] /\ f \in Producers /\ pc[f] = "critical" /\ IsFull
  BY DEF SuspendFull
<1>3. UNCHANGED <<lock, senders, recvs, head, tail, data, todo, received>>
  BY DEF SuspendFull
<1>4. TypeOK'
  BY <1>1, <1>2, <1>3 DEF IndInv, TypeOK
<1>5. RingInv' /\ Count' = Count /\ IsFull' = IsFull /\ IsEmpty' = IsEmpty
  BY <1>3, RingFrame DEF IndInv
<1>6. LockInv'
  BY <1>1, <1>2, <1>3, <1>5, FibersAssumption DEF IndInv, LockInv, Fibers
<1>7. \A g \in Fibers : pc[g] = "parked" => pc'[g] = "parked"
  BY <1>1, <1>2
<1>8. senders \in Seq(Producers) /\ recvs \in Seq(Consumers)
      /\ Parked(senders) /\ Parked(recvs)
  BY DEF IndInv, TypeOK, QueueInv
<1>9. QueueInv'
  BY <1>3, <1>7, <1>8, ParkedFrame DEF QueueInv, Parked, Fibers
<1>10. Count \in 0 .. Capacity /\ (IsFull <=> Count = Capacity) /\ (IsEmpty <=> Count = 0)
  BY CountRange DEF IndInv
<1>11. Active(Consumers)' = Active(Consumers)
  BY <1>1, <1>2, FibersAssumption DEF Active, Fibers
<1>12. Cardinality(Active(Producers)') \in Nat
  <2>1. Active(Producers)' \subseteq Fibers
    BY DEF Active, Fibers
  <2> QED BY <2>1, FibersAssumption, FS_Subset, FS_CardinalityType
<1>13. NoLostWakeup'
  BY <1>2, <1>3, <1>5, <1>10, <1>11, <1>12, CapacityAssumption DEF IndInv, NoLostWakeup
<1> QED BY <1>4, <1>5, <1>6, <1>9, <1>13 DEF IndInv

\* The same for a receiver that finds the channel empty.
LEMMA SuspendEmptyInvariant ==
  ASSUME IndInv, NEW f \in Fibers, SuspendEmpty(f)
  PROVE  IndInv'
<1>1. pc \in [Fibers -> {"idle", "critical", "suspending", "parked", "woken"}]
  BY DEF IndInv, TypeOK
<1>2. pc' = [pc EXCEPT ![f] = "suspending"] /\ f \in Consumers /\ pc[f] = "critical" /\ IsEmpty
  BY DEF SuspendEmpty
<1>3. UNCHANGED <<lock, senders, recvs, head, tail, data, todo, received>>
  BY DEF SuspendEmpty
<1>4. TypeOK'
  BY <1>1, <1>2, <1>3 DEF IndInv, TypeOK
<1>5. RingInv' /\ Count' = Count /\ IsFull' = IsFull /\ IsEmpty' = IsEmpty
  BY <1>3, RingFrame DEF IndInv
<1>6. LockInv'
  BY <1>1, <1>2, <1>3, <1>5, FibersAssumption DEF IndInv, LockInv, Fibers
<1>7. \A g \in Fibers : pc[g] = "parked" => pc'[g] = "parked"
  BY <1>1, <1>2
<1>8. senders \in Seq(Producers) /\ recvs \in Seq(Consumers)
      /\ Parked(senders) /\ Parked(recvs)
  BY DEF IndInv, TypeOK, QueueInv
<1>9. QueueInv'
  BY <1>3, <1>7, <1>8, ParkedFrame DEF QueueInv, Parked, Fibers
<1>10. Count \in 0 .. Capacity /\ (IsFull <=> Count = Capacity) /\ (IsEmpty <=> Count = 0)
  BY CountRange DEF IndInv
<1>11. Active(Producers)' = Active(Producers)
  BY <1>1, <1>2, FibersAssumption DEF Active, Fibers
<1>12. Cardinality(Active(Consumers)') \in Nat
  <2>1. Active(Consumers)' \subseteq Fibers
    BY DEF Active, Fibers
  <2> QED BY <2>1, FibersAssumption, FS_Subset, FS_CardinalityType
<1>13. NoLostWakeup'
  BY <1>2, <1>3, <1>5, <1>10, <1>11, <1>12, CapacityAssumption DEF IndInv, NoLostWakeup
<1> QED BY <1>4, <1>5, <1>6, <1>9, <1>13 DEF IndInv

\* The awaiter of Send: the queue gets the fiber, which was in no queue, and the
\* condition still holds because lock_ was never released.
LEMMA ParkSenderInvariant ==
  ASSUME IndInv, NEW f \in Fibers, ParkSender(f)
  PROVE  IndInv'
<1>1. pc \in [Fibers -> {"idle", "critical", "suspending", "parked", "woken"}]
  BY DEF IndInv, TypeOK
<1>2. /\ pc' = [pc EXCEPT ![f] = "parked"] /\ f \in Producers /\ pc[f] = "suspending"
      /\ senders' = Append(senders, f) /\ lock' = Nobody
  BY DEF ParkSender
<1>3. UNCHANGED <<recvs, head, tail, data, todo, received>>
  BY DEF ParkSender
<1>4. senders \in Seq(Producers) /\ recvs \in Seq(Consumers)
      /\ Parked(senders) /\ Parked(recvs)
  BY DEF IndInv, TypeOK, QueueInv
<1>5. TypeOK'
  <2>1. senders' \in Seq(Producers)
    BY <1>2, <1>4
  <2> QED BY <1>1, <1>2, <1>3, <2>1 DEF IndInv, TypeOK
<1>6. RingInv' /\ Count' = Count /\ IsFull' = IsFull /\ IsEmpty' = IsEmpty
  BY <1>3, RingFrame DEF IndInv
<1>7. LockInv'
  BY <1>1, <1>2, <1>3, <1>6, FibersAssumption DEF IndInv, LockInv, Fibers
<1>8. \A g \in Fibers : pc[g] = "parked" => pc'[g] = "parked"
  BY <1>1, <1>2
<1>9. Parked(recvs)'
  BY <1>3, <1>4, <1>8, ParkedFrame DEF Parked, Fibers
<1>10. Parked(senders)'
  <2>1. /\ Len(senders') = Len(senders) + 1 /\ Len(senders) \in Nat
        /\ \A i \in 1 .. Len(senders) : senders'[i] = senders[i]
        /\ senders'[Len(senders) + 1] = f
    BY <1>2, <1>4, AppendProperties
  <2>2. \A i \in 1 .. Len(senders) : pc[senders[i]] = "parked" /\ senders[i] \in Producers
    BY <1>4, ElementOfSeq DEF Parked
  <2>3. \A i \in 1 .. Len(senders') : i \in 1 .. Len(senders) \/ i = Len(senders) + 1
    BY <2>1
  <2>4. \A i \in 1 .. Len(senders) : pc'[senders'[i]] = "parked" /\ senders'[i] # f
    BY <2>1, <2>2, <1>1, <1>2, <1>8 DEF Fibers
  <2>5. \A i, j \in 1 .. Len(senders) : senders'[i] = senders'[j] => i = j
    BY <2>1, <1>4 DEF Parked
  <2>6. pc'[f] = "parked"
    BY <1>1, <1>2
  <2>7. \A i \in 1 .. Len(senders') : pc'[senders'[i]] = "parked"
    BY <2>1, <2>3, <2>4, <2>6
  <2>8. \A i, j \in 1 .. Len(senders') : senders'[i] = senders'[j] => i = j
    BY <2>1, <2>3, <2>4, <2>5
  <2> QED BY <2>7, <2>8 DEF Parked
<1>11. Count \in 0 .. Capacity /\ (IsFull <=> Count = Capacity) /\ (IsEmpty <=> Count = 0)
  BY CountRange DEF IndInv
<1>12. IsFull
  BY <1>2 DEF IndInv, LockInv
<1>13. Active(Consumers)' = Active(Consumers) /\ Active(Producers)' = Active(Producers)
  BY <1>1, <1>2 DEF Active, Fibers
<1>14. Cardinality(Active(Producers)) \in Nat
  BY ActiveFinite DEF Fibers
<1>15. NoLostWakeup'
  BY <1>3, <1>6, <1>11, <1>12, <1>13, <1>14, CapacityAssumption DEF IndInv, NoLostWakeup
<1> QED BY <1>5, <1>6, <1>7, <1>9, <1>10, <1>15 DEF IndInv, QueueInv

\* The same for the awaiter of Recv.
LEMMA ParkReceiverInvariant ==
  ASSUME IndInv, NEW f \in Fibers, ParkReceiver(f)
  PROVE  IndInv'
<1>1. pc \in [Fibers -> {"idle", "critical", "suspending", "parked", "woken"}]
  BY DEF IndInv, TypeOK
<1>2. /\ pc' = [pc EXCEPT ![f] = "parked"] /\ f \in Consumers /\ pc[f] = "suspending"
      /\ recvs' = Append(recvs, f) /\ lock' = Nobody
  BY DEF ParkReceiver
<1>3. UNCHANGED <<senders, head, tail, data, todo, received>>
  BY DEF ParkReceiver
<1>4. senders \in Seq(Producers) /\ recvs \in Seq(Consumers)
      /\ Parked(senders) /\ Parked(recvs)
  BY DEF IndInv, TypeOK, QueueInv
<1>5. TypeOK'
  <2>1. recvs' \in Seq(Consumers)
    BY <1>2, <1>4
  <2> QED BY <1>1, <1>2, <1>3, <2>1 DEF IndInv, TypeOK
<1>6. RingInv' /\ Count' = Count /\ IsFull' = IsFull /\ IsEmpty' = IsEmpty
  BY <1>3, RingFrame DEF IndInv
<1>7. LockInv'
  BY <1>1, <1>2, <1>3, <1>6, FibersAssumption DEF IndInv, LockInv, Fibers
<1>8. \A g \in Fibers : pc[g] = "parked" => pc'[g] = "parked"
  BY <1>1, <1>2
<1>9. Parked(senders)'
  BY <1>3, <1>4, <1>8, ParkedFrame DEF Parked, Fibers
<1>10. Parked(recvs)'
  <2>1. /\ Len(recvs') = Len(recvs) + 1 /\ Len(recvs) \in Nat
        /\ \A i \in 1 .. Len(recvs) : recvs'[i] = recvs[i]
        /\ recvs'[Len(recvs) + 1] = f
    BY <1>2, <1>4, AppendProperties
  <2>2. \A i \in 1 .. Len(recvs) : pc[recvs[i]] = "parked" /\ recvs[i] \in Consumers
    BY <1>4, ElementOfSeq DEF Parked
  <2>3. \A i \in 1 .. Len(recvs') : i \in 1 .. Len(recvs) \/ i = Len(recvs) + 1
    BY <2>1
  <2>4. \A i \in 1 .. Len(recvs) : pc'[recvs'[i]] = "parked" /\ recvs'[i] # f
    BY <2>1, <2>2, <1>1, <1>2, <1>8 DEF Fibers
  <2>5. \A i, j \in 1 .. Len(recvs) : recvs'[i] = recvs'[j] => i = j
    BY <2>1, <1>4 DEF Parked
  <2>6. pc'[f] = "parked"
    BY <1>1, <1>2
  <2>7. \A i \in 1 .. Len(recvs') : pc'[recvs'[i]] = "parked"
    BY <2>1, <2>3, <2>4, <2>6
  <2>8. \A i, j \in 1 .. Len(recvs') : recvs'[i] = recvs'[j] => i = j
    BY <2>1, <2>3, <2>4, <2>5
  <2> QED BY <2>7, <2>8 DEF Parked
<1>11. Count \in 0 .. Capacity /\ (IsFull <=> Count = Capacity) /\ (IsEmpty <=> Count = 0)
  BY CountRange DEF IndInv
<1>12. IsEmpty
  BY <1>2 DEF IndInv, LockInv
<1>13. Active(Producers)' = Active(Producers) /\ Active(Consumers)' = Active(Consumers)
  BY <1>1, <1>2 DEF Active, Fibers
<1>14. Cardinality(Active(Consumers)) \in Nat
  BY ActiveFinite DEF Fibers
<1>15. NoLostWakeup'
  BY <1>3, <1>6, <1>11, <1>12, <1>13, <1>14, CapacityAssumption DEF IndInv, NoLostWakeup
<1> QED BY <1>5, <1>6, <1>7, <1>9, <1>10, <1>15 DEF IndInv, QueueInv

-----------------------------------------------------------------------------
(* The ring under Send and Recv. *)

\* Index into data of the i-th value.
Slot(i) == IF head + i - 1 <= Capacity THEN head + i ELSE head + i - 1 - Capacity

\* The window lies inside data_ and ends right before tail_.
LEMMA WindowSlots ==
  ASSUME TypeOK, RingInv
  PROVE  /\ \A i \in Nat : At(i) = data[Slot(i)]
         /\ \A i \in 1 .. Count : Slot(i) \in 1 .. Len(data) /\ Slot(i) # tail + 1
         /\ \A i \in 2 .. Count : Slot(i) # head + 1
         /\ Slot(Count + 1) = tail + 1
         /\ Slot(1) = head + 1
<1>1. head \in 0 .. Capacity /\ tail \in 0 .. Capacity /\ Len(data) \in Nat
      /\ Len(data) <= Capacity + 1
      /\ (Len(data) < Capacity + 1 => tail = Len(data) /\ head <= tail)
  BY LenProperties DEF TypeOK, RingInv
<1>2. \A i \in Nat : At(i) = data[Slot(i)]
  BY <1>1, CapacityAssumption DEF At, Slot
<1> QED BY <1>1, <1>2, CapacityAssumption DEF Count, Slot

\* Send's half: one more value, at the end.
LEMMA PlaceAppends ==
  ASSUME TypeOK, RingInv, ~IsFull, NEW v \in Value, NEW n, n = Count,
         data' = Place(v), tail' = NextSlot(tail), head' = head
  PROVE  /\ data' \in Seq(Value \union {Moved}) /\ Len(data') <= Capacity + 1
         /\ tail' \in 0 .. Capacity
         /\ Len(data') < Capacity + 1 => tail' = Len(data') /\ head' <= tail'
         /\ Count' = Count + 1
         /\ \A i \in 1 .. Count : At(i)' = At(i)
         /\ At(n + 1)' = v
<1>1. /\ head \in 0 .. Capacity /\ tail \in 0 .. Capacity /\ Len(data) \in Nat
      /\ Len(data) <= Capacity + 1 /\ data \in Seq(Value \union {Moved})
      /\ Len(data) < Capacity + 1 => tail = Len(data) /\ head <= tail
  BY LenProperties DEF TypeOK, RingInv
<1>2. NextSlot(tail) = IF tail = Capacity THEN 0 ELSE tail + 1
  BY <1>1, NextSlotWraps
<1>3. /\ data' \in Seq(Value \union {Moved})
      /\ Len(data') = IF Len(data) < Capacity + 1 THEN Len(data) + 1 ELSE Len(data)
      /\ data'[tail + 1] = v
      /\ \A k \in 1 .. Len(data) : k # tail + 1 => data'[k] = data[k]
  <2>1. CASE Len(data) < Capacity + 1
    <3>1. data' = Append(data, v) /\ tail = Len(data)
      BY <1>1, <2>1 DEF Place
    <3> QED BY <1>1, <2>1, <3>1, AppendProperties
  <2>2. CASE ~(Len(data) < Capacity + 1)
    <3>1. data' = [data EXCEPT ![tail + 1] = v] /\ tail + 1 \in 1 .. Len(data)
      BY <1>1, <2>2, CapacityAssumption DEF Place
    <3> QED BY <1>1, <2>2, <3>1
  <2> QED BY <2>1, <2>2
<1>4. /\ Len(data') <= Capacity + 1 /\ tail' \in 0 .. Capacity
      /\ Len(data') < Capacity + 1 => tail' = Len(data') /\ head' <= tail'
  BY <1>1, <1>2, <1>3, CapacityAssumption
<1>5. Count' = Count + 1 /\ Count \in Nat
  BY <1>1, <1>2, CapacityAssumption DEF Count, IsFull
<1>6. \A i \in Nat : At(i) = data[Slot(i)] /\ At(i)' = data'[Slot(i)]
  BY <1>1, CapacityAssumption DEF At, Slot
<1>7. /\ \A i \in 1 .. Count : Slot(i) \in 1 .. Len(data) /\ Slot(i) # tail + 1
      /\ Slot(Count + 1) = tail + 1
  BY WindowSlots
<1>8. \A i \in 1 .. Count : At(i)' = At(i)
  <2>1. \A i \in 1 .. Count : i \in Nat
    BY <1>5
  <2> QED BY <1>3, <1>6, <1>7, <2>1
<1>9. At(n + 1)' = v
  <2>1. n + 1 \in Nat
    BY <1>5
  <2> QED BY <2>1, <1>3, <1>6, <1>7
<1> QED BY <1>3, <1>4, <1>5, <1>8, <1>9

\* Recv's half: the first value is gone.
LEMMA TakeShifts ==
  ASSUME TypeOK, RingInv, ~IsEmpty,
         data' = [data EXCEPT ![head + 1] = Moved], head' = NextSlot(head), tail' = tail
  PROVE  /\ data' \in Seq(Value \union {Moved}) /\ Len(data') <= Capacity + 1
         /\ head' \in 0 .. Capacity
         /\ Len(data') < Capacity + 1 => tail' = Len(data') /\ head' <= tail'
         /\ Count' = Count - 1 /\ Count \in 1 .. Capacity
         /\ \A i \in 1 .. Count - 1 : At(i)' = At(i + 1)
         /\ At(1) = data[head + 1]
<1>1. /\ head \in 0 .. Capacity /\ tail \in 0 .. Capacity /\ Len(data) \in Nat
      /\ Len(data) <= Capacity + 1 /\ data \in Seq(Value \union {Moved})
      /\ Len(data) < Capacity + 1 => tail = Len(data) /\ head <= tail
  BY LenProperties DEF TypeOK, RingInv
<1>2. NextSlot(head) = IF head = Capacity THEN 0 ELSE head + 1
  BY <1>1, NextSlotWraps
<1>3. /\ data' \in Seq(Value \union {Moved}) /\ Len(data') = Len(data)
      /\ \A k \in 1 .. Len(data) : k # head + 1 => data'[k] = data[k]
  <2>1. head + 1 \in 1 .. Len(data)
    BY <1>1, CapacityAssumption DEF IsEmpty
  <2> QED BY <1>1, <2>1
<1>4. head' \in 0 .. Capacity /\ Count' = Count - 1 /\ Count \in 1 .. Capacity
  BY <1>1, <1>2, CapacityAssumption DEF Count, IsEmpty
<1>5. Len(data') < Capacity + 1 => tail' = Len(data') /\ head' <= tail'
  BY <1>1, <1>2, <1>3, CapacityAssumption DEF IsEmpty
<1>6. \A i \in Nat : At(i) = data[Slot(i)] /\ At(i)' = data'[Slot(i)']
  BY <1>1, <1>4, CapacityAssumption DEF At, Slot
<1>7. \A i \in 1 .. Count - 1 : Slot(i)' = Slot(i + 1)
  BY <1>1, <1>2, <1>4, CapacityAssumption DEF Slot
<1>8. /\ \A i \in 2 .. Count : Slot(i) \in 1 .. Len(data) /\ Slot(i) # head + 1
      /\ Slot(1) = head + 1
  <2>1. \A i \in 2 .. Count : i \in 1 .. Count
    BY <1>4
  <2> QED BY <2>1, WindowSlots
<1>9. \A i \in 1 .. Count - 1 : i \in Nat /\ i + 1 \in Nat /\ i + 1 \in 2 .. Count
  BY <1>4
<1>10. \A i \in 1 .. Count - 1 : At(i)' = At(i + 1)
  BY <1>3, <1>6, <1>7, <1>8, <1>9
<1>11. At(1) = data[head + 1]
  BY <1>6, <1>8
<1> QED BY Zenon, <1>1, <1>3, <1>4, <1>5, <1>10, <1>11

\* Leaving the critical section and waking the first fiber of the other side's
\* queue q: f is no longer active, the woken fiber is, and what is left of both
\* queues is parked.
WakeEffect(f, S, O, p, q) ==
  /\ pc' \in [Fibers -> {"idle", "critical", "suspending", "parked", "woken"}]
  /\ pc'[f] = "idle"
  /\ \A g \in Fibers \ {f} : pc'[g] = pc[g] \/ (pc[g] = "parked" /\ pc'[g] = "woken")
  /\ Active(S)' = Active(S) \ {f}
  /\ q = <<>> => Active(O)' = Active(O)
  /\ q # <<>> => Head(q) \notin Active(O) /\ Active(O)' = Active(O) \union {Head(q)}
  /\ \A i \in 1 .. Len(p) : pc'[p[i]] = "parked"
  /\ PopWaiter(q) \in Seq(O)
  /\ \A i \in 1 .. Len(PopWaiter(q)) : pc'[PopWaiter(q)[i]] = "parked"
  /\ \A i, j \in 1 .. Len(PopWaiter(q)) : PopWaiter(q)[i] = PopWaiter(q)[j] => i = j

LEMMA LeaveAndWakeEffect ==
  ASSUME pc \in [Fibers -> {"idle", "critical", "suspending", "parked", "woken"}],
         NEW S, NEW O, S \subseteq Fibers, O \subseteq Fibers, S \intersect O = {},
         NEW f \in S, pc[f] = "critical",
         NEW p \in Seq(S), Parked(p), NEW q \in Seq(O), Parked(q),
         pc' = LeaveAndWake(f, q)
  PROVE  WakeEffect(f, S, O, p, q)
<1>1. \A i \in 1 .. Len(p) : p[i] \in S /\ pc[p[i]] = "parked"
  BY ElementOfSeq DEF Parked
<1>2. CASE q = <<>>
  <2>1. pc' = [pc EXCEPT ![f] = "idle"] /\ PopWaiter(q) = <<>>
    BY <1>2 DEF LeaveAndWake, PopWaiter
  <2>2. Active(S)' = Active(S) \ {f} /\ Active(O)' = Active(O)
    BY <2>1 DEF Active
  <2>3. \A i \in 1 .. Len(p) : pc'[p[i]] = "parked"
    BY <1>1, <2>1
  <2>4. PopWaiter(q) \in Seq(O) /\ Len(PopWaiter(q)) = 0
    BY <2>1
  <2>5. /\ \A i \in 1 .. Len(PopWaiter(q)) : pc'[PopWaiter(q)[i]] = "parked"
        /\ \A i, j \in 1 .. Len(PopWaiter(q)) : PopWaiter(q)[i] = PopWaiter(q)[j] => i = j
    BY <2>4
  <2>6. /\ pc' \in [Fibers -> {"idle", "critical", "suspending", "parked", "woken"}]
        /\ pc'[f] = "idle" /\ \A g \in Fibers \ {f} : pc'[g] = pc[g]
    BY <2>1
  <2> QED BY <1>2, <2>2, <2>3, <2>4, <2>5, <2>6 DEF WakeEffect
<1>3. CASE q # <<>>
  <2> DEFINE w == Head(q)
             r == Tail(q)
  <2>1. /\ pc' = [pc EXCEPT ![f] = "idle", ![w] = "woken"] /\ PopWaiter(q) = r
        /\ w = q[1] /\ 1 \in 1 .. Len(q) /\ w \in O /\ pc[w] = "parked" /\ w # f
    <3>1. w = q[1] /\ 1 \in 1 .. Len(q)
      BY <1>3, EmptySeq, LenProperties, HeadTailProperties
    <3> QED BY <1>3, <3>1, ElementOfSeq DEF LeaveAndWake, PopWaiter, Parked
  <2>2. /\ r \in Seq(O) /\ Len(r) = Len(q) - 1
        /\ \A i \in 1 .. Len(r) : r[i] = q[i + 1] /\ i + 1 \in 1 .. Len(q)
    BY <1>3, HeadTailProperties, LenProperties
  <2>3. \A i \in 1 .. Len(q) : q[i] \in O /\ pc[q[i]] = "parked"
    BY ElementOfSeq DEF Parked
  <2>4. \A i, j \in 1 .. Len(q) : q[i] = q[j] => i = j
    BY DEF Parked
  <2> HIDE DEF w, r
  <2>5. /\ pc' \in [Fibers -> {"idle", "critical", "suspending", "parked", "woken"}]
        /\ pc'[f] = "idle" /\ pc'[w] = "woken"
        /\ \A g \in Fibers \ {f, w} : pc'[g] = pc[g]
    BY <2>1
  <2>6. Active(S)' = Active(S) \ {f} /\ Active(O)' = Active(O) \union {w} /\ w \notin Active(O)
    <3>1. Active(S)' = Active(S) \ {f}
      BY <2>1, <2>5 DEF Active
    <3>2. Active(O)' = Active(O) \union {w}
      BY <2>1, <2>5 DEF Active
    <3>3. w \notin Active(O)
      BY <2>1 DEF Active
    <3> QED BY <3>1, <3>2, <3>3
  <2>7. \A i \in 1 .. Len(p) : pc'[p[i]] = "parked"
    BY <1>1, <2>1, <2>5
  <2>8. \A i \in 1 .. Len(r) : r[i] # w
    <3>1. \A i \in 1 .. Len(r) : i + 1 # 1
      OBVIOUS
    <3> QED BY <2>1, <2>2, <2>4, <3>1
  <2>9. \A i \in 1 .. Len(r) : r[i] \in O /\ pc[r[i]] = "parked"
    BY Zenon, <2>2, <2>3
  <2>10. \A i \in 1 .. Len(r) : pc'[r[i]] = "parked"
    BY <2>5, <2>8, <2>9
  <2>11. \A i, j \in 1 .. Len(r) : r[i] = r[j] => i = j
    <3>1. \A i, j \in 1 .. Len(r) : r[i] = r[j] => i + 1 = j + 1
      BY <2>2, <2>4
    <3> QED BY <3>1
  <2>12. \A g \in Fibers \ {f} : pc'[g] = pc[g] \/ (pc[g] = "parked" /\ pc'[g] = "woken")
    BY <2>1, <2>5
  <2>13. /\ PopWaiter(q) \in Seq(O)
         /\ \A i \in 1 .. Len(PopWaiter(q)) : pc'[PopWaiter(q)[i]] = "parked"
         /\ \A i, j \in 1 .. Len(PopWaiter(q)) : PopWaiter(q)[i] = PopWaiter(q)[j] => i = j
    BY <2>1, <2>2, <2>10, <2>11, Zenon
  <2>14. Head(q) \notin Active(O) /\ Active(O)' = Active(O) \union {Head(q)}
    BY <2>6 DEF w
  <2> QED BY <1>3, <2>5, <2>6, <2>7, <2>12, <2>13, <2>14 DEF WakeEffect
<1> QED BY <1>2, <1>3

\* Send: one value more and, if a receiver was parked, one receiver more on its
\* way; one free slot less, and one sender less.
LEMMA SendInvariant ==
  ASSUME IndInv, NEW f \in Fibers, Send(f)
  PROVE  IndInv'
<1> DEFINE v == <<f, todo[f]>>
<1>1. /\ f \in Producers /\ pc[f] = "critical" /\ ~IsFull /\ lock' = Nobody
      /\ data' = Place(v) /\ tail' = NextSlot(tail) /\ head' = head
      /\ pc' = LeaveAndWake(f, recvs) /\ recvs' = PopWaiter(recvs)
      /\ todo' = [todo EXCEPT ![f] = @ - 1] /\ senders' = senders /\ received' = received
  BY DEF Send
<1>2. TypeOK /\ RingInv /\ LockInv /\ Parked(senders) /\ Parked(recvs) /\ NoLostWakeup
  BY DEF IndInv, QueueInv
<1>3. /\ pc \in [Fibers -> {"idle", "critical", "suspending", "parked", "woken"}]
      /\ senders \in Seq(Producers) /\ recvs \in Seq(Consumers)
  BY <1>2 DEF TypeOK
<1>4. Producers \subseteq Fibers /\ Consumers \subseteq Fibers /\ Producers \intersect Consumers = {}
  BY FibersAssumption DEF Fibers
<1>5. todo[f] \in 1 .. SendsEach /\ todo \in [Fibers -> Nat]
  <2>1. todo[f] > 0
    BY <1>1, <1>2 DEF LockInv
  <2>2. todo \in [Fibers -> Nat] /\ todo[f] <= SendsEach
    BY <1>1, <1>2 DEF TypeOK, Quota
  <2> QED BY <2>1, <2>2, QuotaAssumption
<1>6. v \in Value
  BY <1>1, <1>5 DEF Value
<1> HIDE DEF v
<1>7. PICK n : n = Count
  OBVIOUS
<1>8. /\ data' \in Seq(Value \union {Moved}) /\ Len(data') <= Capacity + 1
      /\ tail' \in 0 .. Capacity
      /\ Len(data') < Capacity + 1 => tail' = Len(data') /\ head' <= tail'
      /\ Count' = Count + 1
      /\ \A i \in 1 .. Count : At(i)' = At(i)
      /\ At(n + 1)' = v
  BY <1>1, <1>2, <1>6, <1>7, PlaceAppends
<1>9. WakeEffect(f, Producers, Consumers, senders, recvs)
  BY <1>1, <1>2, <1>3, <1>4, LeaveAndWakeEffect
<1>10. TypeOK'
  <2>1. todo' \in [Fibers -> Nat] /\ \A g \in Fibers : todo'[g] <= Quota(g)
    <3>1. \A g \in Fibers : todo[g] <= Quota(g) /\ Quota(g) \in Nat
      BY <1>2, QuotaAssumption DEF TypeOK, Quota
    <3>2. \A g \in Fibers : todo'[g] = IF g = f THEN todo[f] - 1 ELSE todo[g]
      BY <1>1, <1>5
    <3>3. todo' \in [Fibers -> Nat]
      BY <1>1, <1>5, QuotaAssumption
    <3> QED BY <1>5, <3>1, <3>2, <3>3, QuotaAssumption
  <2>2. pc' \in [Fibers -> {"idle", "critical", "suspending", "parked", "woken"}]
        /\ recvs' \in Seq(Consumers)
    BY <1>1, <1>9 DEF WakeEffect
  <2> QED BY <1>1, <1>2, <1>8, <2>1, <2>2 DEF TypeOK
<1>11. RingInv'
  <2>1. Count \in Nat
    BY <1>2, CountRange, CapacityAssumption
  <2>2. \A i \in 1 .. Count' : i \in 1 .. Count \/ i = n + 1
    BY <1>7, <1>8, <2>1
  <2>3. \A i \in 1 .. Count : At(i) \in Value
    BY <1>2 DEF RingInv
  <2>4. \A i \in 1 .. Count' : At(i)' \in Value
    BY <1>6, <1>8, <2>2, <2>3
  <2> QED BY <1>8, <2>4 DEF RingInv
<1>12. LockInv'
  <2>1. \A g \in Fibers : pc'[g] \notin {"critical", "suspending"}
    <3>1. \A g \in Fibers \ {f} : pc[g] \notin {"critical", "suspending"}
      BY <1>1, <1>2 DEF LockInv
    <3> QED BY <1>9, <3>1 DEF WakeEffect
  <2>2. \A g \in Fibers : pc'[g] # "idle" => todo'[g] > 0
    <3>1. \A g \in Fibers \ {f} : todo'[g] = todo[g]
      BY <1>1, <1>5
    <3> QED BY <1>2, <1>9, <3>1 DEF LockInv, WakeEffect
  <2> QED BY <1>1, <2>1, <2>2, <1>4, FibersAssumption DEF LockInv
<1>13. QueueInv'
  <2>1. Parked(senders)'
    <3>1. senders' = senders /\ \A i \in 1 .. Len(senders) : pc'[senders[i]] = "parked"
      BY <1>1, <1>9 DEF WakeEffect
    <3> QED BY <1>2, <3>1 DEF Parked
  <2>2. Parked(recvs)'
    <3>1. /\ recvs' = PopWaiter(recvs)
          /\ \A i \in 1 .. Len(PopWaiter(recvs)) : pc'[PopWaiter(recvs)[i]] = "parked"
          /\ \A i, j \in 1 .. Len(PopWaiter(recvs)) :
               PopWaiter(recvs)[i] = PopWaiter(recvs)[j] => i = j
      BY <1>1, <1>9 DEF WakeEffect
    <3> QED BY <3>1, Zenon DEF Parked
  <2> QED BY <2>1, <2>2 DEF QueueInv
<1>14. NoLostWakeup'
  <2>1. f \in Active(Producers)
    BY <1>1 DEF Active
  <2>2. Cardinality(Active(Producers)') = Cardinality(Active(Producers)) - 1
    BY Zenon, <1>4, <1>9, <2>1, ActiveLeaves DEF WakeEffect
  <2>3. recvs # <<>> => Cardinality(Active(Consumers)') = Cardinality(Active(Consumers)) + 1
    BY Zenon, <1>4, <1>9, ActiveJoins DEF WakeEffect
  <2>4. Cardinality(Active(Producers)) \in Nat /\ Cardinality(Active(Consumers)) \in Nat
    BY <1>4, ActiveFinite
  <2>5. recvs' # <<>> => recvs # <<>>
    BY <1>1 DEF PopWaiter
  <2>6. Count \in 0 .. Capacity
    BY <1>2, CountRange
  <2>7. recvs' # <<>> => Count' <= Cardinality(Active(Consumers)')
    BY <1>2, <1>8, <2>3, <2>4, <2>5, <2>6, CapacityAssumption DEF NoLostWakeup
  <2>8. senders' # <<>> => Capacity - Count' <= Cardinality(Active(Producers)')
    BY <1>1, <1>2, <1>8, <2>2, <2>4, <2>6, CapacityAssumption DEF NoLostWakeup
  <2> QED BY <2>7, <2>8 DEF NoLostWakeup
<1> QED BY <1>10, <1>11, <1>12, <1>13, <1>14 DEF IndInv

\* Recv, symmetrically: one value less and one receiver less; one free slot more
\* and, if a sender was parked, one sender more on its way.
LEMMA RecvInvariant ==
  ASSUME IndInv, NEW f \in Fibers, Recv(f)
  PROVE  IndInv'
<1>1. /\ f \in Consumers /\ pc[f] = "critical" /\ ~IsEmpty /\ lock' = Nobody
      /\ data' = [data EXCEPT ![head + 1] = Moved] /\ head' = NextSlot(head) /\ tail' = tail
      /\ pc' = LeaveAndWake(f, senders) /\ senders' = PopWaiter(senders)
      /\ todo' = [todo EXCEPT ![f] = @ - 1] /\ recvs' = recvs
      /\ received' = Append(received, data[head + 1])
  BY DEF Recv
<1>2. TypeOK /\ RingInv /\ LockInv /\ Parked(senders) /\ Parked(recvs) /\ NoLostWakeup
  BY DEF IndInv, QueueInv
<1>3. /\ pc \in [Fibers -> {"idle", "critical", "suspending", "parked", "woken"}]
      /\ senders \in Seq(Producers) /\ recvs \in Seq(Consumers)
  BY <1>2 DEF TypeOK
<1>4. Producers \subseteq Fibers /\ Consumers \subseteq Fibers /\ Consumers \intersect Producers = {}
  BY FibersAssumption DEF Fibers
<1>5. todo[f] > 0 /\ todo \in [Fibers -> Nat]
  BY <1>1, <1>2, <1>4 DEF LockInv, TypeOK
<1>6. /\ data' \in Seq(Value \union {Moved}) /\ Len(data') <= Capacity + 1
      /\ head' \in 0 .. Capacity
      /\ Len(data') < Capacity + 1 => tail' = Len(data') /\ head' <= tail'
      /\ Count' = Count - 1 /\ Count \in 1 .. Capacity
      /\ \A i \in 1 .. Count - 1 : At(i)' = At(i + 1)
      /\ At(1) = data[head + 1]
  BY <1>1, <1>2, TakeShifts
<1>7. WakeEffect(f, Consumers, Producers, recvs, senders)
  BY Zenon, <1>1, <1>2, <1>3, <1>4, LeaveAndWakeEffect
<1>8. \A i \in 1 .. Count : At(i) \in Value
  BY <1>2 DEF RingInv
<1>9. TypeOK'
  <2>1. todo' \in [Fibers -> Nat] /\ \A g \in Fibers : todo'[g] <= Quota(g)
    <3>1. \A g \in Fibers : todo[g] <= Quota(g) /\ Quota(g) \in Nat
      BY <1>2, QuotaAssumption DEF TypeOK, Quota
    <3>2. \A g \in Fibers : todo'[g] = IF g = f THEN todo[f] - 1 ELSE todo[g]
      BY <1>1, <1>5
    <3>3. todo' \in [Fibers -> Nat]
      BY <1>1, <1>5
    <3> QED BY <1>5, <3>1, <3>2, <3>3
  <2>2. pc' \in [Fibers -> {"idle", "critical", "suspending", "parked", "woken"}]
        /\ senders' \in Seq(Producers)
    BY Zenon, <1>1, <1>7 DEF WakeEffect
  <2>3. received' \in Seq(Value)
    <3>1. data[head + 1] \in Value
      BY <1>6, <1>8
    <3> QED BY <1>1, <1>2, <3>1 DEF TypeOK
  <2> QED BY Zenon, <1>1, <1>2, <1>6, <2>1, <2>2, <2>3 DEF TypeOK
<1>10. RingInv'
  <2>1. \A i \in 1 .. Count' : i \in 1 .. Count - 1 /\ i + 1 \in 1 .. Count
    BY <1>6, CapacityAssumption
  <2>2. \A i \in 1 .. Count' : At(i)' \in Value
    BY <1>6, <1>8, <2>1
  <2> QED BY <1>6, <2>2 DEF RingInv
<1>11. LockInv'
  <2>1. \A g \in Fibers : pc'[g] \notin {"critical", "suspending"}
    <3>1. \A g \in Fibers \ {f} : pc[g] \notin {"critical", "suspending"}
      BY <1>1, <1>2 DEF LockInv
    <3> QED BY <1>7, <3>1 DEF WakeEffect
  <2>2. \A g \in Fibers : pc'[g] # "idle" => todo'[g] > 0
    <3>1. \A g \in Fibers \ {f} : todo'[g] = todo[g]
      BY <1>1, <1>5
    <3> QED BY <1>2, <1>7, <3>1 DEF LockInv, WakeEffect
  <2> QED BY <1>1, <2>1, <2>2, <1>4, FibersAssumption DEF LockInv
<1>12. QueueInv'
  <2>1. Parked(recvs)'
    <3>1. recvs' = recvs /\ \A i \in 1 .. Len(recvs) : pc'[recvs[i]] = "parked"
      BY Zenon, <1>1, <1>7 DEF WakeEffect
    <3> QED BY <1>2, <3>1 DEF Parked
  <2>2. Parked(senders)'
    <3>1. /\ senders' = PopWaiter(senders)
          /\ \A i \in 1 .. Len(PopWaiter(senders)) : pc'[PopWaiter(senders)[i]] = "parked"
          /\ \A i, j \in 1 .. Len(PopWaiter(senders)) :
               PopWaiter(senders)[i] = PopWaiter(senders)[j] => i = j
      BY <1>1, <1>7 DEF WakeEffect
    <3> QED BY <3>1, Zenon DEF Parked
  <2> QED BY <2>1, <2>2 DEF QueueInv
<1>13. NoLostWakeup'
  <2>1. f \in Active(Consumers)
    BY <1>1 DEF Active
  <2>2. Cardinality(Active(Consumers)') = Cardinality(Active(Consumers)) - 1
    BY Zenon, <1>4, <1>7, <2>1, ActiveLeaves DEF WakeEffect
  <2>3. senders # <<>> => Cardinality(Active(Producers)') = Cardinality(Active(Producers)) + 1
    BY Zenon, <1>4, <1>7, ActiveJoins DEF WakeEffect
  <2>4. Cardinality(Active(Producers)) \in Nat /\ Cardinality(Active(Consumers)) \in Nat
    BY <1>4, ActiveFinite
  <2>5. senders' # <<>> => senders # <<>>
    BY <1>1 DEF PopWaiter
  <2>6. recvs' # <<>> => Count' <= Cardinality(Active(Consumers)')
    BY <1>1, <1>2, <1>6, <2>2, <2>4, CapacityAssumption DEF NoLostWakeup
  <2>7. senders' # <<>> => Capacity - Count' <= Cardinality(Active(Producers)')
    BY <1>2, <1>6, <2>3, <2>4, <2>5, CapacityAssumption DEF NoLostWakeup
  <2> QED BY <2>6, <2>7 DEF NoLostWakeup
<1> QED BY <1>9, <1>10, <1>11, <1>12, <1>13 DEF IndInv

LEMMA NextInv == IndInv /\ [Next]_vars => IndInv'
<1> SUFFICES ASSUME IndInv, [Next]_vars PROVE IndInv'
  OBVIOUS
<1>1. CASE \E f \in Fibers : Step(f)
  <2> PICK f \in Fibers : Step(f)
    BY <1>1
  <2> QED BY LockInvariant, SuspendFullInvariant, ParkSenderInvariant, SendInvariant,
             SuspendEmptyInvariant, ParkReceiverInvariant, RecvInvariant DEF Step
<1>2. CASE UNCHANGED vars
  <2>1. UNCHANGED <<head, tail, data>>
    BY <1>2 DEF vars
  <2>2. RingInv' /\ Count' = Count /\ IsFull' = IsFull /\ IsEmpty' = IsEmpty
    BY <2>1, RingFrame DEF IndInv
  <2>3. \A S : Active(S)' = Active(S)
    BY <1>2 DEF vars, Active
  <2>4. TypeOK' /\ LockInv' /\ NoLostWakeup'
    BY Zenon, <1>2, <2>2, <2>3 DEF vars, IndInv, TypeOK, LockInv, NoLostWakeup
  <2>5. QueueInv'
    BY Zenon, <1>2 DEF vars, IndInv, QueueInv, Parked
  <2> QED BY <2>2, <2>4, <2>5 DEF IndInv
<1> QED BY <1>1, <1>2 DEF Next, Finished

-----------------------------------------------------------------------------
(* The theorems. *)

THEOREM Invariance == Spec => []IndInv
BY InitInv, NextInv, PTL DEF Spec

\* data_ never outgrows its reserved slots and Recv never returns a moved-from
\* value, for any number of fibers and calls and any capacity.
THEOREM TypeCorrect == Spec => []TypeOK
<1>1. IndInv => TypeOK
  BY DEF IndInv
<1> QED BY <1>1, Invariance, PTL

\* No wakeup is lost.
THEOREM WakeupsSuffice == Spec => []NoLostWakeup
<1>1. IndInv => NoLostWakeup
  BY DEF IndInv
<1> QED BY <1>1, Invariance, PTL

-----------------------------------------------------------------------------
(* The ring implements the bounded FIFO channel. *)

Contents == [i \in 1 .. Count |-> At(i)]

ContentsOK ==
  Contents \in Seq(Value) /\ Len(Contents) = Count /\ Count \in 0 .. Capacity

LEMMA ContentsSeq == IndInv => ContentsOK
<1> SUFFICES ASSUME IndInv PROVE ContentsOK
  OBVIOUS
<1>1. Count \in 0 .. Capacity /\ Count \in Nat
  BY CountRange, CapacityAssumption DEF IndInv
<1>2. \A i \in 1 .. Count : At(i) \in Value
  BY DEF IndInv, RingInv
<1>3. Contents \in [1 .. Count -> Value]
  BY <1>2 DEF Contents
<1>4. Contents \in Seq(Value)
  BY <1>1, <1>3, SeqDef
<1>5. DOMAIN Contents = 1 .. Count /\ DOMAIN Contents = 1 .. Len(Contents) /\ Len(Contents) \in Nat
  BY <1>3, <1>4, LenProperties
<1> QED BY <1>1, <1>4, <1>5 DEF ContentsOK

LEMMA StepRefines ==
  ASSUME IndInv, ContentsOK, ContentsOK', [Next]_vars
  PROVE  [Channel!Next]_<<Contents, received>>
<1>1. Contents \in Seq(Value) /\ Len(Contents) = Count /\ Count \in 0 .. Capacity
  BY DEF ContentsOK
<1>2. Contents' \in Seq(Value) /\ Len(Contents') = Count'
  BY DEF ContentsOK
<1>3. CASE UNCHANGED <<head, tail, data, received>>
  <2>1. Contents' = Contents
    BY <1>3 DEF Count, At, Contents
  <2> QED BY <1>3, <2>1
<1>4. ASSUME NEW f \in Fibers, Send(f)
      PROVE  Channel!Send
  <2> DEFINE v == <<f, todo[f]>>
  <2>1. /\ f \in Producers /\ pc[f] = "critical" /\ ~IsFull /\ received' = received
        /\ data' = Place(v) /\ tail' = NextSlot(tail) /\ head' = head
    BY <1>4 DEF Send
  <2>2. TypeOK /\ RingInv
    BY DEF IndInv
  <2>3. v \in Value
    <3>1. todo[f] > 0 /\ todo[f] \in Nat /\ todo[f] <= SendsEach
      BY <2>1, <2>2 DEF IndInv, LockInv, TypeOK, Quota
    <3> QED BY <2>1, <3>1, QuotaAssumption DEF Value
  <2> HIDE DEF v
  <2>4. PICK n : n = Count
    OBVIOUS
  <2>5. Count' = n + 1 /\ (\A i \in 1 .. n : At(i)' = At(i)) /\ At(n + 1)' = v
    BY <2>1, <2>2, <2>3, <2>4, PlaceAppends
  <2>6. n \in Nat /\ n < Capacity
    <3>1. Count # Capacity
      BY <2>1, <2>2, CountRange
    <3> QED BY <1>1, <2>4, <3>1, CapacityAssumption
  <2>7. /\ \A i \in 1 .. n : Contents'[i] = Contents[i]
        /\ Contents'[n + 1] = v
    <3>1. \A i \in 1 .. n + 1 : Contents'[i] = At(i)'
      BY <2>5 DEF Contents
    <3>2. \A i \in 1 .. n : Contents[i] = At(i) /\ i \in 1 .. n + 1
      BY <2>4, <2>6 DEF Contents
    <3>3. n + 1 \in 1 .. n + 1
      BY <2>6
    <3> QED BY <2>5, <3>1, <3>2, <3>3
  <2>8. Contents' = Append(Contents, v)
    <3>1. /\ Append(Contents, v) \in Seq(Value) /\ Len(Append(Contents, v)) = n + 1
          /\ \A i \in 1 .. n : Append(Contents, v)[i] = Contents[i]
          /\ Append(Contents, v)[n + 1] = v
      BY <1>1, <2>3, <2>4, AppendProperties
    <3>2. \A i \in 1 .. n + 1 : i \in 1 .. n \/ i = n + 1
      BY <2>6
    <3>3. \A i \in 1 .. n + 1 : Contents'[i] = Append(Contents, v)[i]
      BY <2>7, <3>1, <3>2
    <3> QED BY <1>2, <2>5, <3>1, <3>3, SeqEqual
  <2> QED BY Zenon, <1>1, <2>1, <2>3, <2>4, <2>6, <2>8 DEF Channel!Send, Contents
<1>5. ASSUME NEW f \in Fibers, Recv(f)
      PROVE  Channel!Recv
  <2>1. /\ ~IsEmpty /\ received' = Append(received, data[head + 1])
        /\ data' = [data EXCEPT ![head + 1] = Moved] /\ head' = NextSlot(head) /\ tail' = tail
    BY <1>5 DEF Recv
  <2>2. TypeOK /\ RingInv
    BY DEF IndInv
  <2>3. /\ Count' = Count - 1 /\ Count \in 1 .. Capacity
        /\ \A i \in 1 .. Count - 1 : At(i)' = At(i + 1)
        /\ At(1) = data[head + 1]
    BY <2>1, <2>2, TakeShifts
  <2>4. Contents # <<>> /\ Head(Contents) = data[head + 1]
    <3>1. Contents # <<>> /\ Head(Contents) = Contents[1]
      BY <1>1, <2>3, HeadTailProperties
    <3>2. Contents[1] = At(1)
      BY <2>3 DEF Contents
    <3> QED BY <2>3, <3>1, <3>2
  <2>5. Contents' = Tail(Contents)
    <3>1. /\ Tail(Contents) \in Seq(Value) /\ Len(Tail(Contents)) = Count - 1
          /\ \A i \in 1 .. Count - 1 : Tail(Contents)[i] = Contents[i + 1]
      BY <1>1, <2>4, HeadTailProperties
    <3>2. \A i \in 1 .. Count - 1 : Contents'[i] = At(i)' /\ Contents[i + 1] = At(i + 1)
      BY <1>1, <2>3 DEF Contents
    <3> QED BY <1>2, <2>3, <3>1, <3>2, SeqEqual
  <2> QED BY Zenon, <2>1, <2>4, <2>5 DEF Channel!Recv, Contents
<1>6. \/ UNCHANGED <<head, tail, data, received>>
      \/ \E f \in Fibers : Send(f) \/ Recv(f)
  BY Zenon DEF Next, Step, Finished, vars, Lock, SuspendFull, SuspendEmpty, ParkSender, ParkReceiver
<1> QED BY <1>3, <1>4, <1>5, <1>6 DEF Channel!Next

\* The ring of Capacity + 1 slots under the spinlock is a bounded FIFO channel.
THEOREM Refinement == Spec => ImplementsChannel
<1>1. Init => Channel!Init
  <2> SUFFICES ASSUME Init PROVE Channel!Init
    OBVIOUS
  <2>1. Count = 0
    BY DEF Init, Count
  <2>2. Contents = <<>>
    <3>1. IndInv
      BY InitInv
    <3> QED BY <2>1, <3>1, ContentsSeq, EmptySeq DEF ContentsOK
  <2> QED BY <2>2 DEF Init, Channel!Init, Contents
<1>2. IndInv /\ ContentsOK /\ ContentsOK' /\ [Next]_vars => [Channel!Next]_<<Contents, received>>
  BY StepRefines
<1> QED BY <1>1, <1>2, Invariance, ContentsSeq, PTL DEF Spec, ImplementsChannel, Channel!Spec, Contents

=============================================================================
