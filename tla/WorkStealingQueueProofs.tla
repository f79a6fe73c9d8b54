---------------------- MODULE WorkStealingQueueProofs ----------------------
(***************************************************************************)
(* Proofs about WorkStealingQueue, for every capacity, every set of        *)
(* thieves, every batch size and every number of pushes.                   *)
(***************************************************************************)
EXTENDS WorkStealingQueue, SequenceTheorems, TLAPS

\* The counters delimit a window of at most Capacity tasks, and the slots of
\* the window still hold them.
Window ==
  /\ head <= tail /\ tail <= head + Capacity
  /\ \A i \in head .. tail - 1 : buffer[i % Capacity] = i

\* What the owner knows inside TryPush: the slot it writes is free.
PushInv ==
  /\ pc[Owner] \in {"pushStore", "pushPublish"} =>
       tail < MaxTasks /\ tail < head + Capacity
  /\ pc[Owner] = "pushPublish" => buffer[tail % Capacity] = tail

\* What a consumer knows inside TryPop: if head_ has not moved, the task it
\* loaded is the first of the queue.
PopInv(t) ==
  /\ pc[t] \in {"popTail", "popSlot", "popCas"} => oldHead[t] <= head
  /\ pc[t] \in {"popSlot", "popCas"} => oldHead[t] < tail
  /\ pc[t] = "popCas" =>
       Len(out[t]) = 1 /\ (head = oldHead[t] => out[t][1] = oldHead[t])

\* out_buffer[0] was meant for the task with this number.
First(t) == newHead[t] - maxGrab[t]

\* What a consumer knows inside Grab: entries of out_buffer that head_ has not
\* passed are right, even after a failed compare_exchange moved old_head.
GrabInv(t) ==
  /\ pc[t] = "grabHead" => newHead[t] <= tail
  /\ pc[t] = "grabSlot" =>
       /\ oldHead[t] <= head /\ newHead[t] <= tail
       /\ Len(out[t]) < maxGrab[t] /\ maxGrab[t] <= size[t]
       /\ oldHead[t] < newHead[t] => First(t) = oldHead[t]
  /\ pc[t] = "grabCas" =>
       /\ oldHead[t] <= head /\ newHead[t] <= tail
       /\ oldHead[t] < newHead[t] /\ First(t) <= oldHead[t] /\ 0 <= First(t)
       /\ Len(out[t]) = maxGrab[t]
  /\ pc[t] \in {"grabSlot", "grabCas"} /\ oldHead[t] < newHead[t] =>
       \A i \in 1 .. Len(out[t]) :
         head <= First(t) + i - 1 => out[t][i] = First(t) + i - 1

OutInv(t) ==
  pc[t] \in {"idle", "pushStore", "pushPublish", "popTail", "popSlot", "grabTail", "grabHead"}
    => out[t] = <<>>

ThreadInv(t) == PopInv(t) /\ GrabInv(t) /\ OutInv(t)

IndInv ==
  /\ TypeOK
  /\ Window
  /\ PushInv
  /\ \A t \in Threads : ThreadInv(t)
  /\ ExactlyOnceInOrder

-----------------------------------------------------------------------------
(* Slots. *)

\* The slot of a task is a slot of the buffer (buffer_[i % Capacity]).
LEMMA SlotRange == \A i \in Nat : i % Capacity \in 0 .. Capacity - 1
BY CapacityAssumption

\* Two tasks less than Capacity apart never share a slot.
LEMMA SlotsDistinct ==
  ASSUME NEW i \in Nat, NEW j \in Nat, i < j, j < i + Capacity
  PROVE  (i % Capacity) # (j % Capacity)
<1>1. i = Capacity * (i \div Capacity) + (i % Capacity)
  BY CapacityAssumption
<1>2. j = Capacity * (j \div Capacity) + (j % Capacity)
  BY CapacityAssumption
<1>3. i \div Capacity \in Int /\ j \div Capacity \in Int
  BY CapacityAssumption
<1>4. SUFFICES ASSUME (i % Capacity) = (j % Capacity) PROVE FALSE
  OBVIOUS
<1> DEFINE d == (j \div Capacity) - (i \div Capacity)
<1>5. j - i = Capacity * d
  BY <1>1, <1>2, <1>3, <1>4, SlotRange, CapacityAssumption
<1>6. d \in Int
  BY <1>3
<1>7. CASE d <= 0
  <2>1. Capacity * d <= 0
    BY <1>6, <1>7, CapacityAssumption
  <2> QED BY <2>1, <1>5, <1>6, CapacityAssumption
<1>8. CASE d >= 1
  <2>1. Capacity * d >= Capacity
    BY <1>6, <1>8, CapacityAssumption
  <2> QED BY <2>1, <1>5, <1>6, CapacityAssumption
<1> QED BY <1>6, <1>7, <1>8

-----------------------------------------------------------------------------
(* What a step of one thread leaves true of the others. *)

\* head_ and tail_ only grow, and what a thread inside TryPop or Grab relies
\* on survives that.
LEMMA ThreadFrame ==
  ASSUME NEW u \in Threads, TypeOK, ThreadInv(u),
         head' \in Nat, tail' \in Nat, head <= head', tail <= tail',
         pc'[u] = pc[u], oldHead'[u] = oldHead[u], newHead'[u] = newHead[u],
         size'[u] = size[u], maxGrab'[u] = maxGrab[u], out'[u] = out[u]
  PROVE  ThreadInv(u)'
<1> oldHead[u] \in Int /\ newHead[u] \in Int /\ maxGrab[u] \in Int /\ Len(out[u]) \in Nat
  BY WordAssumption, BatchAssumption DEF TypeOK
<1> head \in Int /\ tail \in Int
  BY WordAssumption DEF TypeOK
<1>1. PopInv(u)'
  BY DEF ThreadInv, PopInv
<1>2. GrabInv(u)'
  BY SMTT(30) DEF ThreadInv, GrabInv, First
<1>3. OutInv(u)'
  BY DEF ThreadInv, OutInv
<1> QED BY <1>1, <1>2, <1>3 DEF ThreadInv

-----------------------------------------------------------------------------
(* Every action preserves the inductive invariant. *)

LEMMA PushCheckInv ==
  ASSUME IndInv, PushCheck
  PROVE  IndInv'
<1> USE DEF IndInv, PushCheck, IsFull
<1>1. CASE UNCHANGED vars
  BY <1>1 DEF vars, TypeOK, Window, PushInv, ThreadInv, PopInv, GrabInv, First, OutInv, ExactlyOnceInOrder
<1>2. CASE /\ USub(tail, head) # Capacity
           /\ Goto(Owner, "pushStore")
           /\ UNCHANGED <<head, tail, buffer, locals, taken>>
  <2> USE <1>2 DEF Goto, locals
  <2> Owner \in Threads
    BY DEF Threads
  <2>1. TypeOK'
    BY OwnerAssumption DEF TypeOK, Labels, PushLabels, Threads
  <2>2. Window' /\ ExactlyOnceInOrder'
    BY DEF Window, ExactlyOnceInOrder
  <2>3. tail < head + Capacity
    BY CapacityAssumption, WordAssumption DEF USub, Window, TypeOK
  <2>4. PushInv'
    BY <2>3 DEF PushInv, TypeOK
  <2>5. ThreadInv(Owner)'
    BY DEF ThreadInv, PopInv, GrabInv, OutInv, TypeOK
  <2>6. ASSUME NEW u \in Threads, u # Owner PROVE ThreadInv(u)'
    <3>1. pc'[u] = pc[u]
      BY <2>6 DEF TypeOK
    <3>2. head \in Nat /\ tail \in Nat
      BY WordAssumption DEF TypeOK
    <3> QED BY <3>1, <3>2, ThreadFrame
  <2> QED BY <2>1, <2>2, <2>4, <2>5, <2>6
<1> QED BY <1>1, <1>2

LEMMA PushStoreInv ==
  ASSUME IndInv, PushStore
  PROVE  IndInv'
<1> USE DEF IndInv, PushStore, Goto, locals
<1> Owner \in Threads
  BY DEF Threads
<1>0. head \in Nat /\ tail \in Nat /\ tail < MaxTasks /\ tail < head + Capacity /\ head <= tail
  BY WordAssumption DEF TypeOK, PushInv, Window
<1>1. TypeOK'
  <2>1. tail % Capacity \in 0 .. Capacity - 1
    BY <1>0, SlotRange
  <2>2. tail \in Task
    BY <1>0, WordAssumption DEF Task
  <2>3. buffer' \in [0 .. Capacity - 1 -> Task \union {Empty}]
    BY <2>1, <2>2 DEF TypeOK
  <2> QED BY <2>3, OwnerAssumption DEF TypeOK, Labels, PushLabels, Threads
<1>2. Window'
  <2>1. ASSUME NEW i \in head .. tail - 1 PROVE buffer'[i % Capacity] = i
    <3>0. i \in Nat /\ i < tail /\ tail < i + Capacity
      BY <1>0, CapacityAssumption
    <3>1. (i % Capacity) # (tail % Capacity)
      BY <1>0, <3>0, SlotsDistinct
    <3>2. i % Capacity \in 0 .. Capacity - 1
      BY <1>0, SlotRange
    <3> QED BY <3>1, <3>2 DEF TypeOK, Window
  <2> QED BY <2>1 DEF Window
<1>3. PushInv'
  <2>1. tail % Capacity \in 0 .. Capacity - 1
    BY <1>0, SlotRange
  <2> QED BY <2>1, <1>0 DEF PushInv, TypeOK
<1>4. ThreadInv(Owner)'
  BY DEF ThreadInv, PopInv, GrabInv, OutInv, TypeOK
<1>5. ASSUME NEW u \in Threads, u # Owner PROVE ThreadInv(u)'
  <2>1. pc'[u] = pc[u]
    BY <1>5 DEF TypeOK
  <2> QED BY <2>1, <1>0, ThreadFrame
<1>6. ExactlyOnceInOrder'
  BY DEF ExactlyOnceInOrder
<1> QED BY <1>1, <1>2, <1>3, <1>4, <1>5, <1>6

LEMMA PushPublishInv ==
  ASSUME IndInv, PushPublish
  PROVE  IndInv'
<1> USE DEF IndInv, PushPublish, Goto, locals
<1> Owner \in Threads
  BY DEF Threads
<1>0. head \in Nat /\ tail \in Nat /\ tail < MaxTasks /\ tail < head + Capacity /\ head <= tail
  BY WordAssumption DEF TypeOK, PushInv, Window
<1>1. TypeOK'
  <2>1. pc' \in [Threads -> Labels] /\ \A u \in Thieves : pc'[u] \notin PushLabels
    BY OwnerAssumption DEF TypeOK, Labels, PushLabels, Threads
  <2>2. tail' \in 0 .. MaxTasks
    BY <1>0, WordAssumption
  <2>3. \A u \in Threads : pc'[u] \in {"grabSlot", "grabCas"} => Len(out'[u]) <= size'[u]
    BY DEF TypeOK
  <2> QED BY <2>1, <2>2, <2>3 DEF TypeOK
<1>2. Window'
  BY <1>0, CapacityAssumption DEF Window, PushInv
<1>3. PushInv'
  BY DEF PushInv, TypeOK
<1>4. ThreadInv(Owner)'
  BY DEF ThreadInv, PopInv, GrabInv, OutInv, TypeOK
<1>5. ASSUME NEW u \in Threads, u # Owner PROVE ThreadInv(u)'
  <2>1. pc'[u] = pc[u]
    BY <1>5 DEF TypeOK
  <2> QED BY <2>1, <1>0, ThreadFrame
<1>6. ExactlyOnceInOrder'
  BY DEF ExactlyOnceInOrder
<1> QED BY <1>1, <1>2, <1>3, <1>4, <1>5, <1>6

\* The private variables of u are not touched by the step.
SameLocals(u) ==
  /\ pc'[u] = pc[u] /\ oldHead'[u] = oldHead[u] /\ newHead'[u] = newHead[u]
  /\ size'[u] = size[u] /\ maxGrab'[u] = maxGrab[u] /\ out'[u] = out[u]

\* A thread outside Grab, and one outside TryPop, promises nothing about it.
LEMMA OutsideGrab ==
  ASSUME NEW t, pc'[t] \notin {"grabHead", "grabSlot", "grabCas"}
  PROVE  GrabInv(t)'
BY DEF GrabInv

LEMMA OutsidePop ==
  ASSUME NEW t, pc'[t] \notin {"popTail", "popSlot", "popCas"}
  PROVE  PopInv(t)'
BY DEF PopInv

\* A step of consumer t that leaves the shared state alone preserves all that
\* does not speak of t's own variables.
LEMMA ConsumerFrame ==
  ASSUME NEW t \in Threads, IndInv, UNCHANGED <<head, tail, buffer, taken>>,
         \A u \in Threads \ {t} : SameLocals(u),
         pc'[t] \notin PushLabels, TypeOK', ThreadInv(t)'
  PROVE  IndInv'
<1> USE DEF IndInv
<1>1. Window' /\ ExactlyOnceInOrder'
  BY DEF Window, ExactlyOnceInOrder
<1>2. PushInv'
  <2> Owner \in Threads
    BY DEF Threads
  <2> QED BY DEF PushInv, PushLabels, SameLocals
<1>3. ASSUME NEW u \in Threads PROVE ThreadInv(u)'
  <2>1. CASE u = t
    BY <2>1
  <2>2. CASE u # t
    <3>1. head \in Nat /\ tail \in Nat
      BY WordAssumption DEF TypeOK
    <3>2. SameLocals(u)
      BY <2>2
    <3> QED BY <3>1, <3>2, ThreadFrame DEF SameLocals
  <2> QED BY <2>1, <2>2
<1> QED BY <1>1, <1>2, <1>3

LEMMA PopLoadHeadInv ==
  ASSUME NEW t \in Threads, IndInv, PopLoadHead(t)
  PROVE  IndInv'
<1> USE DEF IndInv, PopLoadHead, Goto
<1>1. TypeOK'
  BY OwnerAssumption DEF TypeOK, Labels, PushLabels, Threads
<1>2. ThreadInv(t)'
  <2>1. pc'[t] = "popTail" /\ oldHead'[t] = head /\ out'[t] = <<>> /\ head \in Nat
    BY WordAssumption DEF TypeOK, ThreadInv, OutInv
  <2>2. PopInv(t)'
    BY <2>1 DEF PopInv
  <2>3. GrabInv(t)' /\ OutInv(t)'
    BY <2>1, OutsideGrab DEF OutInv
  <2> QED BY <2>2, <2>3 DEF ThreadInv
<1>3. \A u \in Threads \ {t} : SameLocals(u)
  BY DEF SameLocals, TypeOK
<1>4. pc'[t] \notin PushLabels
  BY DEF TypeOK, PushLabels
<1> QED BY <1>1, <1>2, <1>3, <1>4, ConsumerFrame

\* Leaving an operation resets the thread's private variables.
LEMMA ReturnLocals ==
  ASSUME NEW t \in Threads, TypeOK, Return(t)
  PROVE  /\ pc'[t] = "idle" /\ out'[t] = <<>>
         /\ \A u \in Threads \ {t} : SameLocals(u)
         /\ pc' \in [Threads -> Labels]
         /\ \A u \in Thieves : pc'[u] \notin PushLabels
         /\ oldHead' \in [Threads -> 0 .. MaxTasks]
         /\ newHead' \in [Threads -> 0 .. MaxTasks]
         /\ size' \in [Threads -> 0 .. MaxBatch]
         /\ maxGrab' \in [Threads -> 0 .. MaxBatch]
         /\ out' \in [Threads -> Seq(Task \union {Empty})]
         /\ \A u \in Threads : pc'[u] \in {"grabSlot", "grabCas"} => Len(out'[u]) <= size'[u]
<1> USE DEF TypeOK, Return, Goto
<1>1. pc'[t] = "idle" /\ out'[t] = <<>> /\ \A u \in Threads \ {t} : SameLocals(u)
  BY DEF SameLocals
<1>2. pc' \in [Threads -> Labels] /\ \A u \in Thieves : pc'[u] \notin PushLabels
  BY DEF Labels, PushLabels, Threads
<1>3. /\ oldHead' \in [Threads -> 0 .. MaxTasks] /\ newHead' \in [Threads -> 0 .. MaxTasks]
      /\ size' \in [Threads -> 0 .. MaxBatch] /\ maxGrab' \in [Threads -> 0 .. MaxBatch]
  BY WordAssumption, BatchAssumption
<1>4. out' \in [Threads -> Seq(Task \union {Empty})]
  BY DEF Task
<1>5. \A u \in Threads : pc'[u] \in {"grabSlot", "grabCas"} => Len(out'[u]) <= size'[u]
  BY <1>1 DEF SameLocals
<1> QED BY <1>1, <1>2, <1>3, <1>4, <1>5

LEMMA PopLoadTailInv ==
  ASSUME NEW t \in Threads, IndInv, PopLoadTail(t)
  PROVE  IndInv'
<1> USE DEF IndInv, PopLoadTail, IsEmpty
<1>1. CASE Return(t)
  <2>1. TypeOK'
    BY Zenon, <1>1, ReturnLocals DEF TypeOK
  <2>2. ThreadInv(t)'
    BY <1>1, ReturnLocals DEF ThreadInv, PopInv, GrabInv, OutInv
  <2> QED BY Zenon, <1>1, <2>1, <2>2, ReturnLocals, ConsumerFrame DEF PushLabels
<1>2. CASE tail # oldHead[t] /\ Goto(t, "popSlot") /\ UNCHANGED locals
  <2> USE <1>2 DEF Goto, locals
  <2>1. TypeOK'
    BY OwnerAssumption DEF TypeOK, Labels, PushLabels, Threads
  <2>2. ThreadInv(t)'
    <3>1. pc'[t] = "popSlot" /\ out'[t] = <<>>
      BY DEF TypeOK, ThreadInv, OutInv
    <3>2. oldHead[t] \in Int /\ oldHead[t] <= head /\ head <= tail /\ tail \in Int /\ head \in Int
      BY WordAssumption DEF TypeOK, ThreadInv, PopInv, Window
    <3>3. PopInv(t)'
      BY <3>1, <3>2 DEF PopInv
    <3>4. GrabInv(t)' /\ OutInv(t)'
      BY <3>1, OutsideGrab DEF OutInv
    <3> QED BY <3>3, <3>4 DEF ThreadInv
  <2>3. \A u \in Threads \ {t} : SameLocals(u)
    BY DEF SameLocals, TypeOK
  <2>4. pc'[t] \notin PushLabels
    BY DEF TypeOK, PushLabels
  <2> QED BY <2>1, <2>2, <2>3, <2>4, ConsumerFrame
<1> QED BY <1>1, <1>2

LEMMA PopLoadSlotInv ==
  ASSUME NEW t \in Threads, IndInv, PopLoadSlot(t)
  PROVE  IndInv'
<1> USE DEF IndInv, PopLoadSlot, Goto
<1>0. /\ oldHead[t] \in Nat /\ head \in Nat /\ tail \in Nat
      /\ oldHead[t] <= head /\ oldHead[t] < tail
  BY WordAssumption DEF TypeOK, ThreadInv, PopInv
<1>1. TypeOK'
  <2>1. buffer[oldHead[t] % Capacity] \in Task \union {Empty}
    BY <1>0, SlotRange DEF TypeOK
  <2>2. out' \in [Threads -> Seq(Task \union {Empty})]
    BY <2>1 DEF TypeOK
  <2>3. \A u \in Threads : pc'[u] \in {"grabSlot", "grabCas"} => Len(out'[u]) <= size'[u]
    BY DEF TypeOK
  <2> QED BY <2>2, <2>3, OwnerAssumption DEF TypeOK, Labels, PushLabels, Threads
<1>2. ThreadInv(t)'
  <2>1. pc'[t] = "popCas" /\ out'[t] = << buffer[oldHead[t] % Capacity] >>
    BY DEF TypeOK
  <2>2. head = oldHead[t] => buffer[oldHead[t] % Capacity] = oldHead[t]
    BY <1>0 DEF Window
  <2>3. Len(out'[t]) = 1 /\ out'[t][1] = buffer[oldHead[t] % Capacity]
    BY <2>1
  <2>4. PopInv(t)'
    BY <1>0, <2>1, <2>2, <2>3 DEF PopInv
  <2>5. GrabInv(t)' /\ OutInv(t)'
    BY <2>1, OutsideGrab DEF OutInv
  <2> QED BY <2>4, <2>5 DEF ThreadInv
<1>3. \A u \in Threads \ {t} : SameLocals(u)
  BY DEF SameLocals, TypeOK
<1>4. pc'[t] \notin PushLabels
  BY DEF TypeOK, PushLabels
<1> QED BY <1>1, <1>2, <1>3, <1>4, ConsumerFrame

\* Appending the next m tasks to the first n gives the first n + m.
LEMMA TakenConcat ==
  ASSUME NEW S, NEW n \in Nat, NEW r \in Seq(S), NEW s \in Seq(S),
         s = [i \in 1 .. n |-> i - 1],
         \A i \in 1 .. Len(r) : r[i] = n + i - 1
  PROVE  s \o r = [i \in 1 .. n + Len(r) |-> i - 1]
<1>1. Len(s) = n
  <2>1. DOMAIN s = 1 .. n
    OBVIOUS
  <2> QED BY <2>1, LenProperties
<1>2. /\ s \o r \in Seq(S) /\ Len(s \o r) = n + Len(r)
      /\ \A i \in 1 .. n + Len(r) :
           (s \o r)[i] = IF i <= n THEN s[i] ELSE r[i - n]
  BY <1>1, ConcatProperties
<1>3. ASSUME NEW i \in 1 .. n + Len(r) PROVE (s \o r)[i] = i - 1
  <2>1. CASE i <= n
    BY <1>2, <2>1
  <2>2. CASE ~(i <= n)
    <3>1. i - n \in 1 .. Len(r)
      BY <2>2, LenProperties
    <3>2. r[i - n] = n + (i - n) - 1
      BY <3>1
    <3> QED BY <1>2, <2>2, <3>2
  <2> QED BY <2>1, <2>2
<1>4. s \o r = [i \in 1 .. Len(s \o r) |-> (s \o r)[i]]
  BY <1>2, LenProperties
<1> QED BY <1>2, <1>3, <1>4

\* A compare_exchange of head_ that succeeds: consumer t returns the tasks
\* head .. newh - 1, and the rest of the invariant survives.
LEMMA AdvanceHead ==
  ASSUME NEW t \in Threads, IndInv, NEW newh \in Nat,
         head <= newh, newh <= tail, head' = newh, Return(t),
         UNCHANGED <<tail, buffer>>,
         NEW r \in Seq(Task \union {Empty}), Len(r) = newh - head,
         \A i \in 1 .. Len(r) : r[i] = head + i - 1, taken' = taken \o r
  PROVE  IndInv'
<1> USE DEF IndInv
<1>0. head \in Nat /\ tail \in Nat /\ newh <= MaxTasks
  BY WordAssumption DEF TypeOK
<1>1. TypeOK'
  <2>1. taken' \in Seq(Task \union {Empty})
    BY ConcatProperties DEF TypeOK
  <2>2. head' \in 0 .. MaxTasks
    BY <1>0, WordAssumption
  <2> QED BY Zenon, <2>1, <2>2, ReturnLocals DEF TypeOK
<1>2. Window'
  <2>1. head' <= tail' /\ tail' <= head' + Capacity
    BY <1>0, CapacityAssumption DEF Window
  <2>2. ASSUME NEW i \in head' .. tail' - 1 PROVE buffer'[i % Capacity] = i
    <3>1. i \in head .. tail - 1
      BY <1>0
    <3> QED BY <3>1 DEF Window
  <2> QED BY <2>1, <2>2 DEF Window
<1>3. PushInv'
  <2>1. Owner \in Threads
    BY DEF Threads
  <2>2. CASE t = Owner
    BY <2>2, ReturnLocals DEF PushInv
  <2>3. CASE t # Owner
    <3>1. pc'[Owner] = pc[Owner]
      BY <2>1, <2>3, ReturnLocals DEF SameLocals
    <3> QED BY <3>1, <1>0, CapacityAssumption DEF PushInv
  <2> QED BY <2>2, <2>3
<1>4. ASSUME NEW u \in Threads PROVE ThreadInv(u)'
  <2>1. CASE u = t
    BY Zenon, <2>1, ReturnLocals DEF ThreadInv, PopInv, GrabInv, OutInv
  <2>2. CASE u # t
    <3>1. SameLocals(u)
      BY <2>2, ReturnLocals
    <3>2. head' \in Nat /\ tail' \in Nat /\ head <= head' /\ tail <= tail'
      BY <1>0
    <3> QED BY Zenon, <3>1, <3>2, ThreadFrame DEF SameLocals
  <2> QED BY <2>1, <2>2
<1>5. ExactlyOnceInOrder'
  <2>1. taken = [i \in 1 .. head |-> i - 1] /\ taken \in Seq(Task \union {Empty})
    BY DEF ExactlyOnceInOrder, TypeOK
  <2>2. taken \o r = [i \in 1 .. head + Len(r) |-> i - 1]
    BY <1>0, <2>1, TakenConcat
  <2>3. head + Len(r) = head'
    BY <1>0
  <2> QED BY Zenon, <2>2, <2>3 DEF ExactlyOnceInOrder
<1> QED BY <1>1, <1>2, <1>3, <1>4, <1>5

LEMMA PopCasInv ==
  ASSUME NEW t \in Threads, IndInv, PopCas(t)
  PROVE  IndInv'
<1> USE DEF IndInv, PopCas, CasFailed
<1>0. /\ oldHead[t] \in Nat /\ head \in Nat /\ tail \in Nat
      /\ oldHead[t] <= head /\ oldHead[t] < tail /\ head <= tail
  BY WordAssumption DEF TypeOK, ThreadInv, PopInv, Window
<1>1. CASE head = oldHead[t] /\ head' = oldHead[t] + 1 /\ taken' = taken \o out[t] /\ Return(t)
  <2>1. out[t] \in Seq(Task \union {Empty}) /\ Len(out[t]) = 1 /\ out[t][1] = head
    BY <1>1 DEF TypeOK, ThreadInv, PopInv
  <2>2. \A i \in 1 .. Len(out[t]) : out[t][i] = head + i - 1
    BY <1>0, <2>1
  <2>3. /\ oldHead[t] + 1 \in Nat /\ head <= oldHead[t] + 1 /\ oldHead[t] + 1 <= tail
        /\ Len(out[t]) = (oldHead[t] + 1) - head
    BY <1>0, <1>1, <2>1
  <2> QED BY Zenon, <1>1, <2>1, <2>2, <2>3, AdvanceHead
<1>2. CASE /\ oldHead' = [oldHead EXCEPT ![t] = head]
           /\ out' = [out EXCEPT ![t] = <<>>]
           /\ Goto(t, "popTail")
           /\ UNCHANGED <<head, newHead, size, maxGrab, taken>>
  <2> USE <1>2 DEF Goto
  <2>1. TypeOK'
    <3>1. out' \in [Threads -> Seq(Task \union {Empty})]
      BY DEF TypeOK
    <3>2. \A u \in Threads : pc'[u] \in {"grabSlot", "grabCas"} => Len(out'[u]) <= size'[u]
      BY DEF TypeOK
    <3> QED BY <3>1, <3>2, OwnerAssumption DEF TypeOK, Labels, PushLabels, Threads
  <2>2. ThreadInv(t)'
    <3>1. pc'[t] = "popTail" /\ oldHead'[t] = head /\ out'[t] = <<>>
      BY DEF TypeOK
    <3>2. PopInv(t)'
      BY <1>0, <3>1 DEF PopInv
    <3>3. GrabInv(t)' /\ OutInv(t)'
      BY <3>1, OutsideGrab DEF OutInv
    <3> QED BY <3>2, <3>3 DEF ThreadInv
  <2>3. \A u \in Threads \ {t} : SameLocals(u)
    BY DEF SameLocals, TypeOK
  <2>4. pc'[t] \notin PushLabels
    BY DEF TypeOK, PushLabels
  <2> QED BY <2>1, <2>2, <2>3, <2>4, ConsumerFrame
<1> QED BY <1>1, <1>2

LEMMA GrabLoadTailInv ==
  ASSUME NEW t \in Threads, IndInv, GrabLoadTail(t)
  PROVE  IndInv'
<1> USE DEF IndInv, GrabLoadTail, Goto
<1>0. pc[t] \in {"idle", "grabTail"} /\ pc' = [pc EXCEPT ![t] = "grabHead"] /\ out'[t] = <<>>
  BY DEF ThreadInv, OutInv
<1>1. size' \in [Threads -> 0 .. MaxBatch] /\ \A u \in Threads \ {t} : size'[u] = size[u]
  BY Zenon DEF TypeOK
<1>2. TypeOK'
  BY <1>0, <1>1, OwnerAssumption DEF TypeOK, Labels, PushLabels, Threads
<1>3. ThreadInv(t)'
  <2>1. pc'[t] = "grabHead" /\ newHead'[t] = tail /\ tail \in Nat
    BY <1>0, WordAssumption DEF TypeOK
  <2>2. GrabInv(t)'
    <3>1. newHead'[t] <= tail' /\ pc'[t] = "grabHead"
      BY <2>1
    <3> QED BY <3>1 DEF GrabInv
  <2>3. PopInv(t)' /\ OutInv(t)'
    BY <1>0, <2>1, OutsidePop DEF OutInv
  <2> QED BY <2>2, <2>3 DEF ThreadInv
<1>4. \A u \in Threads \ {t} : SameLocals(u)
  BY <1>0, <1>1 DEF SameLocals, TypeOK
<1>5. pc'[t] \notin PushLabels
  BY <1>0 DEF TypeOK, PushLabels
<1> QED BY <1>2, <1>3, <1>4, <1>5, ConsumerFrame

\* Starting over keeps the span and forgets the rest.
LEMMA GrabAgainInv ==
  ASSUME NEW t \in Threads, IndInv, GrabAgain(t), UNCHANGED <<head, tail, buffer, taken>>
  PROVE  IndInv'
<1> USE DEF IndInv, GrabAgain, Goto
<1>1. pc'[t] = "grabTail" /\ out'[t] = <<>> /\ \A u \in Threads \ {t} : SameLocals(u)
  BY DEF TypeOK, SameLocals
<1>2. TypeOK'
  <2>1. pc' \in [Threads -> Labels] /\ \A u \in Thieves : pc'[u] \notin PushLabels
    BY DEF TypeOK, Labels, PushLabels, Threads
  <2>2. /\ oldHead' \in [Threads -> 0 .. MaxTasks] /\ newHead' \in [Threads -> 0 .. MaxTasks]
        /\ maxGrab' \in [Threads -> 0 .. MaxBatch]
    BY WordAssumption, BatchAssumption DEF TypeOK
  <2>3. out' \in [Threads -> Seq(Task \union {Empty})]
    BY DEF TypeOK
  <2>4. \A u \in Threads : pc'[u] \in {"grabSlot", "grabCas"} => Len(out'[u]) <= size'[u]
    BY <1>1 DEF SameLocals, TypeOK
  <2> QED BY <2>1, <2>2, <2>3, <2>4 DEF TypeOK
<1>3. ThreadInv(t)'
  BY Zenon, <1>1 DEF ThreadInv, PopInv, GrabInv, OutInv
<1> QED BY <1>1, <1>2, <1>3, ConsumerFrame DEF PushLabels

\* The arithmetic of max_grab and new_head: a stale tail_ (nh < h) leaves
\* new_head below old_head, otherwise new_head = old_head + max_grab.
LEMMA GrabArithmetic ==
  ASSUME NEW sz \in Nat, NEW nh \in Nat, NEW h \in Nat, nh <= MaxTasks, h <= MaxTasks,
         NEW mg, mg = Least(sz, USub(nh, h)), mg # 0,
         NEW new, new = Least(nh, h + mg)
  PROVE  /\ mg \in Nat /\ 0 < mg /\ mg <= sz
         /\ new \in Nat /\ new <= nh /\ (h < new => new = h + mg)
<1>1. USub(nh, h) \in Nat /\ (h <= nh => USub(nh, h) = nh - h)
  BY WordAssumption, BatchAssumption DEF USub
<1>2. mg \in Nat /\ 0 < mg /\ mg <= sz /\ mg <= USub(nh, h)
  BY <1>1 DEF Least
<1>3. CASE h <= nh
  BY <1>1, <1>2, <1>3 DEF Least
<1>4. CASE nh < h
  BY <1>2, <1>4 DEF Least
<1> QED BY <1>2, <1>3, <1>4

LEMMA GrabLoadHeadInv ==
  ASSUME NEW t \in Threads, IndInv, GrabLoadHead(t)
  PROVE  IndInv'
<1>1. /\ TypeOK /\ ThreadInv(t) /\ head <= tail
      /\ pc[t] = "grabHead" /\ UNCHANGED <<head, tail, buffer, taken>>
  BY DEF IndInv, Window, GrabLoadHead
<1>2. /\ head \in Nat /\ newHead[t] \in Nat /\ size[t] \in Nat
      /\ head <= MaxTasks /\ newHead[t] <= MaxTasks /\ size[t] <= MaxBatch
  BY <1>1, WordAssumption, BatchAssumption DEF TypeOK
<1>3. newHead[t] <= tail /\ out[t] = <<>> /\ tail \in Nat
  BY <1>1, WordAssumption DEF TypeOK, ThreadInv, GrabInv, OutInv
<1>4. CASE Return(t)
  <2>1. TypeOK'
    BY Zenon, <1>1, <1>4, ReturnLocals DEF TypeOK
  <2>2. ThreadInv(t)'
    BY Zenon, <1>1, <1>4, ReturnLocals, OutsidePop, OutsideGrab DEF ThreadInv, OutInv
  <2> QED BY Zenon, <1>1, <1>4, <2>1, <2>2, ReturnLocals, ConsumerFrame DEF PushLabels
<1>5. CASE MaxGrab(t) # 0
  <2> DEFINE mg == MaxGrab(t)
             nh == Least(newHead[t], head + mg)
  <2>1. /\ oldHead' = [oldHead EXCEPT ![t] = head]
        /\ newHead' = [newHead EXCEPT ![t] = nh]
        /\ maxGrab' = [maxGrab EXCEPT ![t] = mg]
        /\ pc' = [pc EXCEPT ![t] = "grabSlot"]
        /\ UNCHANGED <<size, out>>
    BY <1>1, <1>5 DEF GrabLoadHead, Goto, TypeOK
  <2>2. /\ mg \in Nat /\ 0 < mg /\ mg <= size[t]
        /\ nh \in Nat /\ nh <= newHead[t] /\ (head < nh => nh = head + mg)
    BY SMTT(30), <1>2, <1>5, GrabArithmetic DEF MaxGrab
  <2> HIDE DEF mg, nh
  <2>3. TypeOK'
    <3>1. mg \in 0 .. MaxBatch /\ nh \in 0 .. MaxTasks
      BY <1>2, <2>2, BatchAssumption, WordAssumption
    <3>2. \A u \in Threads : pc'[u] \in {"grabSlot", "grabCas"} => Len(out'[u]) <= size'[u]
      BY <1>1, <1>2, <1>3, <2>1 DEF TypeOK
    <3>3. pc' \in [Threads -> Labels] /\ \A u \in Thieves : pc'[u] \notin PushLabels
      BY <1>1, <2>1 DEF TypeOK, Labels, PushLabels, Threads
    <3> QED BY Zenon, <1>1, <2>1, <3>1, <3>2, <3>3 DEF TypeOK
  <2>4. /\ pc'[t] = "grabSlot" /\ oldHead'[t] = head /\ newHead'[t] = nh /\ maxGrab'[t] = mg
        /\ size'[t] = size[t] /\ out'[t] = <<>>
    BY <1>1, <1>3, <2>1 DEF TypeOK
  <2>5. ThreadInv(t)'
    <3>1. Len(out'[t]) = 0
      BY <2>4
    <3>2. head < nh => First(t)' = head
      BY <1>2, <2>2, <2>4 DEF First
    <3>3. nh <= tail
      BY <1>3, <2>2, <1>2
    <3>4. GrabInv(t)'
      BY <1>1, <1>2, <2>2, <2>4, <3>1, <3>2, <3>3 DEF GrabInv
    <3>5. PopInv(t)' /\ OutInv(t)'
      BY <2>4, OutsidePop DEF OutInv
    <3> QED BY <3>4, <3>5 DEF ThreadInv
  <2>6. \A u \in Threads \ {t} : SameLocals(u)
    BY <1>1, <2>1 DEF SameLocals, TypeOK
  <2> QED BY <1>1, <2>3, <2>4, <2>5, <2>6, ConsumerFrame DEF PushLabels
<1> QED BY Zenon, <1>4, <1>5 DEF GrabLoadHead

LEMMA GrabLoadSlotInv ==
  ASSUME NEW t \in Threads, IndInv, GrabLoadSlot(t)
  PROVE  IndInv'
<1> DEFINE k == Len(out[t])
           task == buffer[(oldHead[t] + k) % Capacity]
<1>1. /\ TypeOK /\ ThreadInv(t) /\ Window
      /\ pc[t] = "grabSlot" /\ UNCHANGED <<head, tail, buffer, taken>>
  BY DEF IndInv, GrabLoadSlot
<1>2. /\ head \in Nat /\ tail \in Nat /\ newHead[t] \in Nat /\ oldHead[t] \in Nat
      /\ size[t] \in Nat /\ maxGrab[t] \in Nat
  BY <1>1, WordAssumption, BatchAssumption DEF TypeOK
<1>3. out[t] \in Seq(Task \union {Empty}) /\ k \in Nat
  BY <1>1 DEF TypeOK
<1>4. /\ oldHead[t] <= head /\ newHead[t] <= tail /\ k < maxGrab[t] /\ maxGrab[t] <= size[t]
      /\ oldHead[t] < newHead[t] => First(t) = oldHead[t]
  BY Zenon, <1>1 DEF ThreadInv, GrabInv
<1>5. oldHead[t] < newHead[t] =>
        \A i \in 1 .. k : head <= First(t) + i - 1 => out[t][i] = First(t) + i - 1
  BY Zenon, <1>1 DEF ThreadInv, GrabInv
<1>6. CASE GrabAgain(t)
  BY <1>1, <1>6, GrabAgainInv
<1>7. CASE /\ ~(k + 1 = maxGrab[t] /\ oldHead[t] >= newHead[t])
           /\ out' = [out EXCEPT ![t] = Append(out[t], task)]
           /\ Goto(t, IF k + 1 = maxGrab[t] THEN "grabCas" ELSE "grabSlot")
           /\ UNCHANGED <<oldHead, newHead, size, maxGrab>>
  <2> DEFINE label == IF k + 1 = maxGrab[t] THEN "grabCas" ELSE "grabSlot"
             new == Append(out[t], task)
  <2>1. task \in Task \union {Empty}
    <3>1. oldHead[t] + k \in Nat
      BY <1>2, <1>3
    <3>2. (oldHead[t] + k) % Capacity \in 0 .. Capacity - 1
      BY <3>1, SlotRange
    <3> QED BY <1>1, <3>2 DEF TypeOK
  <2>2. pc' = [pc EXCEPT ![t] = label] /\ pc'[t] = label /\ out'[t] = new
    BY <1>1, <1>7 DEF TypeOK, Goto
  <2>3. /\ new \in Seq(Task \union {Empty}) /\ Len(new) = k + 1
        /\ \A i \in 1 .. k : new[i] = out[t][i]
        /\ new[k + 1] = task
    BY <1>3, <2>1, AppendProperties
  <2>4. k + 1 = maxGrab[t] => oldHead[t] < newHead[t]
    BY <1>2, <1>7
  <2>5. oldHead[t] < newHead[t] => (head <= oldHead[t] + k => task = oldHead[t] + k)
    <3> SUFFICES ASSUME oldHead[t] < newHead[t], head <= oldHead[t] + k
                 PROVE  task = oldHead[t] + k
      OBVIOUS
    <3> HIDE DEF k
    <3>1. newHead[t] = oldHead[t] + maxGrab[t]
      BY <1>2, <1>4 DEF First
    <3>2. oldHead[t] + k \in head .. tail - 1
      BY <1>2, <1>3, <1>4, <3>1
    <3> QED BY <1>1, <3>2 DEF Window
  <2>6. out' = [out EXCEPT ![t] = new] /\ UNCHANGED <<oldHead, newHead, size, maxGrab>>
    BY <1>7
  <2>7. label \in {"grabCas", "grabSlot"}
    OBVIOUS
  <2>8. /\ label = "grabCas" => k + 1 = maxGrab[t]
        /\ label = "grabSlot" => k + 1 # maxGrab[t]
    OBVIOUS
  <2> HIDE DEF k, task, label, new
  <2>9. k + 1 <= size[t] /\ (k + 1 # maxGrab[t] => k + 1 < maxGrab[t])
    BY <1>2, <1>3, <1>4
  <2>10. TypeOK'
    <3>1. out' \in [Threads -> Seq(Task \union {Empty})]
      BY <1>1, <2>3, <2>6 DEF TypeOK
    <3>2. ASSUME NEW u \in Threads, pc'[u] \in {"grabSlot", "grabCas"}
          PROVE Len(out'[u]) <= size'[u]
      <4>1. CASE u = t
        BY <2>2, <2>3, <2>6, <2>9, <4>1
      <4>2. CASE u # t
        BY <1>1, <2>2, <2>6, <3>2, <4>2 DEF TypeOK
      <4> QED BY <4>1, <4>2
    <3>3. pc' \in [Threads -> Labels] /\ \A u \in Thieves : pc'[u] \notin PushLabels
      BY <1>1, <2>2, <2>7 DEF TypeOK, Labels, PushLabels, Threads
    <3> QED BY Zenon, <1>1, <2>6, <3>1, <3>2, <3>3 DEF TypeOK
  <2>11. First(t)' = First(t) /\ First(t) \in Int
    BY <1>2, <2>6 DEF First
  <2>12. oldHead[t] < newHead[t] =>
           \A i \in 1 .. k + 1 : head <= First(t) + i - 1 => new[i] = First(t) + i - 1
    <3> SUFFICES ASSUME oldHead[t] < newHead[t], NEW i \in 1 .. k + 1,
                        head <= First(t) + i - 1
                 PROVE  new[i] = First(t) + i - 1
      OBVIOUS
    <3>1. CASE i \in 1 .. k
      BY <1>5, <2>3, <3>1
    <3>2. CASE i = k + 1
      <4>1. First(t) = oldHead[t] /\ oldHead[t] + k = First(t) + i - 1
        BY <1>2, <1>3, <1>4, <3>2
      <4>2. task = oldHead[t] + k
        BY <2>5, <4>1
      <4> QED BY <2>3, <3>2, <4>1, <4>2
    <3>3. i \in 1 .. k \/ i = k + 1
      BY <1>3
    <3> QED BY <3>1, <3>2, <3>3
  <2>13. GrabInv(t)'
    <3>1. Len(out'[t]) = k + 1 /\ out'[t] = new
      BY <2>2, <2>3
    <3>2. oldHead'[t] < newHead'[t] =>
            \A i \in 1 .. Len(out'[t]) :
              head' <= First(t)' + i - 1 => out'[t][i] = First(t)' + i - 1
      BY Zenon, <1>1, <2>6, <2>11, <2>12, <3>1
    <3>3. CASE label = "grabCas"
      <4>1. oldHead[t] < newHead[t] /\ First(t) = oldHead[t] /\ k + 1 = maxGrab[t]
        BY <1>4, <2>4, <2>8, <3>3
      <4>2. pc'[t] = "grabCas" /\ Len(out'[t]) = maxGrab'[t]
        BY <2>2, <2>6, <3>1, <3>3, <4>1
      <4>3. /\ oldHead'[t] <= head' /\ newHead'[t] <= tail'
            /\ oldHead'[t] < newHead'[t] /\ First(t)' <= oldHead'[t] /\ 0 <= First(t)'
        BY <1>1, <1>2, <1>4, <2>6, <2>11, <4>1
      <4> QED BY Zenon, <3>2, <4>2, <4>3 DEF GrabInv
    <3>4. CASE label = "grabSlot"
      <4>1. k + 1 < maxGrab[t]
        BY <2>8, <2>9, <3>4
      <4> QED BY Zenon, <1>1, <1>2, <1>4, <2>2, <2>6, <2>11, <3>1, <3>2, <3>4, <4>1 DEF GrabInv
    <3> QED BY <2>7, <3>3, <3>4
  <2>14. PopInv(t)' /\ OutInv(t)'
    BY <2>2, <2>7, OutsidePop DEF OutInv
  <2>15. \A u \in Threads \ {t} : SameLocals(u)
    BY <1>1, <2>2, <2>6 DEF SameLocals, TypeOK
  <2>16. pc'[t] \notin PushLabels
    BY <2>2, <2>7 DEF PushLabels
  <2> QED BY <1>1, <2>10, <2>13, <2>14, <2>15, <2>16, ConsumerFrame DEF ThreadInv
<1> QED BY <1>6, <1>7 DEF GrabLoadSlot

\* The index arithmetic of the shift after a compare_exchange that succeeded
\* only when others had taken the first oh - f tasks.
LEMMA ShiftArithmetic ==
  ASSUME NEW f \in Int, NEW oh \in Nat, NEW nh \in Nat, f <= oh, oh < nh,
         NEW mg, mg = nh - f, NEW i \in 1 .. nh - oh, NEW j, j = mg - (nh - oh) + i
  PROVE  j \in 1 .. mg /\ f + j - 1 = oh + i - 1 /\ oh <= f + j - 1
<1>1. j = (oh - f) + i /\ i \in Int /\ 1 <= i /\ i <= nh - oh
  OBVIOUS
<1> QED BY <1>1

LEMMA GrabCasInv ==
  ASSUME NEW t \in Threads, IndInv, GrabCas(t)
  PROVE  IndInv'
<1> DEFINE r == Grabbed(t)
<1>1. TypeOK /\ ThreadInv(t) /\ pc[t] = "grabCas" /\ UNCHANGED <<tail, buffer>>
  BY Zenon DEF IndInv, GrabCas
<1>2. /\ head \in Nat /\ tail \in Nat /\ newHead[t] \in Nat /\ oldHead[t] \in Nat
      /\ size[t] \in Nat /\ maxGrab[t] \in Nat /\ MaxTasks \in Nat /\ tail <= MaxTasks
  BY <1>1, WordAssumption, BatchAssumption DEF TypeOK
<1>3. /\ oldHead[t] <= head /\ newHead[t] <= tail
      /\ oldHead[t] < newHead[t] /\ 0 <= First(t) /\ First(t) <= oldHead[t]
      /\ Len(out[t]) = maxGrab[t]
  BY Zenon, <1>1 DEF ThreadInv, GrabInv
<1>4. \A i \in 1 .. Len(out[t]) : head <= First(t) + i - 1 => out[t][i] = First(t) + i - 1
  BY Zenon, <1>1, <1>3 DEF ThreadInv, GrabInv
<1>5. First(t) \in Int /\ maxGrab[t] = newHead[t] - First(t)
  BY <1>2 DEF First
<1>6. CASE head = oldHead[t] /\ head' = newHead[t] /\ taken' = taken \o r /\ Return(t)
  <2> DEFINE n == newHead[t] - oldHead[t]
  <2>1. n \in Nat /\ n = newHead[t] - head /\ head <= newHead[t]
    BY SMTT(30), <1>2, <1>3, <1>6
  <2>2. ASSUME NEW i \in 1 .. n PROVE out[t][maxGrab[t] - n + i] = head + i - 1
    <3> DEFINE j == maxGrab[t] - n + i
    <3>1. j \in 1 .. maxGrab[t] /\ First(t) + j - 1 = oldHead[t] + i - 1
                                /\ oldHead[t] <= First(t) + j - 1
      BY Zenon, <1>2, <1>3, <1>5, ShiftArithmetic
    <3> HIDE DEF j
    <3>2. out[t][j] = First(t) + j - 1
      BY <1>3, <1>4, <1>6, <3>1
    <3> QED BY <1>6, <3>1, <3>2 DEF j
  <2>3. r = [i \in 1 .. n |-> head + i - 1]
    BY <2>2 DEF Grabbed
  <2>4. \A i \in 1 .. n : head + i - 1 \in Task \union {Empty}
    BY <1>2, <1>3, <2>1 DEF Task
  <2> HIDE DEF r, n
  <2>5. r \in [1 .. n -> Task \union {Empty}]
    BY <2>3, <2>4
  <2>6. r \in Seq(Task \union {Empty})
    BY <2>1, <2>5, SeqDef
  <2>7. DOMAIN r = 1 .. n /\ DOMAIN r = 1 .. Len(r) /\ Len(r) \in Nat
    BY <2>5, <2>6, LenProperties
  <2>8. Len(r) = n
    BY <2>1, <2>7
  <2>9. \A i \in 1 .. Len(r) : r[i] = head + i - 1
    BY Zenon, <2>3, <2>8
  <2> QED BY Zenon, <1>1, <1>2, <1>3, <1>6, <2>1, <2>6, <2>8, <2>9, AdvanceHead
<1>7. CASE GrabAgain(t) /\ UNCHANGED <<head, taken>>
  BY <1>1, <1>7, GrabAgainInv
<1>8. CASE /\ head < newHead[t]
           /\ oldHead' = [oldHead EXCEPT ![t] = head]
           /\ UNCHANGED <<pc, newHead, size, maxGrab, out, head, taken>>
  <2>1. TypeOK'
    BY <1>1, <1>8 DEF TypeOK
  <2>2. oldHead'[t] = head
    BY <1>1, <1>8 DEF TypeOK
  <2>3. First(t)' = First(t) /\ First(t) <= head
    <3>0. First(t) <= oldHead[t] /\ oldHead[t] <= head
      BY <1>3
    <3>1. First(t) <= head
      BY <3>0, <1>2, <1>5
    <3>2. First(t)' = First(t)
      BY Zenon, <1>8 DEF First
    <3> QED BY <3>1, <3>2
  <2>4. GrabInv(t)'
    <3>1. /\ pc'[t] = "grabCas" /\ head' = head /\ tail' = tail
          /\ newHead'[t] = newHead[t] /\ out'[t] = out[t] /\ maxGrab'[t] = maxGrab[t]
      BY Zenon, <1>1, <1>8
    <3>2. oldHead'[t] <= head' /\ newHead'[t] <= tail' /\ oldHead'[t] < newHead'[t]
      BY SMTT(30), <3>1, <2>2, <1>2, <1>3, <1>8
    <3>3. First(t)' <= oldHead'[t] /\ 0 <= First(t)' /\ Len(out'[t]) = maxGrab'[t]
      BY Zenon, <3>1, <2>2, <2>3, <1>3
    <3>4. \A i \in 1 .. Len(out'[t]) :
            head' <= First(t)' + i - 1 => out'[t][i] = First(t)' + i - 1
      BY Zenon, <3>1, <2>3, <1>4
    <3> HIDE <1>8
    <3> QED BY <3>1, <3>2, <3>3, <3>4, Zenon DEF GrabInv
  <2>5. PopInv(t)' /\ OutInv(t)'
    BY <1>1, <1>8, OutsidePop DEF OutInv
  <2>6. \A u \in Threads \ {t} : SameLocals(u)
    BY <1>1, <1>8 DEF SameLocals, TypeOK
  <2> QED BY <1>1, <1>8, <2>1, <2>4, <2>5, <2>6, ConsumerFrame DEF PushLabels, ThreadInv
<1> QED BY Zenon, <1>1, <1>6, <1>7, <1>8 DEF GrabCas, CasFailed

-----------------------------------------------------------------------------
(* The theorems. *)

LEMMA InitInv == Init => IndInv
<1> SUFFICES ASSUME Init PROVE IndInv
  OBVIOUS
<1> USE DEF Init
<1>1. TypeOK
  <2>1. pc \in [Threads -> Labels] /\ \A t \in Thieves : pc[t] \notin PushLabels
    BY DEF Labels, PushLabels, Threads
  <2>2. out \in [Threads -> Seq(Task \union {Empty})] /\ taken \in Seq(Task \union {Empty})
    OBVIOUS
  <2>3. \A t \in Threads : pc[t] \in {"grabSlot", "grabCas"} => Len(out[t]) <= size[t]
    OBVIOUS
  <2>4. /\ head \in 0 .. MaxTasks /\ tail \in 0 .. MaxTasks
        /\ oldHead \in [Threads -> 0 .. MaxTasks] /\ newHead \in [Threads -> 0 .. MaxTasks]
        /\ size \in [Threads -> 0 .. MaxBatch] /\ maxGrab \in [Threads -> 0 .. MaxBatch]
    BY WordAssumption, BatchAssumption
  <2> QED BY <2>1, <2>2, <2>3, <2>4 DEF TypeOK
<1>2. Window
  BY CapacityAssumption DEF Window
<1>3. PushInv
  BY DEF PushInv, Threads
<1>4. \A t \in Threads : ThreadInv(t)
  BY DEF ThreadInv, PopInv, GrabInv, OutInv
<1>5. ExactlyOnceInOrder
  BY DEF ExactlyOnceInOrder
<1> QED BY <1>1, <1>2, <1>3, <1>4, <1>5 DEF IndInv

LEMMA NextInv == IndInv /\ [Next]_vars => IndInv'
<1> SUFFICES ASSUME IndInv, [Next]_vars PROVE IndInv'
  OBVIOUS
<1>1. CASE OwnerPush
  BY <1>1, PushCheckInv, PushStoreInv, PushPublishInv DEF OwnerPush
<1>2. ASSUME NEW t \in Threads, Pop(t) PROVE IndInv'
  BY <1>2, PopLoadHeadInv, PopLoadTailInv, PopLoadSlotInv, PopCasInv DEF Pop
<1>3. ASSUME NEW t \in Threads, Grab(t) PROVE IndInv'
  BY <1>3, GrabLoadTailInv, GrabLoadHeadInv, GrabLoadSlotInv, GrabCasInv DEF Grab
<1>4. CASE UNCHANGED vars
  BY Zenon, <1>4 DEF vars, IndInv, TypeOK, Window, PushInv, ThreadInv, PopInv, GrabInv, First,
              OutInv, ExactlyOnceInOrder
<1> QED BY <1>1, <1>2, <1>3, <1>4 DEF Next

\* The inductive invariant holds of every run of the queue.
THEOREM Invariance == Spec => []IndInv
BY InitInv, NextInv, PTL DEF Spec

\* Type correctness of the queue and of the private variables of its callers.
THEOREM TypeCorrect == Spec => []TypeOK
<1>1. IndInv => TypeOK
  BY DEF IndInv
<1> QED BY Invariance, <1>1, PTL

\* TryPop and Grab together return every pushed task once and in push order,
\* for any capacity, number of thieves and batch size.
THEOREM TasksTakenOnceInOrder == Spec => []ExactlyOnceInOrder
<1>1. IndInv => ExactlyOnceInOrder
  BY DEF IndInv
<1> QED BY Invariance, <1>1, PTL

\* TryPop answers nullptr only when the queue is empty at that moment.
THEOREM NullOnlyWhenEmpty == Spec => PopNullOnlyWhenEmpty
<1>1. IndInv /\ [Next]_vars => [NullMeansEmpty]_vars
  <2> SUFFICES ASSUME IndInv, Next, NEW t \in Threads, pc[t] = "popTail", pc'[t] = "idle"
               PROVE  head = tail
    BY Zenon DEF NullMeansEmpty
  <2> USE DEF IndInv, TypeOK
  <2>1. CASE OwnerPush
    BY Zenon, <2>1 DEF OwnerPush, PushCheck, PushStore, PushPublish, Goto, vars
  <2>2. ASSUME NEW u \in Threads, Pop(u), u = t PROVE head = tail
    <3>1. tail = oldHead[t]
      BY Zenon, <2>2 DEF Pop, PopLoadHead, PopLoadTail, IsEmpty, PopLoadSlot, PopCas, Goto
    <3>2. oldHead[t] <= head /\ head <= tail /\ head \in Int /\ tail \in Int /\ oldHead[t] \in Int
      BY WordAssumption DEF ThreadInv, PopInv, Window
    <3> QED BY <3>1, <3>2
  <2>3. ASSUME NEW u \in Threads, Pop(u), u # t PROVE FALSE
    BY <2>3 DEF Pop, PopLoadHead, PopLoadTail, PopLoadSlot, PopCas, Goto, Return
  <2>4. ASSUME NEW u \in Threads, Grab(u) PROVE FALSE
    <3>1. pc'[t] = pc[t] \/ u = t
      BY <2>4 DEF Grab, GrabLoadTail, GrabLoadHead, GrabLoadSlot, GrabCas, GrabAgain, Goto, Return
    <3>2. pc[u] # "popTail"
      BY <2>4 DEF Grab, GrabLoadTail, GrabLoadHead, GrabLoadSlot, GrabCas
    <3> QED BY <3>1, <3>2
  <2> QED BY <2>1, <2>2, <2>3, <2>4 DEF Next
<1> QED BY Invariance, <1>1, PTL DEF Spec, PopNullOnlyWhenEmpty

-----------------------------------------------------------------------------
(* Refinement. *)

\* The tasks inside the queue: the value the refinement gives to queue.
Inside(h, l) == [i \in 1 .. l - h |-> h + i - 1]

LEMMA InsideSeq ==
  ASSUME NEW h \in Nat, NEW l \in Nat, h <= l
  PROVE  /\ Inside(h, l) \in Seq(Nat) /\ Len(Inside(h, l)) = l - h
         /\ \A i \in 1 .. l - h : Inside(h, l)[i] = h + i - 1
<1> DEFINE q == Inside(h, l)
<1>1. q \in [1 .. l - h -> Nat]
  BY DEF Inside
<1>2. l - h \in Nat
  OBVIOUS
<1>3. q \in Seq(Nat)
  BY <1>1, <1>2, SeqDef
<1>4. DOMAIN q = 1 .. l - h /\ DOMAIN q = 1 .. Len(q) /\ Len(q) \in Nat
  BY <1>1, <1>3, LenProperties
<1>5. Len(q) = l - h
  BY <1>2, <1>4
<1>6. \A i \in 1 .. l - h : q[i] = h + i - 1
  BY DEF Inside
<1> QED BY <1>3, <1>5, <1>6

\* Pushing one task appends it.
LEMMA InsidePush ==
  ASSUME NEW h \in Nat, NEW l \in Nat, h <= l
  PROVE  Inside(h, l + 1) = Append(Inside(h, l), l)
<1> DEFINE q == Inside(h, l)
           p == Inside(h, l + 1)
           a == Append(q, l)
<1>1. q \in Seq(Nat) /\ Len(q) = l - h /\ \A i \in 1 .. l - h : q[i] = h + i - 1
  BY InsideSeq
<1>2. p \in Seq(Nat) /\ Len(p) = l + 1 - h /\ \A i \in 1 .. l + 1 - h : p[i] = h + i - 1
  BY InsideSeq
<1> HIDE DEF q, p
<1>3. /\ a \in Seq(Nat) /\ Len(a) = Len(q) + 1
      /\ \A i \in 1 .. Len(q) : a[i] = q[i]
      /\ a[Len(q) + 1] = l
  BY <1>1, AppendProperties
<1> HIDE DEF a
<1>4. ASSUME NEW i \in 1 .. Len(p) PROVE p[i] = a[i]
  <2>0. i \in 1 .. l - h \/ i = l + 1 - h
    <3>1. i \in 1 .. l + 1 - h
      BY <1>2
    <3> QED BY <3>1
  <2>1. CASE i \in 1 .. l - h
    BY <2>1, <1>1, <1>2, <1>3
  <2>2. CASE i = l + 1 - h
    BY <2>2, <1>1, <1>2, <1>3
  <2> QED BY <2>0, <2>1, <2>2
<1>5. Len(p) = Len(a)
  BY <1>1, <1>2, <1>3
<1>6. p = a
  BY <1>2, <1>3, <1>4, <1>5, SeqEqual
<1> QED BY <1>6 DEF p, a, q

\* Taking k tasks leaves the rest and returns a prefix.
LEMMA InsideTake ==
  ASSUME NEW h \in Nat, NEW l \in Nat, NEW k \in 1 .. l - h, h <= l
  PROVE  /\ Inside(h + k, l) = SubSeq(Inside(h, l), k + 1, Len(Inside(h, l)))
         /\ Inside(h, h + k) = SubSeq(Inside(h, l), 1, k)
<1> DEFINE q == Inside(h, l)
           rest == SubSeq(q, k + 1, l - h)
           pre == SubSeq(q, 1, k)
<1>0. h + k \in Nat /\ h + k <= l /\ k \in Nat /\ l - h \in Nat
  OBVIOUS
<1>1. q \in Seq(Nat) /\ Len(q) = l - h /\ \A i \in 1 .. l - h : q[i] = h + i - 1
  BY InsideSeq
<1>2. /\ Inside(h + k, l) \in Seq(Nat) /\ Len(Inside(h + k, l)) = l - (h + k)
      /\ \A i \in 1 .. l - (h + k) : Inside(h + k, l)[i] = (h + k) + i - 1
  BY <1>0, InsideSeq
<1>3. /\ Inside(h, h + k) \in Seq(Nat) /\ Len(Inside(h, h + k)) = k
      /\ \A i \in 1 .. k : Inside(h, h + k)[i] = h + i - 1
  <2>1. (h + k) - h = k /\ h <= h + k
    BY <1>0
  <2> QED BY <1>0, <2>1, InsideSeq
<1> HIDE DEF q
<1>4. \A i \in 1 .. l - h : q[i] \in Nat
  BY <1>0, <1>1
<1>5. /\ rest \in Seq(Nat) /\ Len(rest) = l - h - k
      /\ \A i \in 1 .. l - h - k : rest[i] = q[k + i]
  <2>1. k + 1 \in Int /\ l - h \in Int /\ \A i \in k + 1 .. l - h : q[i] \in Nat
    BY <1>0, <1>4
  <2>2. /\ rest \in Seq(Nat)
        /\ Len(rest) = IF k + 1 <= l - h THEN (l - h) - (k + 1) + 1 ELSE 0
        /\ \A i \in 1 .. (l - h) - (k + 1) + 1 : rest[i] = q[(k + 1) + i - 1]
    BY <2>1, SubSeqProperties
  <2> HIDE DEF rest
  <2>3. (l - h) - (k + 1) + 1 = l - h - k /\ \A i \in Int : (k + 1) + i - 1 = k + i
    BY <1>0
  <2> QED BY <1>0, <2>2, <2>3
<1>6. /\ pre \in Seq(Nat) /\ Len(pre) = k /\ \A i \in 1 .. k : pre[i] = q[i]
  <2>1. 1 \in Int /\ k \in Int /\ \A i \in 1 .. k : q[i] \in Nat
    BY <1>0, <1>4
  <2>2. /\ pre \in Seq(Nat)
        /\ Len(pre) = IF 1 <= k THEN k - 1 + 1 ELSE 0
        /\ \A i \in 1 .. k - 1 + 1 : pre[i] = q[1 + i - 1]
    BY <2>1, SubSeqProperties
  <2> HIDE DEF pre
  <2>3. k - 1 + 1 = k /\ \A i \in Int : 1 + i - 1 = i
    BY <1>0
  <2> QED BY <1>0, <2>2, <2>3
<1> HIDE DEF rest, pre
<1>7. rest = Inside(h + k, l)
  <2>1. Len(rest) = Len(Inside(h + k, l))
    BY <1>0, <1>2, <1>5
  <2>2. ASSUME NEW i \in 1 .. Len(rest) PROVE rest[i] = Inside(h + k, l)[i]
    <3>1. i \in 1 .. l - h - k /\ i \in 1 .. l - (h + k) /\ k + i \in 1 .. l - h
      BY <1>0, <1>5
    <3>2. rest[i] = q[k + i] /\ q[k + i] = h + (k + i) - 1 /\ Inside(h + k, l)[i] = (h + k) + i - 1
      BY Zenon, <3>1, <1>1, <1>2, <1>5
    <3> QED BY <3>1, <3>2, <1>0
  <2> QED BY Zenon, <1>2, <1>5, <2>1, <2>2, SeqEqual
<1>8. pre = Inside(h, h + k)
  <2>1. ASSUME NEW i \in 1 .. Len(pre) PROVE pre[i] = Inside(h, h + k)[i]
    <3>1. i \in 1 .. k /\ i \in 1 .. l - h
      BY <1>0, <1>6
    <3> QED BY Zenon, <3>1, <1>1, <1>3, <1>6
  <2> QED BY <1>3, <1>6, <2>1, SeqEqual
<1> QED BY <1>1, <1>7, <1>8 DEF rest, pre, q

\* The linearization point of a successful consumer is its compare_exchange.
LEMMA AdvanceIsTake ==
  ASSUME IndInv, NEW newh \in Nat, head < newh, newh <= tail, head' = newh, tail' = tail,
         ExactlyOnceInOrder'
  PROVE  Fifo!Take
<1> USE DEF IndInv
<1> DEFINE k == newh - head
<1>0. head \in Nat /\ tail \in Nat /\ head <= tail /\ k \in 1 .. tail - head /\ head + k = newh
  BY WordAssumption DEF TypeOK, Window
<1> HIDE DEF k
<1>1. Len(Inside(head, tail)) = tail - head
  BY <1>0, InsideSeq
<1>2. /\ Inside(newh, tail) = SubSeq(Inside(head, tail), k + 1, Len(Inside(head, tail)))
      /\ Inside(head, newh) = SubSeq(Inside(head, tail), 1, k)
  BY Zenon, <1>0, InsideTake
<1>3. taken' = taken \o Inside(head, newh)
  <2>1. Inside(head, newh) \in Seq(Nat) /\ Len(Inside(head, newh)) = newh - head
        /\ \A i \in 1 .. Len(Inside(head, newh)) : Inside(head, newh)[i] = head + i - 1
    BY <1>0, InsideSeq
  <2>2. taken = [i \in 1 .. head |-> i - 1] /\ taken \in Seq(Nat)
    <3>1. taken \in [1 .. head -> Nat]
      BY <1>0 DEF ExactlyOnceInOrder
    <3> QED BY <1>0, <3>1, SeqDef DEF ExactlyOnceInOrder
  <2>3. taken \o Inside(head, newh) = [i \in 1 .. head + Len(Inside(head, newh)) |-> i - 1]
    BY <1>0, <2>1, <2>2, TakenConcat
  <2>4. head + Len(Inside(head, newh)) = newh
    BY <1>0, <2>1
  <2> QED BY Zenon, <2>3, <2>4 DEF ExactlyOnceInOrder
<1>4. k \in 1 .. Len(Inside(head, tail))
  BY <1>0, <1>1
<1> QED BY Zenon, <1>2, <1>3, <1>4 DEF Fifo!Take, Inside

\* Every step of the ring buffer is a step of the abstract queue or a stutter.
LEMMA StepRefines == IndInv /\ [Next]_vars => [Fifo!Next]_<<Inside(head, tail), taken>>
<1> SUFFICES ASSUME IndInv, [Next]_vars
             PROVE  Fifo!Next \/ UNCHANGED <<head, tail, taken>>
  BY DEF Inside
<1> IndInv'
  BY NextInv
<1>0. /\ head \in Nat /\ tail \in Nat /\ head <= tail
      /\ ExactlyOnceInOrder /\ ExactlyOnceInOrder'
  BY WordAssumption DEF IndInv, TypeOK, Window
<1>1. CASE PushCheck \/ PushStore
  BY <1>1 DEF PushCheck, PushStore, vars
<1>2. CASE PushPublish
  <2>1. Len(Inside(head, tail)) = tail - head /\ Len(taken) = head
    <3>1. taken \in Seq(Task \union {Empty}) /\ DOMAIN taken = 1 .. head
      BY Zenon, <1>0 DEF IndInv, TypeOK, ExactlyOnceInOrder
    <3>2. Len(taken) \in Nat /\ DOMAIN taken = 1 .. Len(taken)
      BY <3>1, LenProperties
    <3>3. Len(taken) = head
      BY <1>0, <3>1, <3>2
    <3> QED BY <1>0, <3>3, InsideSeq
  <2>2. tail < head + Capacity
    BY Zenon, <1>2 DEF PushPublish, IndInv, PushInv
  <2>3. Inside(head, tail + 1) = Append(Inside(head, tail), tail)
    BY Zenon, <1>0, InsidePush
  <2>4. Len(taken) + Len(Inside(head, tail)) = tail /\ Len(Inside(head, tail)) < Capacity
    BY <1>0, <2>1, <2>2, CapacityAssumption
  <2>5. Fifo!Push
    BY Zenon, <1>2, <2>3, <2>4 DEF PushPublish, Fifo!Push, Inside
  <2> QED BY <2>5 DEF Fifo!Next
<1>3. ASSUME NEW t \in Threads, PopLoadHead(t) \/ PopLoadTail(t) \/ PopLoadSlot(t)
                                  \/ GrabLoadTail(t) \/ GrabLoadHead(t) \/ GrabLoadSlot(t)
      PROVE  UNCHANGED <<head, tail, taken>>
  BY Zenon, <1>3 DEF PopLoadHead, PopLoadTail, PopLoadSlot, GrabLoadTail, GrabLoadHead, GrabLoadSlot
<1>4. ASSUME NEW t \in Threads, PopCas(t)
      PROVE  Fifo!Next \/ UNCHANGED <<head, tail, taken>>
  <2>1. CASE head' = oldHead[t] + 1 /\ head = oldHead[t]
    <3>1. oldHead[t] < tail
      BY Zenon, <1>4 DEF PopCas, IndInv, ThreadInv, PopInv
    <3>0. head' = head + 1 /\ tail' = tail
      BY Zenon, <1>4, <2>1 DEF PopCas
    <3>2. head + 1 \in Nat /\ head < head + 1 /\ head + 1 <= tail
      BY <1>0, <2>1, <3>1
    <3>3. Fifo!Take
      BY <3>0, <1>0, <3>2, AdvanceIsTake
    <3> QED BY <3>3 DEF Fifo!Next
  <2>2. CASE UNCHANGED <<head, taken>>
    BY <1>4, <2>2 DEF PopCas
  <2> QED BY Zenon, <1>4, <2>1, <2>2 DEF PopCas
<1>5. ASSUME NEW t \in Threads, GrabCas(t)
      PROVE  Fifo!Next \/ UNCHANGED <<head, tail, taken>>
  <2>1. CASE head' = newHead[t] /\ head = oldHead[t]
    <3>0. pc[t] = "grabCas" /\ TypeOK /\ GrabInv(t)
      BY Zenon, <1>5 DEF GrabCas, IndInv, ThreadInv
    <3>1. oldHead[t] < newHead[t] /\ newHead[t] <= tail /\ newHead[t] \in Nat
      BY <3>0, WordAssumption DEF TypeOK, GrabInv
    <3>2. tail' = tail
      BY Zenon, <1>5 DEF GrabCas
    <3>3. Fifo!Take
      BY Zenon, <1>0, <2>1, <3>1, <3>2, AdvanceIsTake
    <3> QED BY <3>3 DEF Fifo!Next
  <2>2. CASE UNCHANGED <<head, taken>>
    BY Zenon, <1>5, <2>2 DEF GrabCas
  <2> QED BY Zenon, <1>5, <2>1, <2>2 DEF GrabCas
<1>6. CASE UNCHANGED vars
  BY <1>6 DEF vars
<1> QED BY <1>1, <1>2, <1>3, <1>4, <1>5, <1>6 DEF Next, OwnerPush, Pop, Grab

\* The ring buffer implements the bounded FIFO queue, with its window of live
\* tasks as the abstract queue.
THEOREM Refinement == Spec => ImplementsFifo
<1>1. Init => Fifo!Init
  BY DEF Init, Fifo!Init
<1>2. IndInv /\ [Next]_vars => [Fifo!Next]_<<[i \in 1 .. tail - head |-> head + i - 1], taken>>
  BY StepRefines DEF Inside
<1> QED BY Invariance, <1>1, <1>2, PTL DEF Spec, ImplementsFifo, Fifo!Spec

=============================================================================
