------------------------- MODULE WorkStealingQueue -------------------------
(***************************************************************************)
(* The single-producer / multi-consumer ring buffer of tasks that every    *)
(* worker of the fast thread pool owns                                     *)
(* (sched/tp/fast/queues/work_stealing_queue.hpp).                         *)
(*                                                                         *)
(* Every access to head_, tail_ or a slot is a sequentially consistent     *)
(* atomic, hence a step of its own; computations on the caller's private   *)
(* out_buffer are merged with the atomic access they follow.  A task is    *)
(* identified by its submission number, so that the task with number i is  *)
(* the one the owner stored when tail_ was i.                              *)
(***************************************************************************)
EXTENDS Integers, Sequences

CONSTANTS
  Owner,      \* the worker that owns the queue: the only caller of TryPush
  Thieves,    \* the other consumers
  Capacity,   \* the template parameter
  MaxBatch,   \* bound on the size of the span given to Grab
  MaxTasks,   \* bound on the number of pushes
  Word        \* 2^64 in the code: the modulus of uint64_t arithmetic

ASSUME CapacityAssumption == Capacity \in Nat \ {0}
ASSUME BatchAssumption == MaxBatch \in Nat
ASSUME WordAssumption ==
  /\ MaxTasks \in Nat /\ Word \in Nat
  /\ MaxTasks + MaxBatch < Word   \* the 64-bit counters do not wrap around
ASSUME OwnerAssumption == Owner \notin Thieves

Threads == {Owner} \union Thieves
Task == 0 .. MaxTasks - 1
Empty == -1                       \* Slot::task before the first store

VARIABLES
  head,      \* head_
  tail,      \* tail_
  buffer,    \* buffer_[i].task
  pc,        \* where each thread is in the operation it runs
  oldHead,   \* old_head of TryPop and Grab
  newHead,   \* new_head of Grab
  size,      \* out_buffer.size() of Grab
  maxGrab,   \* max_grab of Grab
  out,       \* the prefix of out_buffer filled so far; <<task>> in TryPop
  taken      \* history: the tasks returned to callers, in the order of their CAS

vars == <<head, tail, buffer, pc, oldHead, newHead, size, maxGrab, out, taken>>
locals == <<oldHead, newHead, size, maxGrab, out>>

Init ==
  /\ head = 0
  /\ tail = 0
  /\ buffer = [i \in 0 .. Capacity - 1 |-> Empty]
  /\ pc = [t \in Threads |-> "idle"]
  /\ oldHead = [t \in Threads |-> 0]
  /\ newHead = [t \in Threads |-> 0]
  /\ size = [t \in Threads |-> 0]
  /\ maxGrab = [t \in Threads |-> 0]
  /\ out = [t \in Threads |-> <<>>]
  /\ taken = <<>>

Goto(t, l) == pc' = [pc EXCEPT ![t] = l]

Return(t) ==
  /\ Goto(t, "idle")
  /\ oldHead' = [oldHead EXCEPT ![t] = 0]
  /\ newHead' = [newHead EXCEPT ![t] = 0]
  /\ size' = [size EXCEPT ![t] = 0]
  /\ maxGrab' = [maxGrab EXCEPT ![t] = 0]
  /\ out' = [out EXCEPT ![t] = <<>>]

USub(a, b) == IF a >= b THEN a - b ELSE Word + a - b   \* uint64_t subtraction
Least(a, b) == IF a <= b THEN a ELSE b

-----------------------------------------------------------------------------
(* TryPush, called by the owner.  tail_ is written by nobody else, so its  *)
(* load is merged with the load of head_.                                  *)

IsFullOneLate == USub(tail, head) = Capacity + 1       \* mutant
IsFull == USub(tail, head) = Capacity

PushCheck ==
  /\ pc[Owner] = "idle"
  /\ tail < MaxTasks
  /\ IF IsFull
     THEN UNCHANGED vars                       \* return false
     ELSE /\ Goto(Owner, "pushStore")
          /\ UNCHANGED <<head, tail, buffer, locals, taken>>

PushStore ==
  /\ pc[Owner] = "pushStore"
  /\ buffer' = [buffer EXCEPT ![tail % Capacity] = tail]
  /\ Goto(Owner, "pushPublish")
  /\ UNCHANGED <<head, tail, locals, taken>>

PushPublish ==
  /\ pc[Owner] = "pushPublish"
  /\ tail' = tail + 1
  /\ Goto(Owner, "idle")
  /\ UNCHANGED <<head, buffer, locals, taken>>

-----------------------------------------------------------------------------
(* TryPop. *)

PopLoadHead(t) ==
  /\ pc[t] = "idle"
  /\ oldHead' = [oldHead EXCEPT ![t] = head]
  /\ Goto(t, "popTail")
  /\ UNCHANGED <<head, tail, buffer, newHead, size, maxGrab, out, taken>>

\* Mutant: comparing slots instead of counters takes a full ring for an empty one.
IsEmptyBySlot(t) == (tail % Capacity) = (oldHead[t] % Capacity)
IsEmpty(t) == tail = oldHead[t]

PopLoadTail(t) ==
  /\ pc[t] = "popTail"
  /\ IF IsEmpty(t)
     THEN Return(t)                            \* return nullptr
     ELSE Goto(t, "popSlot") /\ UNCHANGED locals
  /\ UNCHANGED <<head, tail, buffer, taken>>

PopLoadSlot(t) ==
  /\ pc[t] = "popSlot"
  /\ out' = [out EXCEPT ![t] = << buffer[oldHead[t] % Capacity] >>]
  /\ Goto(t, "popCas")
  /\ UNCHANGED <<head, tail, buffer, oldHead, newHead, size, maxGrab, taken>>

\* A compare_exchange_strong that fails loads the current value.
CasFailedNoReload(t) == UNCHANGED oldHead              \* mutant
CasFailed(t) == oldHead' = [oldHead EXCEPT ![t] = head]

PopCas(t) ==
  /\ pc[t] = "popCas"
  /\ \/ /\ head = oldHead[t]
        /\ head' = oldHead[t] + 1
        /\ taken' = taken \o out[t]
        /\ Return(t)
     \/ /\ head # oldHead[t]
        /\ CasFailed(t)
        /\ out' = [out EXCEPT ![t] = <<>>]
        /\ Goto(t, "popTail")
        /\ UNCHANGED <<head, newHead, size, maxGrab, taken>>
  /\ UNCHANGED <<tail, buffer>>

-----------------------------------------------------------------------------
(* Grab. *)

GrabLoadTail(t) ==
  /\ \/ pc[t] = "idle" /\ \E n \in 0 .. MaxBatch : size' = [size EXCEPT ![t] = n]
     \/ pc[t] = "grabTail" /\ UNCHANGED size
  /\ newHead' = [newHead EXCEPT ![t] = tail]
  /\ Goto(t, "grabHead")
  /\ UNCHANGED <<head, tail, buffer, oldHead, maxGrab, out, taken>>

\* The loaded tail_ is stale by now: head_ may be past it, and then the
\* unsigned difference is huge and max_grab is out_buffer.size().
MaxGrab(t) == Least(size[t], USub(newHead[t], head))

GrabLoadHead(t) ==
  /\ pc[t] = "grabHead"
  /\ LET max_grab == MaxGrab(t)
     IN  IF max_grab = 0
         THEN Return(t)                        \* return 0
         ELSE /\ oldHead' = [oldHead EXCEPT ![t] = head]
              /\ newHead' = [newHead EXCEPT ![t] = Least(@, head + max_grab)]
              /\ maxGrab' = [maxGrab EXCEPT ![t] = max_grab]
              /\ Goto(t, "grabSlot")
              /\ UNCHANGED <<size, out>>
  /\ UNCHANGED <<head, tail, buffer, taken>>

\* while (true): start over with an empty out_buffer.
GrabAgain(t) ==
  /\ Goto(t, "grabTail")
  /\ oldHead' = [oldHead EXCEPT ![t] = 0]
  /\ newHead' = [newHead EXCEPT ![t] = 0]
  /\ maxGrab' = [maxGrab EXCEPT ![t] = 0]
  /\ out' = [out EXCEPT ![t] = <<>>]
  /\ UNCHANGED size

GrabLoadSlot(t) ==
  /\ pc[t] = "grabSlot"
  /\ LET i == Len(out[t])
         out_buffer == Append(out[t], buffer[(oldHead[t] + i) % Capacity])
     IN  IF i + 1 = maxGrab[t] /\ oldHead[t] >= newHead[t]
         THEN GrabAgain(t)
         ELSE /\ out' = [out EXCEPT ![t] = out_buffer]
              /\ Goto(t, IF i + 1 = maxGrab[t] THEN "grabCas" ELSE "grabSlot")
              /\ UNCHANGED <<oldHead, newHead, size, maxGrab>>
  /\ UNCHANGED <<head, tail, buffer, taken>>

\* Mutant: no shift after a partial grab.
GrabbedUnshifted(t) == SubSeq(out[t], 1, newHead[t] - oldHead[t])

\* The first max_grab - grabbed entries of out_buffer went to others.
Grabbed(t) ==
  LET grabbed == newHead[t] - oldHead[t]
  IN  [i \in 1 .. grabbed |-> out[t][maxGrab[t] - grabbed + i]]

GrabCas(t) ==
  /\ pc[t] = "grabCas"
  /\ \/ /\ head = oldHead[t]
        /\ head' = newHead[t]
        /\ taken' = taken \o Grabbed(t)
        /\ Return(t)
     \/ /\ head # oldHead[t]
        /\ IF head < newHead[t]
           THEN /\ CasFailed(t)
                /\ UNCHANGED <<pc, newHead, size, maxGrab, out>>
           ELSE GrabAgain(t)
        /\ UNCHANGED <<head, taken>>
  /\ UNCHANGED <<tail, buffer>>

-----------------------------------------------------------------------------
OwnerPush == PushCheck \/ PushStore \/ PushPublish
Pop(t) == PopLoadHead(t) \/ PopLoadTail(t) \/ PopLoadSlot(t) \/ PopCas(t)
Grab(t) == GrabLoadTail(t) \/ GrabLoadHead(t) \/ GrabLoadSlot(t) \/ GrabCas(t)

Next == OwnerPush \/ \E t \in Threads : Pop(t) \/ Grab(t)

\* A thread inside an operation keeps running; starting one is up to it.
Fairness ==
  /\ WF_vars(PushStore \/ PushPublish)
  /\ \A t \in Threads : WF_vars(pc[t] # "idle" /\ (Pop(t) \/ Grab(t)))

Spec == Init /\ [][Next]_vars
FairSpec == Spec /\ Fairness

-----------------------------------------------------------------------------
(* Properties. *)

PushLabels == {"pushStore", "pushPublish"}
Labels == PushLabels \union {"idle", "popTail", "popSlot", "popCas",
                             "grabTail", "grabHead", "grabSlot", "grabCas"}

\* Types.  Only the owner is ever inside TryPush; a slot holds a task or
\* has never been written; an out_buffer never outgrows the caller's span.
TypeOK ==
  /\ head \in 0 .. MaxTasks /\ tail \in 0 .. MaxTasks
  /\ buffer \in [0 .. Capacity - 1 -> Task \union {Empty}]
  /\ pc \in [Threads -> Labels]
  /\ \A t \in Thieves : pc[t] \notin PushLabels
  /\ oldHead \in [Threads -> 0 .. MaxTasks]
  /\ newHead \in [Threads -> 0 .. MaxTasks]
  /\ size \in [Threads -> 0 .. MaxBatch]
  /\ maxGrab \in [Threads -> 0 .. MaxBatch]
  /\ out \in [Threads -> Seq(Task \union {Empty})]
  /\ \A t \in Threads : pc[t] \in {"grabSlot", "grabCas"} => Len(out[t]) <= size[t]
  /\ taken \in Seq(Task \union {Empty})

\* The tasks returned by TryPop and Grab to all callers together, in the order
\* their compare_exchange on head_ succeeded, are the first head_ tasks that
\* were pushed: none is lost, duplicated, read from a slot that was reused
\* meanwhile, or returned out of order, however consumers race.
ExactlyOnceInOrder == taken = [i \in 1 .. head |-> i - 1]

\* TryPop returns nullptr only at a moment when the queue is really empty,
\* although it compares tail_ with a head_ it loaded earlier.
NullMeansEmpty ==
  \A t \in Threads : (pc[t] = "popTail" /\ pc'[t] = "idle") => head = tail
PopNullOnlyWhenEmpty == [][NullMeansEmpty]_vars

\* No thread is stuck in an operation: a consumer retries only because some
\* other consumer advanced head_, which pushes bound.
OperationsReturn == \A t \in Threads : pc[t] # "idle" ~> pc[t] = "idle"

\* The ring buffer implements the bounded FIFO queue of tasks.
Fifo == INSTANCE TaskFifo WITH queue <- [i \in 1 .. tail - head |-> head + i - 1]
ImplementsFifo == Fifo!Spec

=============================================================================
