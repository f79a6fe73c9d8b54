------------------------- MODULE ComputePoolProofs -------------------------
(***************************************************************************)
(* Proofs about ComputePool for any number of workers and tasks: waiters_   *)
(* is the number of threads in CV.wait, no thread sleeps on work, a task    *)
(* runs at most once, and Stop leaves no accepted task behind.              *)
(***************************************************************************)
EXTENDS ComputePool, FiniteSetTheorems, SequenceTheorems, TLAPS

\* What links the queue, the threads and the history of the tasks: a task
\* that is queued is in the queue, one that runs is in a worker, and a thread
\* ends only when the queue is closed and empty.
Accounted ==
  /\ \A t \in Tasks : status[t] = "queued" => \E i \in 1 .. Len(queue) : queue[i] = t
  /\ \A t \in Tasks : status[t] = "running" => \E w \in Workers : pc[w] = "running" /\ task[w] = t
  /\ \A w \in Workers : pc[w] = "exited" => closed /\ queue = <<>>
  /\ client # "running" => closed
  /\ client = "stopped" => \A w \in Workers : pc[w] = "exited"

\* The inductive invariant.
IndInv == TypeOK /\ WaitersCounted /\ NoSleepOnWork /\ TaskOnce /\ Accounted

\* Waiting and Looking are finite.
LEMMA Finite ==
  /\ IsFiniteSet(Waiting) /\ Cardinality(Waiting) \in Nat
  /\ IsFiniteSet(Looking) /\ Cardinality(Looking) \in Nat
  BY PoolAssumption, FS_Subset, FS_CardinalityType DEF Waiting, Looking

\* Adding a thread to, or removing it from, a finite set of threads changes
\* its size by one.
LEMMA Sizes ==
  ASSUME NEW S, NEW x, IsFiniteSet(S)
  PROVE  /\ x \notin S => Cardinality(S \union {x}) = Cardinality(S) + 1
         /\ x \in S => Cardinality(S \ {x}) = Cardinality(S) - 1
  BY FS_AddElement, FS_RemoveElement

\* What Head and Tail of the queue are.
LEMMA HeadTail ==
  ASSUME TypeOK, queue # <<>>
  PROVE  /\ Len(queue) \in Nat /\ Len(queue) > 0
         /\ Head(queue) = queue[1] /\ Head(queue) \in Tasks
         /\ Tail(queue) \in Seq(Tasks)
         /\ Len(Tail(queue)) = Len(queue) - 1
         /\ \A i \in 1 .. Len(Tail(queue)) : Tail(queue)[i] = queue[i + 1]
  BY HeadTailProperties, EmptySeq, LenProperties, ElementOfSeq, SMT DEF TypeOK

\* The invariant holds at the start.
LEMMA InitInv == Init => IndInv
<1> SUFFICES ASSUME Init PROVE IndInv
  OBVIOUS
<1>1. TypeOK
  BY EmptySeq DEF Init, TypeOK
<1>2. WaitersCounted
  <2>1. Waiting = {}
    BY DEF Init, Waiting
  <2> QED
    BY <2>1, FS_EmptySet DEF Init, WaitersCounted
<1>3. NoSleepOnWork /\ TaskOnce /\ Accounted
  BY EmptySeq, SMT DEF Init, NoSleepOnWork, TaskOnce, Accounted
<1> QED
  BY <1>1, <1>2, <1>3 DEF IndInv

\* Steps that move no thread in or out of CV.wait and leave waiters_ alone.
LEMMA CountKept ==
  ASSUME IndInv, Waiting' = Waiting, waiters' = waiters
  PROVE  WaitersCounted'
  BY DEF IndInv, WaitersCounted

\* Start of a thread.
LEMMA StartInv == ASSUME IndInv, NEW w \in Workers, Start(w) PROVE IndInv'
<1>1. TypeOK'
  BY DEF IndInv, TypeOK, Start
<1>2. Waiting' = Waiting /\ Looking' = Looking \union {w} /\ w \notin Looking
  BY DEF IndInv, TypeOK, Start, Waiting, Looking
<1>3. WaitersCounted'
  BY <1>2, CountKept DEF Start
<1>4. NoSleepOnWork'
  BY <1>2, Finite, Sizes, LenProperties DEF IndInv, TypeOK, NoSleepOnWork, Start
<1>5. TaskOnce'
  BY DEF IndInv, TypeOK, TaskOnce, Start
<1>6. Accounted'
  BY DEF IndInv, TypeOK, Accounted, Start
<1> QED
  BY <1>1, <1>3, <1>4, <1>5, <1>6 DEF IndInv

\* Spurious wakeups.
LEMMA SpuriousInv == ASSUME IndInv, NEW w \in Workers, Spurious(w) PROVE IndInv'
<1>1. TypeOK'
  BY DEF IndInv, TypeOK, Spurious
<1>2. Waiting' = Waiting /\ Looking' = Looking \union {w} /\ w \notin Looking
  BY DEF IndInv, TypeOK, Spurious, Waiting, Looking
<1>3. WaitersCounted'
  BY <1>2, CountKept DEF Spurious
<1>4. NoSleepOnWork'
  BY <1>2, Finite, Sizes, LenProperties DEF IndInv, TypeOK, NoSleepOnWork, Spurious
<1>5. TaskOnce'
  BY DEF IndInv, TypeOK, TaskOnce, Spurious
<1>6. Accounted'
  BY DEF IndInv, TypeOK, Accounted, Spurious
<1> QED
  BY <1>1, <1>3, <1>4, <1>5, <1>6 DEF IndInv

\* Push, with and without a notification.
LEMMA SubmitInv == ASSUME IndInv, NEW t \in Tasks, Submit(t) PROVE IndInv'
<1>a. CASE closed
  <2>1. /\ status' = [status EXCEPT ![t] = "dropped"]
        /\ UNCHANGED <<queue, closed, waiters, pc, task, client>>
    BY <1>a DEF Submit
  <2>2. TypeOK' /\ TaskOnce' /\ Accounted'
    BY <2>1 DEF IndInv, TypeOK, TaskOnce, Accounted, Submit
  <2>3. Waiting' = Waiting /\ Looking' = Looking
    BY <2>1 DEF Waiting, Looking
  <2> QED
    BY <2>1, <2>2, <2>3 DEF IndInv, WaitersCounted, NoSleepOnWork
<1>b. CASE ~closed
  <2>1. /\ status[t] = "fresh"
        /\ queue' = Append(queue, t)
        /\ status' = [status EXCEPT ![t] = "queued"]
        /\ UNCHANGED <<closed, waiters, task, client>>
    BY <1>b DEF Submit
  <2>2. /\ queue' \in Seq(Tasks) /\ Len(queue) \in Nat /\ Len(queue') = Len(queue) + 1
        /\ \A i \in 1 .. Len(queue) : queue'[i] = queue[i] /\ queue[i] \in Tasks
        /\ queue'[Len(queue) + 1] = t
    BY <2>1, AppendProperties, LenProperties, ElementOfSeq DEF IndInv, TypeOK
  <2>3. \/ \E w \in Workers : pc[w] = "asleep" /\ pc' = [pc EXCEPT ![w] = "woken"]
        \/ pc' = pc /\ \A w \in Workers : pc[w] # "asleep"
    <3>1. CASE waiters > 0
      BY <1>b, <3>1 DEF Submit, NotifyOne
    <3>2. CASE ~(waiters > 0)
      <4>1. Cardinality(Waiting) = 0
        BY <3>2, Finite DEF IndInv, TypeOK, WaitersCounted
      <4>2. Waiting = {}
        BY <4>1, Finite, FS_EmptySet
      <4> QED
        BY <1>b, <3>2, <4>2 DEF Submit, Waiting
    <3> QED
      BY <3>1, <3>2
  <2>4. TypeOK'
    <3>1. /\ pc' \in [Workers -> {"unborn", "pop", "asleep", "woken", "running", "exited"}]
          /\ \A w \in Workers : pc'[w] = "running" => pc[w] = "running"
      BY <2>3 DEF IndInv, TypeOK
    <3> QED
      BY <2>1, <2>2, <3>1 DEF IndInv, TypeOK
  <2>5. WaitersCounted'
    <3>1. Waiting' = Waiting
      BY <2>3 DEF IndInv, TypeOK, Waiting
    <3> QED
      BY <2>1, <3>1, CountKept
  <2>6. NoSleepOnWork'
    <3> SUFFICES ASSUME NEW v \in Workers, pc'[v] = "asleep"
                 PROVE  ~closed' /\ Len(queue') <= Cardinality(Looking)'
      BY DEF NoSleepOnWork
    <3>1. PICK w \in Workers : pc[w] = "asleep" /\ pc' = [pc EXCEPT ![w] = "woken"]
      BY <2>3
    <3>2. Looking' = Looking \union {w} /\ w \notin Looking
      BY <3>1 DEF IndInv, TypeOK, Looking
    <3>3. Len(queue) <= Cardinality(Looking)
      BY <3>1 DEF IndInv, NoSleepOnWork
    <3>4. Cardinality(Looking') = Cardinality(Looking) + 1
      BY <3>2, Finite, Sizes
    <3> QED
      BY <1>b, <2>1, <2>2, <3>3, <3>4, Finite
  <2>7. \A w \in Workers : pc'[w] = "running" <=> pc[w] = "running"
    BY <2>3 DEF IndInv, TypeOK
  <2>8. \A i \in 1 .. Len(queue) : queue[i] # t
    BY <2>1, <2>2 DEF IndInv, TaskOnce
  <2>9. TaskOnce'
    <3>1. \A i, j \in 1 .. Len(queue') : queue'[i] = queue'[j] => i = j
      <4> SUFFICES ASSUME NEW i \in 1 .. Len(queue'), NEW j \in 1 .. Len(queue'), queue'[i] = queue'[j]
                   PROVE  i = j
        OBVIOUS
      <4>1. i \in 1 .. Len(queue) \/ i = Len(queue) + 1
        BY <2>2
      <4>2. j \in 1 .. Len(queue) \/ j = Len(queue) + 1
        BY <2>2
      <4> QED
        BY <2>2, <2>8, <4>1, <4>2 DEF IndInv, TaskOnce
    <3>2. \A i \in 1 .. Len(queue') : status'[queue'[i]] = "queued"
      BY <2>1, <2>2 DEF IndInv, TaskOnce, TypeOK
    <3>3. \A w \in Workers : pc'[w] = "running" => status'[task'[w]] = "running"
      BY <2>1, <2>7 DEF IndInv, TaskOnce, TypeOK
    <3> QED
      BY <2>1, <2>7, <3>1, <3>2, <3>3 DEF IndInv, TaskOnce
  <2>10. Accounted'
    <3>1. \A u \in Tasks : status'[u] = "queued" => \E i \in 1 .. Len(queue') : queue'[i] = u
      <4> SUFFICES ASSUME NEW u \in Tasks, status'[u] = "queued"
                   PROVE  \E i \in 1 .. Len(queue') : queue'[i] = u
        OBVIOUS
      <4>1. CASE u = t
        BY <2>2, <4>1
      <4>2. CASE u # t
        <5>1. PICK i \in 1 .. Len(queue) : queue[i] = u
          BY <2>1, <4>2 DEF IndInv, TypeOK, Accounted
        <5> QED
          BY <2>2, <5>1
      <4> QED
        BY <4>1, <4>2
    <3>2. \A u \in Tasks : status'[u] = "running"
             => \E w \in Workers : pc'[w] = "running" /\ task'[w] = u
      BY <2>1, <2>7 DEF IndInv, TypeOK, Accounted
    <3>3. \A w \in Workers : pc'[w] = "exited" => pc[w] = "exited"
      BY <2>3 DEF IndInv, TypeOK
    <3>4. \A w \in Workers : pc[w] # "exited"
      BY <1>b DEF IndInv, Accounted
    <3> QED
      BY <1>b, <2>1, <3>1, <3>2, <3>3, <3>4 DEF IndInv, Accounted
  <2> QED
    BY <2>4, <2>5, <2>6, <2>9, <2>10 DEF IndInv
<1> QED
  BY <1>a, <1>b

\* The end of Pop, for a thread that did not wait and for one that did.
LEMMA TakeInv ==
  ASSUME IndInv, NEW w \in Workers, pc[w] \in {"pop", "woken"}, queue # <<>> \/ closed,
         Take(w), UNCHANGED <<closed, client>>,
         waiters' = IF pc[w] = "woken" THEN waiters - 1 ELSE waiters
  PROVE  IndInv'
<1> DEFINE to == IF queue = <<>> THEN "exited" ELSE "running"
<1>1. pc' = [pc EXCEPT ![w] = to] /\ to \in {"exited", "running"}
  BY DEF Take
<1>2. Looking' = Looking \ {w} /\ w \in Looking
  BY <1>1 DEF IndInv, TypeOK, Looking
<1>3. Cardinality(Looking') = Cardinality(Looking) - 1
  BY <1>2, Finite, Sizes
<1>4. WaitersCounted' /\ waiters' \in Nat
  <2>1. CASE pc[w] = "woken"
    <3>1. Waiting' = Waiting \ {w} /\ w \in Waiting
      BY <1>1, <2>1 DEF IndInv, TypeOK, Waiting
    <3>2. Cardinality(Waiting') = Cardinality(Waiting) - 1
      BY <3>1, Finite, Sizes
    <3>3. Cardinality(Waiting') \in Nat
      BY <3>1, Finite, FS_Subset, FS_CardinalityType
    <3> QED
      BY <2>1, <3>2, <3>3 DEF IndInv, WaitersCounted
  <2>2. CASE pc[w] # "woken"
    <3>1. Waiting' = Waiting
      BY <1>1, <2>2 DEF IndInv, TypeOK, Waiting
    <3> QED
      BY <2>2, <3>1 DEF IndInv, WaitersCounted, TypeOK
  <2> QED
    BY <2>1, <2>2
<1>5. \A v \in Workers : pc'[v] = "asleep" => pc[v] = "asleep"
  BY <1>1 DEF IndInv, TypeOK
<1>a. CASE queue = <<>>
  <2>1. UNCHANGED <<queue, task, status>> /\ closed /\ pc' = [pc EXCEPT ![w] = "exited"]
    BY <1>a DEF Take
  <2>2. TypeOK'
    BY <1>4, <2>1 DEF IndInv, TypeOK
  <2>3. \A v \in Workers : pc'[v] = "running" <=> pc[v] = "running"
    BY <2>1 DEF IndInv, TypeOK
  <2>4. NoSleepOnWork'
    BY <1>5, <2>1 DEF IndInv, NoSleepOnWork
  <2>5. TaskOnce'
    BY <2>1, <2>3 DEF IndInv, TaskOnce
  <2>6. Accounted'
    <3>1. \A v \in Workers : pc'[v] = "exited" => closed /\ queue = <<>>
      BY <1>a, <2>1
    <3>2. client = "stopped" => \A v \in Workers : pc'[v] = "exited"
      BY <2>1 DEF IndInv, TypeOK, Accounted
    <3> QED
      BY <2>1, <2>3, <3>1, <3>2 DEF IndInv, Accounted
  <2> QED
    BY <1>4, <2>2, <2>4, <2>5, <2>6 DEF IndInv
<1>b. CASE queue # <<>>
  <2> DEFINE h == Head(queue)
  <2>1. /\ pc' = [pc EXCEPT ![w] = "running"]
        /\ task' = [task EXCEPT ![w] = h]
        /\ queue' = Tail(queue)
        /\ status' = [status EXCEPT ![h] = "running"]
    BY <1>b DEF Take
  <2>2. /\ Len(queue) \in Nat /\ Len(queue) > 0
        /\ h = queue[1] /\ h \in Tasks
        /\ queue' \in Seq(Tasks)
        /\ Len(queue') = Len(queue) - 1
        /\ \A i \in 1 .. Len(queue') : queue'[i] = queue[i + 1] /\ i + 1 \in 1 .. Len(queue)
    BY <1>b, <2>1, HeadTail DEF IndInv
  <2>3. status[h] = "queued" /\ \A i \in 1 .. Len(queue') : queue'[i] # h
    BY <2>2 DEF IndInv, TaskOnce
  <2> HIDE DEF h
  <2>4. TypeOK'
    BY <1>4, <2>1, <2>2 DEF IndInv, TypeOK
  <2>5. NoSleepOnWork'
    <3> SUFFICES ASSUME NEW v \in Workers, pc'[v] = "asleep"
                 PROVE  ~closed' /\ Len(queue') <= Cardinality(Looking)'
      BY DEF NoSleepOnWork
    <3>1. ~closed /\ Len(queue) <= Cardinality(Looking)
      BY <1>5 DEF IndInv, NoSleepOnWork
    <3> QED
      BY <1>3, <2>2, <3>1, Finite
  <2>6. TaskOnce'
    <3>1. \A i, j \in 1 .. Len(queue') : queue'[i] = queue'[j] => i = j
      <4> SUFFICES ASSUME NEW i \in 1 .. Len(queue'), NEW j \in 1 .. Len(queue'),
                          queue'[i] = queue'[j]
                   PROVE  i = j
        OBVIOUS
      <4>1. queue[i + 1] = queue[j + 1] /\ i + 1 \in 1 .. Len(queue) /\ j + 1 \in 1 .. Len(queue)
        BY <2>2
      <4>2. i + 1 = j + 1
        BY <4>1 DEF IndInv, TaskOnce
      <4> QED
        BY <4>2
    <3>2. \A i \in 1 .. Len(queue') : status'[queue'[i]] = "queued"
      BY <2>1, <2>2, <2>3 DEF IndInv, TaskOnce, TypeOK
    <3>3. \A v \in Workers : v # w /\ pc'[v] = "running" => pc[v] = "running" /\ task'[v] = task[v] /\ task[v] # h
      BY <2>1, <2>3 DEF IndInv, TaskOnce, TypeOK
    <3>4. task'[w] = h /\ status'[h] = "running"
      BY <2>1, <2>2 DEF IndInv, TypeOK
    <3>5. \A v, u \in Workers :
            pc'[v] = "running" /\ pc'[u] = "running" /\ task'[v] = task'[u] => v = u
      BY <3>3, <3>4 DEF IndInv, TaskOnce
    <3>6. \A v \in Workers : pc'[v] = "running" => status'[task'[v]] = "running"
      BY <2>1, <3>3, <3>4 DEF IndInv, TaskOnce, TypeOK
    <3> QED
      BY <3>1, <3>2, <3>5, <3>6 DEF TaskOnce
  <2>7. Accounted'
    <3>1. \A t \in Tasks : status'[t] = "queued" => \E i \in 1 .. Len(queue') : queue'[i] = t
      <4> SUFFICES ASSUME NEW t \in Tasks, status'[t] = "queued"
                   PROVE  \E i \in 1 .. Len(queue') : queue'[i] = t
        OBVIOUS
      <4>1. t # h /\ status[t] = "queued"
        BY <2>1, <2>2 DEF IndInv, TypeOK
      <4>2. PICK i \in 1 .. Len(queue) : queue[i] = t
        BY <4>1 DEF IndInv, Accounted
      <4>3. i # 1 /\ i - 1 \in 1 .. Len(queue') /\ queue'[i - 1] = queue[(i - 1) + 1]
        BY <2>2, <4>1, <4>2
      <4>4. queue'[i - 1] = t
        BY <4>2, <4>3
      <4> QED
        BY <4>3, <4>4
    <3>2. \A t \in Tasks : status'[t] = "running"
             => \E v \in Workers : pc'[v] = "running" /\ task'[v] = t
      <4> SUFFICES ASSUME NEW t \in Tasks, status'[t] = "running"
                   PROVE  \E v \in Workers : pc'[v] = "running" /\ task'[v] = t
        OBVIOUS
      <4>1. CASE t = h
        BY <2>1, <4>1 DEF IndInv, TypeOK
      <4>2. CASE t # h
        <5>1. PICK v \in Workers : pc[v] = "running" /\ task[v] = t
          BY <2>1, <4>2 DEF IndInv, TypeOK, Accounted
        <5>2. v # w
          BY <5>1
        <5> QED
          BY <2>1, <5>1, <5>2 DEF IndInv, TypeOK
      <4> QED
        BY <4>1, <4>2
    <3>3. \A v \in Workers : pc'[v] # "exited"
      BY <1>b, <2>1 DEF IndInv, TypeOK, Accounted
    <3>4. client # "stopped"
      BY DEF IndInv, Accounted
    <3> QED
      BY <3>1, <3>2, <3>3, <3>4 DEF IndInv, Accounted
  <2> QED
    BY <1>4, <2>4, <2>5, <2>6, <2>7 DEF IndInv
<1> QED
  BY <1>a, <1>b

\* A thread that finds the queue empty and open goes to sleep.
LEMMA SleepInv ==
  ASSUME IndInv, NEW w \in Workers, pc[w] \in {"pop", "woken"}, queue = <<>>, ~closed,
         pc' = [pc EXCEPT ![w] = "asleep"],
         waiters' = IF pc[w] = "pop" THEN waiters + 1 ELSE waiters,
         UNCHANGED <<queue, closed, task, client, status>>
  PROVE  IndInv'
<1>1. TypeOK'
  BY DEF IndInv, TypeOK
<1>2. WaitersCounted'
  <2>1. CASE pc[w] = "pop"
    <3>1. Waiting' = Waiting \union {w} /\ w \notin Waiting
      BY <2>1 DEF IndInv, TypeOK, Waiting
    <3>2. Cardinality(Waiting') = Cardinality(Waiting) + 1
      BY <3>1, Finite, Sizes
    <3> QED
      BY <2>1, <3>2 DEF IndInv, WaitersCounted
  <2>2. CASE pc[w] = "woken"
    <3>1. Waiting' = Waiting
      BY <2>2 DEF IndInv, TypeOK, Waiting
    <3> QED
      BY <2>2, <3>1, CountKept
  <2> QED
    BY <2>1, <2>2
<1>3. NoSleepOnWork'
  <2>1. IsFiniteSet(Looking')
    <3>1. Looking' \subseteq Looking
      BY DEF IndInv, TypeOK, Looking
    <3> QED
      BY <3>1, Finite, FS_Subset
  <2>2. Cardinality(Looking') \in Nat /\ Len(queue') = 0
    BY <2>1, FS_CardinalityType, EmptySeq
  <2> QED
    BY <2>2 DEF NoSleepOnWork
<1>4. \A v \in Workers : pc'[v] = "running" <=> pc[v] = "running"
  BY DEF IndInv, TypeOK
<1>5. TaskOnce'
  BY <1>4 DEF IndInv, TaskOnce
<1>6. Accounted'
  <2>1. \A v \in Workers : pc'[v] = "exited" => pc[v] = "exited"
    BY DEF IndInv, TypeOK
  <2>2. client = "running"
    BY DEF IndInv, TypeOK, Accounted
  <2> QED
    BY <1>4, <2>1, <2>2 DEF IndInv, Accounted
<1> QED
  BY <1>1, <1>2, <1>3, <1>5, <1>6 DEF IndInv

\* Pop and the end of CV.wait.
LEMMA PopInv == ASSUME IndInv, NEW w \in Workers, Pop(w) \/ Wake(w) PROVE IndInv'
<1>1. CASE queue # <<>> \/ closed
  BY <1>1, TakeInv DEF Pop, Wake
<1>2. CASE ~(queue # <<>> \/ closed)
  BY <1>2, SleepInv DEF Pop, Wake
<1> QED
  BY <1>1, <1>2

\* The end of a task.
LEMMA RanInv == ASSUME IndInv, NEW w \in Workers, Ran(w) PROVE IndInv'
<1>1. TypeOK'
  BY DEF IndInv, TypeOK, Ran
<1>2. Waiting' = Waiting /\ Looking' = Looking \union {w} /\ w \notin Looking
  BY DEF IndInv, TypeOK, Ran, Waiting, Looking
<1>3. WaitersCounted'
  BY <1>2, CountKept DEF Ran
<1>4. NoSleepOnWork'
  BY <1>2, Finite, Sizes, LenProperties DEF IndInv, TypeOK, NoSleepOnWork, Ran
<1>5. /\ task[w] \in Tasks /\ status[task[w]] = "running"
      /\ status' = [status EXCEPT ![task[w]] = "done"]
      /\ \A v \in Workers : pc'[v] = "running" => /\ pc[v] = "running" /\ v # w
                                                 /\ task'[v] = task[v] /\ task[v] # task[w]
  BY DEF IndInv, TypeOK, TaskOnce, Ran
<1>6. TaskOnce'
  <2>1. \A i \in 1 .. Len(queue) : status'[queue[i]] = "queued"
    BY <1>5, ElementOfSeq DEF IndInv, TypeOK, TaskOnce
  <2>2. \A v \in Workers : pc'[v] = "running" => status'[task'[v]] = "running"
    BY <1>5 DEF IndInv, TypeOK, TaskOnce
  <2>3. queue' = queue
    BY DEF Ran
  <2> QED
    BY <1>5, <2>1, <2>2, <2>3 DEF IndInv, TaskOnce
<1>7. Accounted'
  <2>1. \A t \in Tasks : status'[t] = "queued" => status[t] = "queued"
    BY <1>5 DEF IndInv, TypeOK
  <2>2. \A t \in Tasks : status'[t] = "running"
           => \E v \in Workers : pc'[v] = "running" /\ task'[v] = t
    <3> SUFFICES ASSUME NEW t \in Tasks, status'[t] = "running"
                 PROVE  \E v \in Workers : pc'[v] = "running" /\ task'[v] = t
      OBVIOUS
    <3>1. t # task[w] /\ status[t] = "running"
      BY <1>5 DEF IndInv, TypeOK
    <3>2. PICK v \in Workers : pc[v] = "running" /\ task[v] = t
      BY <3>1 DEF IndInv, Accounted
    <3>3. v # w
      BY <3>1, <3>2
    <3> QED
      BY <3>2, <3>3 DEF IndInv, TypeOK, Ran
  <2>3. client # "stopped" /\ \A v \in Workers : pc'[v] = "exited" => pc[v] = "exited"
    BY DEF IndInv, TypeOK, Accounted, Ran
  <2> QED
    BY <2>1, <2>2, <2>3 DEF IndInv, Accounted, Ran
<1> QED
  BY <1>1, <1>3, <1>4, <1>6, <1>7 DEF IndInv

\* Close wakes all threads.
LEMMA CloseInv == ASSUME IndInv, Close PROVE IndInv'
<1>1. TypeOK'
  BY DEF IndInv, TypeOK, Close
<1>2. Waiting' = Waiting
  BY DEF IndInv, TypeOK, Waiting, Close
<1>3. \A v \in Workers : /\ pc'[v] # "asleep"
                         /\ pc'[v] = "running" <=> pc[v] = "running"
                         /\ pc'[v] = "exited" <=> pc[v] = "exited"
  BY DEF IndInv, TypeOK, Close
<1>4. WaitersCounted'
  BY <1>2, CountKept DEF Close
<1>5. NoSleepOnWork'
  BY <1>3 DEF NoSleepOnWork
<1>6. TaskOnce'
  BY <1>3 DEF IndInv, TaskOnce, Close
<1>7. Accounted'
  BY <1>3 DEF IndInv, Accounted, Close
<1> QED
  BY <1>1, <1>4, <1>5, <1>6, <1>7 DEF IndInv

\* Join.
LEMMA JoinInv == ASSUME IndInv, Join PROVE IndInv'
<1>1. Waiting' = Waiting /\ Looking' = Looking
  BY DEF Waiting, Looking, Join
<1> QED
  BY <1>1 DEF IndInv, TypeOK, WaitersCounted, NoSleepOnWork, TaskOnce, Accounted, Join

\* Every step keeps the invariant.
LEMMA NextInv == ASSUME IndInv, [Next]_vars PROVE IndInv'
<1>1. CASE \E w \in Workers : Start(w) \/ WorkerStep(w) \/ Spurious(w)
  BY <1>1, StartInv, SpuriousInv, PopInv, RanInv DEF WorkerStep
<1>2. CASE \E t \in Tasks : Submit(t)
  BY <1>2, SubmitInv
<1>3. CASE Close \/ Join
  BY <1>3, CloseInv, JoinInv
<1>4. CASE UNCHANGED vars
  <2>1. Waiting' = Waiting /\ Looking' = Looking
    BY <1>4 DEF Waiting, Looking, vars
  <2> QED
    BY <1>4, <2>1 DEF IndInv, TypeOK, WaitersCounted, NoSleepOnWork, TaskOnce, Accounted, vars
<1> QED
  BY <1>1, <1>2, <1>3, <1>4 DEF Next, Finished

\* When the threads are joined nothing that was accepted is left.
LEMMA Drained == IndInv => StopDrains
<1> SUFFICES ASSUME IndInv, client = "stopped"
             PROVE  queue = <<>> /\ \A t \in Tasks : status[t] \in {"fresh", "done", "dropped"}
  BY DEF StopDrains
<1>1. \A w \in Workers : pc[w] = "exited"
  BY DEF IndInv, Accounted
<1>2. queue = <<>>
  BY <1>1, PoolAssumption DEF IndInv, Accounted
<1>3. \A t \in Tasks : status[t] # "queued"
  BY <1>2, EmptySeq, SMT DEF IndInv, Accounted
<1>4. \A t \in Tasks : status[t] # "running"
  BY <1>1 DEF IndInv, Accounted
<1> QED
  BY <1>2, <1>3, <1>4 DEF IndInv, TypeOK

\* The invariant holds always.
THEOREM Invariance == Spec => []IndInv
  BY InitInv, NextInv, PTL DEF Spec

\* waiters_ is the number of threads in CV.wait: a Push that skips notify_one
\* leaves nobody asleep, and the counter never wraps around.
THEOREM Counted == Spec => [](TypeOK /\ WaitersCounted)
<1>1. IndInv => TypeOK /\ WaitersCounted
  BY DEF IndInv
<1> QED
  BY <1>1, Invariance, PTL

\* Work conservation of the blocking queue, for any number of threads.
THEOREM Conservation == Spec => []NoSleepOnWork
<1>1. IndInv => NoSleepOnWork
  BY DEF IndInv
<1> QED
  BY <1>1, Invariance, PTL

\* A task is in the queue once or in one worker.
THEOREM Once == Spec => []TaskOnce
<1>1. IndInv => TaskOnce
  BY DEF IndInv
<1> QED
  BY <1>1, Invariance, PTL

\* Stop returns only when all accepted tasks have run.
THEOREM Drains == Spec => []StopDrains
  BY Drained, Invariance, PTL

=============================================================================
