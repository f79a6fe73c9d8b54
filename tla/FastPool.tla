----------------------------- MODULE FastPool -----------------------------
(***************************************************************************)
(* The work-stealing thread pool (sched/tp/fast): workers with a LIFO slot  *)
(* and a local queue, a global queue, and the protocol by which workers     *)
(* search for tasks, park, are woken by Submit and stop.                    *)
(*                                                                          *)
(* Local queues are the bounded FIFOs of TaskFifo, which WorkStealingQueue  *)
(* implements; Grab keeps its two loads (tail_, then head_), as they may    *)
(* make it miss tasks.  A step is one access to shared state, except that   *)
(* worker_stop_.store and the Wake after it are one.                        *)
(* wakeups_ is compared with the value loaded before parking only, so it is *)
(* modelled by whether a Wake came since that load; likewise the tail_ that *)
(* Grab has loaded, by how many tasks were pushed since.                    *)
(***************************************************************************)
EXTENDS Integers, Sequences, FiniteSets

CONSTANTS
  Workers,    \* workers_
  Client,     \* the thread that starts, feeds and stops the pool
  None,       \* nullptr, nullopt
  Hints,      \* the SchedulerHints that tasks use
  Capacities, \* the values of kLocalQueueCapacity
  MaxTasks,   \* bound: tasks that the client and the tasks submit
  MaxByClient \* bound: the client submits while fewer tasks were submitted

Task == 1 .. MaxTasks        \* in the order in which they are submitted

ASSUME PoolAssumption ==
  /\ IsFiniteSet(Workers) /\ Workers # {} /\ MaxTasks \in Nat
  /\ Client \notin Workers /\ None \notin Workers \union Task
  /\ Hints \subseteq {"UpToYou", "Next", "Yield"}
  /\ Capacities \subseteq Nat \ {0, 1} /\ MaxByClient \in Nat

N == Cardinality(Workers)    \* threads_
Threads == Workers \union {Client}
NoVictim == [victim |-> None, limit |-> 0, later |-> 0]

VARIABLES
  capacity,      \* kLocalQueueCapacity, fixed by Init
  global,        \* global_tasks_
  local,         \* local_tasks_
  lifo,          \* lifo_slot_
  waiters,       \* waiters_
  spinning,      \* n_spinning_
  parked,        \* n_parked_
  ready,         \* ready_to_stop_
  stopped,       \* stopped_
  workerStop,    \* worker_stop_
  signalled,     \* wakeups_ differs from old_wakeups
  pc,
  task,          \* the task a worker has picked, or is about to offload
  rest,          \* workers that the loop of TryStealTasks or Stop has yet to visit
  seen,          \* the victim of Grab, its limit, and what was pushed after tail_ was loaded
  hand,          \* tasks stolen and not yet stored
  wakes,         \* iterations left in TryWakeOneWorker or Submit
  target,        \* waiter that was popped and is to be woken
  submitted,     \* history: tasks submitted
  ran            \* history: tasks that have run

queues == <<global, local, lifo>>
park == <<waiters, spinning, parked, signalled>>
stop == <<ready, stopped, workerStop>>
locals == <<task, rest, seen, hand, wakes, target>>
history == <<submitted, ran>>
vars == <<capacity, queues, park, stop, locals, history, pc>>

Init ==
  /\ capacity \in Capacities
  /\ global = <<>> /\ local = [w \in Workers |-> <<>>] /\ lifo = [w \in Workers |-> None]
  /\ waiters = <<>> /\ spinning = 0 /\ parked = 0
  /\ ready = FALSE /\ stopped = FALSE
  /\ workerStop = [w \in Workers |-> FALSE]
  /\ signalled = [w \in Workers |-> FALSE]
  /\ pc = [t \in Threads |-> IF t = Client THEN "run" ELSE "loop"]
  /\ task = [w \in Workers |-> None]
  /\ rest = [t \in Threads |-> {}]
  /\ seen = [w \in Workers |-> NoVictim]
  /\ hand = [w \in Workers |-> <<>>]
  /\ wakes = [t \in Threads |-> 0] /\ target = [t \in Threads |-> None]
  /\ submitted = {} /\ ran = {}

Goto(t, label) == pc' = [pc EXCEPT ![t] = label]
Least(a, b) == IF a < b THEN a ELSE b

-----------------------------------------------------------------------------
(* Submit, by the client or by the task that a worker runs. *)

\* To the local queue of w; thieves that have loaded its tail_ miss it.
PushLocal(w, tasks) ==
  /\ local' = [local EXCEPT ![w] = @ \o tasks]
  /\ seen' = [u \in Workers |-> IF seen[u].victim # w THEN seen[u]
                                ELSE [seen[u] EXCEPT !.later = @ + Len(tasks)]]

PushGlobal(t) == global' = Append(global, t)

\* Worker::Push: into the LIFO slot, whose old task goes to the local queue.
SubmitLocal(w, hint, t) ==
  LET out == IF hint = "Next" THEN lifo[w] ELSE t
  IN  /\ lifo' = IF hint = "Next" THEN [lifo EXCEPT ![w] = t] ELSE lifo
      /\ \/ /\ out = None /\ Goto(w, "submitted")
            /\ UNCHANGED <<local, seen, hand>>
         \/ /\ out # None /\ Len(local[w]) < capacity
            /\ PushLocal(w, <<out>>) /\ Goto(w, "submitted")
            /\ UNCHANGED hand
         \/ /\ out # None /\ Len(local[w]) >= capacity
            /\ hand' = [hand EXCEPT ![w] = <<out>>] /\ Goto(w, "offload")
            /\ UNCHANGED <<local, seen>>
      /\ UNCHANGED global

Submit(t, hint, new) ==
  /\ pc[t] = "run" /\ new = Cardinality(submitted) + 1
  /\ t = Client => Cardinality(submitted) < MaxByClient
  /\ submitted' = submitted \union {new}
  /\ IF t = Client \/ hint = "Yield"
     THEN /\ PushGlobal(new) /\ Goto(t, "submitted")
          /\ UNCHANGED <<local, lifo, seen, hand>>
     ELSE SubmitLocal(t, hint, new)
  /\ UNCHANGED <<capacity, park, stop, task, rest, wakes, target, ran>>

\* OffloadTasksToGlobalQueue: Grab up to half a queue, then PushMany.  A
\* thief that comes between Grab's loads and its exchange leaves it fewer.
Offload(w) ==
  /\ pc[w] = "offload"
  /\ \E n \in Least(1, Len(local[w])) .. Least(capacity \div 2, Len(local[w])) :
       /\ hand' = [hand EXCEPT ![w] = SubSeq(local[w], 1, n) \o @]
       /\ local' = [local EXCEPT ![w] = SubSeq(@, n + 1, Len(@))]
  /\ Goto(w, "pushMany")
  /\ UNCHANGED <<global, lifo, park, stop, task, rest, seen, wakes, target, history>>

PushMany(w) ==
  /\ pc[w] = "pushMany"
  /\ global' = global \o hand[w]
  /\ hand' = [hand EXCEPT ![w] = <<>>]
  /\ Goto(w, "submitted")
  /\ UNCHANGED <<local, lifo, park, stop, task, rest, seen, wakes, target, history>>

\* maybe_wakeup.
CheckSpinning(t) ==
  /\ pc[t] = "submitted"
  /\ wakes' = [wakes EXCEPT ![t] = IF spinning = 0 THEN 1 ELSE 0]
  /\ Goto(t, "waking")
  /\ UNCHANGED <<queues, park, stop, task, rest, seen, hand, target, history>>

\* TryWakeOneWorker tries as many times to find a waiter.
WakesPerTry == 3

\* PopWaiter, then Wake.
PopWaiter(t) ==
  /\ pc[t] = "waking" /\ target[t] = None
  /\ \/ /\ wakes[t] = 0
        /\ Goto(t, "run")
        /\ UNCHANGED <<wakes, waiters, target>>
     \/ /\ wakes[t] > 0
        /\ wakes' = [wakes EXCEPT ![t] = @ - 1]
        /\ IF waiters = <<>> THEN UNCHANGED <<waiters, target>>
           ELSE /\ target' = [target EXCEPT ![t] = Head(waiters)]
                /\ waiters' = Tail(waiters)
        /\ UNCHANGED pc
  /\ UNCHANGED <<queues, spinning, parked, signalled, stop, task, rest, seen, hand, history>>

Wake(t) ==
  /\ pc[t] = "waking" /\ target[t] # None
  /\ signalled' = [signalled EXCEPT ![target[t]] = TRUE]
  /\ target' = [target EXCEPT ![t] = None]
  /\ UNCHANGED <<queues, waiters, spinning, parked, stop, task, rest, seen, hand, wakes, history, pc>>

-----------------------------------------------------------------------------
(* A worker: TryPickTask.  pc is "pick..." in PickTask, "repick..." when it   *)
(* is called after a wakeup, where a failure goes back to the loop.          *)

Loop(w) ==
  /\ pc[w] = "loop"
  /\ Goto(w, IF workerStop[w] THEN "exited" ELSE "pick")
  /\ UNCHANGED <<queues, park, stop, locals, history>>

\* The worker runs task t.
Run(w, t) ==
  /\ task' = [task EXCEPT ![w] = t]
  /\ Goto(w, "run")

\* TryPickTaskFromGlobalQueue, when there is a task.
TryPopOne(w) ==
  /\ global # <<>>
  /\ task' = [task EXCEPT ![w] = Head(global)]
  /\ global' = Tail(global)

\* Where PickTask goes on without a task, or the loop after a wakeup.
NotPicked(w) == IF pc[w] = "pickGlobal" THEN "spin" ELSE "loop"

\* The LIFO slot, then the local queue; before them, once in a while, the
\* global queue (iter_ % 61).
PickLocal(w) ==
  /\ pc[w] \in {"pick", "repick"}
  /\ \/ TryPopOne(w) /\ Goto(w, "run") /\ UNCHANGED <<lifo, local>>
     \/ /\ lifo[w] # None /\ Run(w, lifo[w])
        /\ lifo' = [lifo EXCEPT ![w] = None] /\ UNCHANGED <<global, local>>
     \/ /\ lifo[w] = None /\ local[w] # <<>> /\ Run(w, Head(local[w]))
        /\ local' = [local EXCEPT ![w] = Tail(@)] /\ UNCHANGED <<global, lifo>>
     \/ /\ lifo[w] = None /\ local[w] = <<>>
        /\ Goto(w, IF pc[w] = "pick" THEN "pickGlobal" ELSE "repickGlobal")
        /\ UNCHANGED <<task, global, lifo, local>>
  /\ UNCHANGED <<park, stop, rest, seen, hand, wakes, target, history>>

PickGlobal(w) ==
  /\ pc[w] \in {"pickGlobal", "repickGlobal"}
  /\ \/ TryPopOne(w) /\ Goto(w, "run")
     \/ global = <<>> /\ Goto(w, NotPicked(w)) /\ UNCHANGED <<task, global>>
  /\ UNCHANGED <<local, lifo, park, stop, rest, seen, hand, wakes, target, history>>

\* next->Run() returns.
Finish(w) ==
  /\ w \in Workers /\ pc[w] = "run"
  /\ ran' = ran \union {task[w]}
  /\ task' = [task EXCEPT ![w] = None]
  /\ Goto(w, "loop")
  /\ UNCHANGED <<queues, park, stop, rest, seen, hand, wakes, target, submitted>>

-----------------------------------------------------------------------------
(* TryPickTaskBeforePark. *)

Spin(w) ==
  /\ pc[w] = "spin"
  /\ spinning' = spinning + 1
  /\ rest' = [rest EXCEPT ![w] = Workers \ {w}]
  /\ Goto(w, "steal")
  /\ UNCHANGED <<queues, waiters, parked, signalled, stop, task, seen, hand, wakes, target, history>>

\* TryStealTasks, with the victims in any order: SizeEstimate, which limits
\* the number of tasks, and the load of tail_ in Grab.
StealLook(w) ==
  /\ pc[w] \in {"steal", "finalSteal"} /\ seen[w] = NoVictim
  /\ \E v \in rest[w] :
       LET limit == Least((Len(local[v]) + 1) \div 2, capacity \div 2)
       IN  /\ rest' = [rest EXCEPT ![w] = @ \ {v}]
           /\ seen' = IF limit = 0 THEN seen
                      ELSE [seen EXCEPT ![w] = [victim |-> v, limit |-> limit, later |-> 0]]
  /\ UNCHANGED <<queues, park, stop, task, hand, wakes, target, history, pc>>

\* The rest of Grab, with the tail_ loaded before: no task up to it is left;
\* head_ is past it, and it is loaded again; or some tasks are taken, fewer
\* than the limit if others were taken before the exchange.
StealGrab(w) ==
  LET v == seen[w].victim
      available == Len(local[v]) - seen[w].later
  IN  /\ pc[w] \in {"steal", "finalSteal"} /\ seen[w] # NoVictim
      /\ \/ /\ available = 0
            /\ seen' = [seen EXCEPT ![w] = NoVictim]
            /\ UNCHANGED <<local, hand, pc>>
         \/ /\ available < 0
            /\ seen' = [seen EXCEPT ![w].later = 0]
            /\ UNCHANGED <<local, hand, pc>>
         \/ \E n \in 1 .. Least(available, seen[w].limit) :
              /\ hand' = [hand EXCEPT ![w] = SubSeq(local[v], 1, n)]
              /\ local' = [local EXCEPT ![v] = SubSeq(@, n + 1, Len(@))]
              /\ seen' = [seen EXCEPT ![w] = NoVictim]
              /\ Goto(w, IF pc[w] = "steal" THEN "stolen" ELSE "finalStolen")
      /\ UNCHANGED <<global, lifo, park, stop, task, rest, wakes, target, history>>

\* All victims were tried.
StealNothing(w) ==
  /\ pc[w] \in {"steal", "finalSteal"} /\ seen[w] = NoVictim /\ rest[w] = {}
  /\ Goto(w, IF pc[w] = "steal" THEN "enlist" ELSE "park")
  /\ UNCHANGED <<queues, park, stop, locals, history>>

\* Mutant: the loop over the stolen tasks begins with the second one.
StolenPushFromOne(w) ==
  /\ pc[w] \in {"stolen", "finalStolen"} /\ Len(hand[w]) > 1
  /\ hand' = [hand EXCEPT ![w] = Tail(@)]
  /\ UNCHANGED <<queues, park, stop, task, rest, seen, wakes, target, history, pc>>

\* TryPush of a stolen task other than the last; the pool aborts if it fails.
StolenPush(w) ==
  LET ok == Len(local[w]) < capacity
  IN  /\ pc[w] \in {"stolen", "finalStolen"} /\ Len(hand[w]) > 1
      /\ PushLocal(w, IF ok THEN <<Head(hand[w])>> ELSE <<>>)
      /\ hand' = [hand EXCEPT ![w] = IF ok THEN Tail(@) ELSE @]
      /\ Goto(w, IF ok THEN pc[w] ELSE "aborted")
      /\ UNCHANGED <<global, lifo, park, stop, task, rest, wakes, target, history>>

\* The last one is run.  After the first attempt the worker stops spinning;
\* then it wakes others.
Stolen(w) ==
  /\ pc[w] \in {"stolen", "finalStolen"} /\ Len(hand[w]) = 1
  /\ task' = [task EXCEPT ![w] = hand[w][1]]
  /\ hand' = [hand EXCEPT ![w] = <<>>]
  /\ IF pc[w] = "stolen"
     THEN Goto(w, "stopSpinning") /\ UNCHANGED wakes
     ELSE Goto(w, "waking") /\ wakes' = [wakes EXCEPT ![w] = 2 * WakesPerTry]
  /\ UNCHANGED <<queues, park, stop, rest, seen, target, history>>

StopSpinning(w) ==
  /\ pc[w] = "stopSpinning"
  /\ spinning' = spinning - 1
  /\ wakes' = [wakes EXCEPT ![w] = WakesPerTry]
  /\ Goto(w, "waking")
  /\ UNCHANGED <<queues, waiters, parked, signalled, stop, task, rest, seen, hand, target, history>>

\* wakeups_.load() and PushWaiter.
Enlist(w) ==
  /\ pc[w] = "enlist"
  /\ signalled' = [signalled EXCEPT ![w] = FALSE]
  /\ Goto(w, "pushWaiter")
  /\ UNCHANGED <<queues, waiters, spinning, parked, stop, locals, history>>

PushWaiter(w) ==
  /\ pc[w] = "pushWaiter"
  /\ waiters' = Append(waiters, w)
  /\ Goto(w, "unspin")
  /\ UNCHANGED <<queues, spinning, parked, signalled, stop, locals, history>>

Unspin(w) ==
  /\ pc[w] = "unspin"
  /\ spinning' = spinning - 1
  /\ Goto(w, "finalGlobal")
  /\ UNCHANGED <<queues, waiters, parked, signalled, stop, locals, history>>

\* Mutant: no second look at the global queue after PushWaiter.
FinalGlobalSkipped(w) ==
  /\ pc[w] = "finalGlobal"
  /\ rest' = [rest EXCEPT ![w] = Workers \ {w}]
  /\ Goto(w, "finalSteal")
  /\ UNCHANGED <<queues, park, stop, task, seen, hand, wakes, target, history>>

FinalGlobal(w) ==
  /\ pc[w] = "finalGlobal"
  /\ \/ /\ TryPopOne(w)
        /\ wakes' = [wakes EXCEPT ![w] = 2 * WakesPerTry]
        /\ Goto(w, "waking")
        /\ UNCHANGED rest
     \/ /\ global = <<>>
        /\ rest' = [rest EXCEPT ![w] = Workers \ {w}]
        /\ Goto(w, "finalSteal")
        /\ UNCHANGED <<task, global, wakes>>
  /\ UNCHANGED <<local, lifo, park, stop, seen, hand, target, history>>

\* n_parked_.fetch_add(1): the last one to park looks at ready_to_stop_.
Park(w) ==
  /\ pc[w] = "park"
  /\ parked' = parked + 1
  /\ Goto(w, IF parked' = N THEN "checkReady" ELSE "checkStopped")
  /\ UNCHANGED <<queues, waiters, spinning, signalled, stop, locals, history>>

CheckReady(w) ==
  /\ pc[w] = "checkReady"
  /\ Goto(w, IF ready THEN "signalStop" ELSE "checkStopped")
  /\ UNCHANGED <<queues, park, stop, locals, history>>

CheckStopped(w) ==
  /\ pc[w] = "checkStopped"
  /\ workerStop' = [workerStop EXCEPT ![w] = @ \/ stopped]
  /\ Goto(w, IF stopped THEN "loop" ELSE "wait")
  /\ UNCHANGED <<queues, park, ready, stopped, locals, history>>

\* futex::Wait returns.
Awake(w) ==
  /\ pc[w] = "wait" /\ signalled[w]
  /\ Goto(w, "unpark")
  /\ UNCHANGED <<queues, park, stop, locals, history>>

Unpark(w) ==
  /\ pc[w] = "unpark"
  /\ parked' = parked - 1
  /\ Goto(w, "repick")
  /\ UNCHANGED <<queues, waiters, spinning, signalled, stop, locals, history>>

-----------------------------------------------------------------------------
(* Stop, by the client, and the last worker to park. *)

Stop ==
  /\ pc[Client] = "run" /\ ~ready
  /\ ready' = TRUE
  /\ Goto(Client, "stopping")
  /\ UNCHANGED <<capacity, queues, park, stopped, workerStop, locals, history>>

\* n_parked_.load(), then stopped_.store(1) or the futex.
CheckParked ==
  /\ pc[Client] = "stopping"
  /\ Goto(Client, IF parked = N THEN "stopNow" ELSE "stopWait")
  /\ UNCHANGED <<queues, park, stop, locals, history>>

StopNow ==
  /\ pc[Client] = "stopNow"
  /\ stopped' = TRUE
  /\ rest' = [rest EXCEPT ![Client] = Workers]
  /\ Goto(Client, "stopWorkers")
  /\ UNCHANGED <<queues, park, ready, workerStop, task, seen, hand, wakes, target, history>>

\* Mutant: Stop waits until all workers are parked, and has been told so.
StopAwakeParked ==
  /\ pc[Client] = "stopWait"
  /\ \/ /\ stopped /\ parked = N
        /\ rest' = [rest EXCEPT ![Client] = Workers] /\ Goto(Client, "stopWorkers")
     \/ ~(stopped /\ parked = N) /\ UNCHANGED <<rest, pc>>
  /\ UNCHANGED <<queues, park, stop, task, seen, hand, wakes, target, history>>

StopAwake ==
  /\ pc[Client] = "stopWait" /\ stopped
  /\ rest' = [rest EXCEPT ![Client] = Workers]
  /\ Goto(Client, "stopWorkers")
  /\ UNCHANGED <<queues, park, stop, task, seen, hand, wakes, target, history>>

SignalStop(w) ==
  /\ pc[w] = "signalStop"
  /\ workerStop' = [workerStop EXCEPT ![w] = TRUE]
  /\ stopped' = TRUE
  /\ rest' = [rest EXCEPT ![w] = Workers]
  /\ Goto(w, "stopWorkers")
  /\ UNCHANGED <<queues, park, ready, task, seen, hand, wakes, target, history>>

\* StoppingWake of worker after worker, by Stop or by the last worker.
StoppingWake(t, w) ==
  /\ pc[t] = "stopWorkers" /\ w \in rest[t]
  /\ workerStop' = [workerStop EXCEPT ![w] = TRUE]
  /\ signalled' = [signalled EXCEPT ![w] = TRUE]
  /\ rest' = [rest EXCEPT ![t] = @ \ {w}]
  /\ UNCHANGED <<queues, waiters, spinning, parked, ready, stopped, task, seen, hand, wakes, target, history, pc>>

AllStopped(t) ==
  /\ pc[t] = "stopWorkers" /\ rest[t] = {}
  /\ Goto(t, IF t = Client THEN "join" ELSE "loop")
  /\ UNCHANGED <<queues, park, stop, locals, history>>

Join ==
  /\ pc[Client] = "join" /\ \A w \in Workers : pc[w] = "exited"
  /\ Goto(Client, "done")
  /\ UNCHANGED <<queues, park, stop, locals, history>>

Done == pc[Client] = "done" /\ UNCHANGED vars

-----------------------------------------------------------------------------
Search(w) ==
  \/ Loop(w) \/ PickLocal(w) \/ PickGlobal(w) \/ Spin(w)
  \/ StealLook(w) \/ StealGrab(w) \/ StealNothing(w) \/ StolenPush(w) \/ Stolen(w)
  \/ StopSpinning(w) \/ Enlist(w) \/ PushWaiter(w) \/ Unspin(w) \/ FinalGlobal(w)
  \/ Park(w) \/ CheckReady(w) \/ CheckStopped(w) \/ Awake(w) \/ Unpark(w)
  \/ SignalStop(w) \/ Offload(w) \/ PushMany(w)

\* What a thread does on its own: the client decides when to submit and stop,
\* a task what to submit.
Continue(t) ==
  /\ \/ CheckSpinning(t) \/ PopWaiter(t) \/ Wake(t)
     \/ AllStopped(t) \/ \E w \in Workers : StoppingWake(t, w)
     \/ t \in Workers /\ (Search(t) \/ Finish(t))
     \/ t = Client /\ (CheckParked \/ StopNow \/ StopAwake \/ Join)
  /\ UNCHANGED capacity

Next ==
  \/ \E t \in Threads : Continue(t) \/ \E hint \in Hints, new \in Task : Submit(t, hint, new)
  \/ Stop
  \/ Done

\* Threads keep running and tasks return; whether Stop is called is up to
\* the client.
Fairness == \A t \in Threads : WF_vars(Continue(t))

Spec == Init /\ [][Next]_vars
FairSpec == Spec /\ Fairness

-----------------------------------------------------------------------------
Labels ==
  {"run", "offload", "pushMany", "submitted", "waking", "loop", "pick", "repick",
   "pickGlobal", "repickGlobal", "spin", "steal", "stolen", "stopSpinning", "enlist",
   "pushWaiter", "unspin", "finalGlobal", "finalSteal", "finalStolen", "park",
   "checkReady", "checkStopped", "wait", "unpark", "signalStop", "stopWorkers", "exited",
   "stopping", "stopNow", "stopWait", "join", "done", "aborted"}

\* Every variable has its type.
TypeOK ==
  /\ capacity \in Capacities
  /\ global \in Seq(Task)
  /\ local \in [Workers -> Seq(Task)]
  /\ lifo \in [Workers -> Task \union {None}]
  /\ waiters \in Seq(Workers)
  /\ spinning \in 0 .. N /\ parked \in 0 .. N
  /\ ready \in BOOLEAN /\ stopped \in BOOLEAN
  /\ workerStop \in [Workers -> BOOLEAN] /\ signalled \in [Workers -> BOOLEAN]
  /\ pc \in [Threads -> Labels]
  /\ task \in [Workers -> Task \union {None}]
  /\ rest \in [Threads -> SUBSET Workers]
  /\ seen \in [Workers -> [victim : Workers \union {None}, limit : 0 .. capacity \div 2, later : Nat]]
  /\ hand \in [Workers -> Seq(Task)]
  /\ wakes \in [Threads -> Nat] /\ target \in [Threads -> Workers \union {None}]
  /\ submitted \in SUBSET Task /\ ran \in SUBSET Task

\* Where task t is: the global queue, a local queue, a LIFO slot, in the hands
\* of a thief, running, or finished.
Places(t) ==
  {<<"global", i>> : i \in {j \in 1 .. Len(global) : global[j] = t}}
  \union UNION {{<<"local", w, i>> : i \in {j \in 1 .. Len(local[w]) : local[w][j] = t}} : w \in Workers}
  \union UNION {{<<"hand", w, i>> : i \in {j \in 1 .. Len(hand[w]) : hand[w][j] = t}} : w \in Workers}
  \union {<<"lifo", w>> : w \in {x \in Workers : lifo[x] = t}}
  \union {<<"task", w>> : w \in {x \in Workers : task[x] = t}}
  \union (IF t \in ran THEN {<<"ran">>} ELSE {})

\* A submitted task is in exactly one place, whatever swaps, steals and
\* offloads happen: it is neither lost nor run twice, also while a thief stores
\* what it has stolen task by task and others steal from it.  No worker aborts: a
\* thief's queue has room for all it has stolen.
TaskInOnePlace ==
  /\ TypeOK
  /\ \A t \in Task : Cardinality(Places(t)) = (IF t \in submitted THEN 1 ELSE 0)
  /\ \A w \in Workers : pc[w] # "aborted" /\ Len(local[w]) <= capacity /\ Len(hand[w]) <= capacity

Asleep(w) == pc[w] = "wait" /\ ~signalled[w]

\* The pool never sleeps on work: when all workers are asleep with no wakeup
\* on its way, no task is left in a queue or a LIFO slot.  (That a worker may
\* sleep while another one runs a task and a third task waits is no violation:
\* a wakeup can be spent on a worker that was awake already.)
NoSleepOnWork ==
  (\A w \in Workers : Asleep(w)) /\ pc[Client] = "run"
    => global = <<>> /\ \A w \in Workers : local[w] = <<>> /\ lifo[w] = None

\* The tasks that were submitted are run, unless the client stops the pool
\* before: again and again there is no task left to run.
EveryTaskRuns == []<>(submitted = ran \/ ready)

\* Once called, Stop returns, with every worker joined (ready_to_stop_ stays set).
StopReturns == []<>(ready => pc[Client] = "done")

=============================================================================
