---------------------------- MODULE ComputePool ----------------------------
(***************************************************************************)
(* The compute thread pool (sched/tp/compute) and the blocking queue under  *)
(* it (thread/queue.hpp): an unbounded list of tasks under mutex_, a        *)
(* condition variable and the counter waiters_ that lets Push skip          *)
(* notify_one when nobody waits.                                            *)
(*                                                                          *)
(* Nothing is called under mutex_, so what a thread does between taking the *)
(* mutex and releasing it (or waiting on CV) is one step.  A thread that    *)
(* was notified has to take the mutex again, and another one may empty the  *)
(* queue before it does; CV.wait may also wake up without a notification.   *)
(***************************************************************************)
EXTENDS Integers, Sequences, FiniteSets

CONSTANTS
  Workers,   \* threads_
  Tasks,     \* tasks that are submitted, each at most once
  None       \* no task

ASSUME PoolAssumption == IsFiniteSet(Workers) /\ Workers # {} /\ None \notin Tasks

VARIABLES
  queue,     \* queue_
  closed,    \* closed_
  waiters,   \* waiters_
  pc,        \* where a worker is
  task,      \* the task a worker runs
  client,    \* the thread that starts and stops the pool
  status     \* history: what has become of a task

vars == <<queue, closed, waiters, pc, task, client, status>>

Init ==
  /\ queue = <<>> /\ closed = FALSE /\ waiters = 0
  /\ pc = [w \in Workers |-> "unborn"]
  /\ task = [w \in Workers |-> None]
  /\ client = "running"
  /\ status = [t \in Tasks |-> "fresh"]

\* Start: the threads are created one after the other.
Start(w) ==
  /\ pc[w] = "unborn"
  /\ pc' = [pc EXCEPT ![w] = "pop"]
  /\ UNCHANGED <<queue, closed, waiters, task, client, status>>

\* CV.notify_one: a waiting thread is chosen, if there is one.
NotifyOne ==
  IF \E w \in Workers : pc[w] = "asleep"
  THEN \E w \in Workers : pc[w] = "asleep" /\ pc' = [pc EXCEPT ![w] = "woken"]
  ELSE UNCHANGED pc

SubmitUnlessBusy(t) ==                                      \* mutant
  /\ status[t] = "fresh"
  /\ client = "running" \/ \E w \in Workers : pc[w] = "running"
  /\ \/ closed /\ status' = [status EXCEPT ![t] = "dropped"] /\ UNCHANGED <<queue, pc>>
     \/ /\ ~closed
        /\ queue' = Append(queue, t)
        /\ status' = [status EXCEPT ![t] = "queued"]
        /\ IF waiters > 0 /\ queue = <<>> THEN NotifyOne ELSE UNCHANGED pc
  /\ UNCHANGED <<closed, waiters, task, client>>
\* Submit(t), by a task that runs or by a thread outside of the pool.
Submit(t) ==
  /\ status[t] = "fresh"
  /\ client = "running" \/ \E w \in Workers : pc[w] = "running"
  /\ \/ /\ closed
        /\ status' = [status EXCEPT ![t] = "dropped"]
        /\ UNCHANGED <<queue, pc>>
     \/ /\ ~closed
        /\ queue' = Append(queue, t)
        /\ status' = [status EXCEPT ![t] = "queued"]
        /\ IF waiters > 0 THEN NotifyOne ELSE UNCHANGED pc
  /\ UNCHANGED <<closed, waiters, task, client>>

\* Pop after CV.wait is over: with a task, or with nothing when the queue is
\* closed and empty, upon which the thread ends.
TakeRetries(w) ==                                           \* mutant
  IF queue = <<>>
  THEN pc' = [pc EXCEPT ![w] = "pop"] /\ UNCHANGED <<queue, task, status>>
  ELSE /\ pc' = [pc EXCEPT ![w] = "running"]
       /\ task' = [task EXCEPT ![w] = Head(queue)]
       /\ queue' = Tail(queue)
       /\ status' = [status EXCEPT ![Head(queue)] = "running"]
TakeClosedFirst(w) ==                                       \* mutant
  IF closed
  THEN pc' = [pc EXCEPT ![w] = "exited"] /\ UNCHANGED <<queue, task, status>>
  ELSE /\ pc' = [pc EXCEPT ![w] = "running"]
       /\ task' = [task EXCEPT ![w] = Head(queue)]
       /\ queue' = Tail(queue)
       /\ status' = [status EXCEPT ![Head(queue)] = "running"]
Take(w) ==
  IF queue = <<>>
  THEN /\ pc' = [pc EXCEPT ![w] = "exited"]
       /\ UNCHANGED <<queue, task, status>>
  ELSE /\ pc' = [pc EXCEPT ![w] = "running"]
       /\ task' = [task EXCEPT ![w] = Head(queue)]
       /\ queue' = Tail(queue)
       /\ status' = [status EXCEPT ![Head(queue)] = "running"]

\* Pop up to the first evaluation of the predicate of CV.wait.
Pop(w) ==
  /\ pc[w] = "pop"
  /\ IF queue # <<>> \/ closed
     THEN Take(w) /\ UNCHANGED waiters
     ELSE /\ waiters' = waiters + 1
          /\ pc' = [pc EXCEPT ![w] = "asleep"]
          /\ UNCHANGED <<queue, task, status>>
  /\ UNCHANGED <<closed, client>>

\* CV.wait without a notification.
Spurious(w) ==
  /\ pc[w] = "asleep"
  /\ pc' = [pc EXCEPT ![w] = "woken"]
  /\ UNCHANGED <<queue, closed, waiters, task, client, status>>

\* CV.wait, with the mutex again.
WakeNoDecrement(w) ==                                       \* mutant
  /\ pc[w] = "woken"
  /\ IF queue # <<>> \/ closed
     THEN Take(w)
     ELSE pc' = [pc EXCEPT ![w] = "asleep"] /\ UNCHANGED <<queue, task, status>>
  /\ UNCHANGED <<closed, client, waiters>>
Wake(w) ==
  /\ pc[w] = "woken"
  /\ IF queue # <<>> \/ closed
     THEN Take(w) /\ waiters' = waiters - 1
     ELSE /\ pc' = [pc EXCEPT ![w] = "asleep"]
          /\ UNCHANGED <<queue, task, status, waiters>>
  /\ UNCHANGED <<closed, client>>

\* Run of the task is over.
RanAgain(w) ==                                              \* mutant
  /\ pc[w] = "running"
  /\ pc' = [pc EXCEPT ![w] = "pop"]
  /\ task' = [task EXCEPT ![w] = None]
  /\ status' = [status EXCEPT ![task[w]] = IF closed THEN "done" ELSE "queued"]
  /\ queue' = IF closed THEN queue ELSE Append(queue, task[w])
  /\ UNCHANGED <<closed, waiters, client>>
Ran(w) ==
  /\ pc[w] = "running"
  /\ pc' = [pc EXCEPT ![w] = "pop"]
  /\ task' = [task EXCEPT ![w] = None]
  /\ status' = [status EXCEPT ![task[w]] = "done"]
  /\ UNCHANGED <<queue, closed, waiters, client>>

\* Stop: Close, with notify_all.
Close ==
  /\ client = "running" /\ \A w \in Workers : pc[w] # "unborn"
  /\ closed' = TRUE
  /\ pc' = [w \in Workers |-> IF pc[w] = "asleep" THEN "woken" ELSE pc[w]]
  /\ client' = "joining"
  /\ UNCHANGED <<queue, waiters, task, status>>

\* Stop: all threads are joined, stopped_.
Join ==
  /\ client = "joining" /\ \A w \in Workers : pc[w] = "exited"
  /\ client' = "stopped"
  /\ UNCHANGED <<queue, closed, waiters, pc, task, status>>

Finished == client = "stopped" /\ UNCHANGED vars

WorkerStep(w) == Pop(w) \/ Wake(w) \/ Ran(w)

Next ==
  \/ \E w \in Workers : Start(w) \/ WorkerStep(w) \/ Spurious(w)
  \/ \E t \in Tasks : Submit(t)
  \/ Close \/ Join \/ Finished

\* Start creates all threads, they get mutex_ when they want it, and a task
\* ends; Stop joins when the threads have ended.  Nobody has to submit or stop.
Fairness ==
  /\ \A w \in Workers : WF_vars(Start(w)) /\ WF_vars(WorkerStep(w))
  /\ WF_vars(Join)

Spec == Init /\ [][Next]_vars
FairSpec == Spec /\ Fairness

-----------------------------------------------------------------------------
(* Properties. *)

\* Types.
TypeOK ==
  /\ queue \in Seq(Tasks)
  /\ closed \in BOOLEAN
  /\ waiters \in Nat
  /\ pc \in [Workers -> {"unborn", "pop", "asleep", "woken", "running", "exited"}]
  /\ task \in [Workers -> Tasks \union {None}]
  /\ client \in {"running", "joining", "stopped"}
  /\ status \in [Tasks -> {"fresh", "queued", "running", "done", "dropped"}]
  /\ \A w \in Workers : pc[w] = "running" => task[w] \in Tasks

\* The threads in CV.wait, and those that are about to look at the queue.
Waiting == {w \in Workers : pc[w] \in {"asleep", "woken"}}
Looking == {w \in Workers : pc[w] \in {"pop", "woken"}}

\* waiters_ counts the threads that are in CV.wait: the predicate decrements
\* it exactly once for each increment, however often it is evaluated.
WaitersCounted == waiters = Cardinality(Waiting)

\* Work conservation: when a thread sleeps, there is a thread about to look at
\* the queue for each task in it, although Push notifies one thread only, and
\* only if waiters_ > 0.  When the queue is closed nobody sleeps.
NoSleepOnWork ==
  \A w \in Workers : pc[w] = "asleep" => ~closed /\ Len(queue) <= Cardinality(Looking)

\* A task runs at most once: it is queued once or in one worker.
TaskOnce ==
  /\ \A i, j \in 1 .. Len(queue) : queue[i] = queue[j] => i = j
  /\ \A i \in 1 .. Len(queue) : status[queue[i]] = "queued"
  /\ \A w, v \in Workers :
        pc[w] = "running" /\ pc[v] = "running" /\ task[w] = task[v] => w = v
  /\ \A w \in Workers : pc[w] = "running" => status[task[w]] = "running"

\* Stop waits for every task that was accepted: after it no task is queued or
\* running, and the threads are gone.
StopDrains ==
  client = "stopped" =>
    /\ \A t \in Tasks : status[t] \in {"fresh", "done", "dropped"}
    /\ queue = <<>>

\* A task that was accepted runs to its end.
EveryTaskRuns == \A t \in Tasks : status[t] = "queued" ~> status[t] = "done"

\* Stop returns.
StopReturns == client = "joining" ~> client = "stopped"

=============================================================================
