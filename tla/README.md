# TLA+ specifications of exe, a C++ concurrency library

The library under `src/src/exe` is a runtime for concurrent tasks: schedulers
(thread pools, a run loop), stackful fibers and stackless coroutines that run on
them, synchronization primitives for both, futures, and lock-free containers
with their memory reclamation. This directory models its components in TLA+,
checks them with TLC on small instances and proves most of the safety results with
TLAPS for every value of the constants.

## The parts of the system

| part | where | what it does |
|---|---|---|
| tasks | `sched/task` | intrusive `TaskBase`, scheduling hints, `Submit` |
| compute pool | `sched/tp/compute`, `thread/queue.hpp` | workers around one blocking queue (`sched::ThreadPool`) |
| fast pool | `sched/tp/fast` | per-worker ring buffers with stealing, global queue, LIFO slot, parking |
| run loop, inline | `sched/run_loop*`, `sched/inline*` | single-threaded scheduler; immediate execution |
| threads | `thread` | spinlock, futex event, wait group |
| fibers | `fiber/core`, `fiber/sched` | stackful coroutines as tasks, suspension through an awaiter |
| fiber sync | `fiber/sync` | mutex, event, wait group, buffered channel, strand (combining lock-free mutex) |
| coroutines | `coro` | stackless coroutines, their event, wait group and mutexes |
| futures | `future` | lazy futures, contracts, combinators (`First`, `Both`, `Map`, `Flatten`, `Start`, ...), `Get`, `Detach` |
| lock-free | `lf` | stack with hazard pointers, queue with a node pool, atomic shared pointer |
| results, utilities | `result`, `util` | result type, stamped pointers, deferred actions |

The parts meet in few places. Fibers, coroutines and futures are tasks that are
submitted to a scheduler; a primitive that makes somebody wait keeps a handle
and calls `Schedule` later, which submits the waiter. A worker of the fast pool
owns a work-stealing queue, and others steal from it. The futures use the event
of `thread`, the fiber primitives its spinlock. `MutexRuntime` composes two of
these parts: the mutexes, and the fibers and coroutines that threads run.

## Modules

| module | models | notes |
|---|---|---|
| `WorkStealingQueue` | `sched/tp/fast/queues/work_stealing_queue.hpp` | one step per atomic access of `TryPush`, `TryPop` and `Grab`; 64-bit arithmetic modulo `Word` |
| `TaskFifo` | | what it promises: a bounded FIFO from which a prefix is taken at once |
| `BufferedChannel` | `fiber/sync/channel/buffered.hpp` | the ring, the two lists of parked fibers, the spinlock held across the suspension |
| `BoundedChannel` | | what it promises: a bounded FIFO of values |
| `Strand` | `fiber/sync/strand.hpp` | one step per atomic access to `waiters_head_`; waiters on the stacks of their fibers, linked by `SetNext` (`Waiters` is what can be reached) |
| `CriticalSections` | | what it promises: each section runs once, between call and return, alone |
| `FastPool` | `sched/tp/fast` | workers, LIFO slot, local and global queue, spinning, parking, `Stop`; `capacity` is that of the local queues |
| `FifoMutex` | `fiber/sync/mutex.hpp`, `coro/sync/mutex_flavor` | `flavour` says which of the two |
| `FifoLock` | | what it promises: an owner and a FIFO of waiters, with hand-off |
| `FiberRuntime` | `fiber/core`, `fiber/sched`, `coro/go.hpp`, `coro/sched` | the life of a fiber or coroutine: submitted, run by a thread, switched out, handed to its awaiter, deleted, maybe before the thread that has left it has returned (`"awaiting"`, `"returning"`); for any awaiter |
| `MutexRuntime` | the two together | each step is one of `FifoMutex`, of `FiberRuntime`, or of both |
| `Latch` | event and wait group of `fiber/sync` and of `coro/sync`, wait group of `thread` | `kind` says which of the five; a coroutine without a scheduler, which runs inside `Schedule`, is a special order of the same steps |
| `ComputePool` | `sched/tp/compute`, `thread/queue.hpp` | the condition variable with spurious wakeups |
| `HazardStack` | `lf/lock_free_stack.hpp`, `lf/memory/hazard` | a finite heap, so that addresses are reused; the destructor |
| `AtomicSharedPtr` | `lf/memory/atomic_shared_ptr.hpp` | counters split between stamp and block; without copy assignment of a `SharedPtr` |
| `LockFreeQueue` | `lf/lock_free_queue.hpp`, `util/stamped_ptr.hpp` | the queue with its pool of nodes, one step per atomic access; the destructors |
| `Futures` | `future`, `result`, `sched/inline*`, `thread/event.hpp` | the chain of calls through the objects of a future, when each object dies, and what value arrives |

`MC...` modules instantiate them for TLC, `...Proofs` modules hold the theorems.
An operator marked `mutant` is a plausible bug in the operator that follows it;
it is not part of any specification and shows that a property can fail.

Variables carry the names of the fields (`locked_` is `locked`), `pc` is the
place in the code, and an action is named after the function, or after what a
part of the function does. All atomics in the code are sequentially consistent,
except for the acquire/release pair of the spinlock, so a step is one access to an atomic
where the code is lock-free. Where it holds a lock, a step is what is done under
the lock, split at every point at which another thread may already see an
effect: a wakeup, or the release of the lock. Bounds (`MaxOps`, `Calls`, `Rounds`, ...)
limit how often a thread calls an operation, and appear in the guard of the call
only.

Two things recur in this code and in the models:

- a waiter lives in the frame of the one who waits, and is gone when that one
  runs again; so is, in the tests, the mutex or the event itself
  (`SafeToDestroy`, `NoDanglingWaiter`, `NoUseAfterDelete`);
- the fiber is suspended first, and its awaiter registers it afterwards, on the
  worker: the fiber may run elsewhere, end and be deleted before its awaiter has
  returned (`FiberInOnePlace`).

## Runs

| run | instance | what it shows |
|---|---|---|
| `work_stealing_queue` | owner, 2 thieves, capacity 2, batches of 2, 3 tasks | every task is taken once and in order; `TryPop` returns null only if the queue was empty; the ring implements `TaskFifo`; the retry loops end |
| `channel` | 3 producers, 3 consumers, capacity 2, 2 calls each | no fiber sleeps next to a value or slot that no active fiber will take; implements `BoundedChannel`; every call returns |
| `strand` | 3 fibers, 3 calls each | one combiner; no dead waiter is touched; no batch is abandoned; implements `CriticalSections`; every `Combine` returns |
| `pool` | 2 workers, 4 tasks, capacities 2 and 4 | a task is in one place, also while a thief stores what it has stolen task by task; the thief's queue has room for it; the workers do not all sleep while a task is queued |
| `pool_liveness` | 2 workers, 2 tasks, all hints | every task runs unless the pool is stopped; `Stop` returns |
| `mutex` | 3 fibers or coroutines, 2 workers and the main thread, 2 calls each, 1 yield | mutual exclusion; nobody is inside the mutex when the last owner could destroy it; implements `FifoLock`; a fiber is submitted, run, kept by the mutex or in the hands of one thread, never two of these, and not after its end; every fiber that was started ends |
| `events_and_groups` | 3 waiters, 2 jobs, 2 rounds, each kind | no `Wait` returns early; safe to destroy; the list that is walked without the lock is nobody else's; every `Wait` returns |
| `compute_pool` | 3 workers, 4 tasks | `waiters_` is right; nobody sleeps on work; tasks run once; `Stop` drains; it returns |
| `lock_free_stack` | 2 threads, 4 cells, 5 operations each, a scan at every second retire, the destructor | no use after free, no double free, no leak; the list is the stack; garbage is bounded |
| `atomic_shared_ptr` | 2 threads, 3 blocks, 3 operations each, flush at the second load | a block lives exactly as long as it is referred to; stamp and counter together count the references |
| `lock_free_queue` | 2 threads, 3 nodes, 4 operations each, the destructors | values leave in the order of their linking; an empty answer is justified; a node is in the list, in the pool or with one thread, and is deleted once |
| `futures` | every well-typed future of `MCFutures`: each combinator with and without `Box` and `Via` (before `Start` and `Flatten`, too), ended by `Get` or `Detach`; each chain of one or two of `Map`, `AsTryFuture`, `MapOk`, `AndThen`, `OrElse` on values and on errors | no object is used after it was deleted, but for the two cases below; what follows `Via(pool)` runs in the pool; a future completes with the value that the same chain gives on a `Result`, and nothing leaks |

Why the bounds are enough for the cases that matter: capacity 2 makes rings
wrap and fill, with two thieves a CAS can fail twice; in the pool, queues of two
overflow with four tasks, and in a queue of four a victim has three tasks of which a
thief takes two, one to run and one to store; three parties are the
least for a barging one beside a waker and a sleeper, and three threads for three
fibers let a fiber run to its end while its awaiter still returns; five
operations on four cells, or four on three nodes, let a node leave, be reused and
come back at the same place while the other thread stands before its CAS
(without the stamps, or without the second load of `Protect`, the run fails); two
steps of a chain are the least in which one sees the error that the other made
or mended. Larger instances were run once without error: `FastPool` with queues
of six and 6 tasks, where a thief stores two (2 million states, one hint), and
with 3 workers and 2 tasks (18 million), `HazardStack` with 3 threads and 3
operations each (17 million, without the destructor), `AtomicSharedPtr` with 3
threads and 2 operations each (3 million).

Symmetry is used in runs without temporal properties only. Deadlock is checked
everywhere but in `futures`, where the program ends; elsewhere the end is an
action of its own.

## Fairness

Weak fairness of the steps of each thread or fiber *inside* an operation: a
thread that can go on does so in the end. The operating system schedules threads; a
fiber that was scheduled runs because the pools run their tasks, which
`pool_liveness` and `compute_pool` check. `MutexRuntime` assumes less: fairness
of each thread, not of each fiber. Nobody is obliged to *call* an
operation, but for what a property assumes openly: an owner unlocks, a
job announced by `Add` calls `Done`, a promise is kept. No strong fairness is
assumed: a lock word or a CAS that can be lost for ever (`LockFreeQueue`, `HazardStack`,
`AtomicSharedPtr` are lock-free, not wait-free) has no liveness property.
The spinlock is assumed to be given to everyone in the end by the finite number
of calls in an instance, not by fairness.

## Proofs

Proved by TLAPS for any number of threads, any capacity and any bound:

| module | theorems | argument |
|---|---|---|
| `WorkStealingQueueProofs` | `TypeCorrect`, `TasksTakenOnceInOrder`, `NullOnlyWhenEmpty`, `Refinement` | `IndInv`: the slots of `[head, tail)` hold their tasks (`Window`); the slot that the owner writes is free (`PushInv`); *if* `head_` is still what a consumer has read, what it has copied is the front of the queue (`ThreadInv`). The last is the heart: nothing is known of copies whose CAS will fail |
| `BufferedChannelProofs` | `TypeCorrect`, `WakeupsSuffice`, `Refinement` | `IndInv`: how the ring grows and wraps; `lock_` is held across the suspension; parked fibers are listed once. `NoLostWakeup` is inductive with these: it compares the number of values, and of free slots, with that of active receivers and senders |
| `MutexRuntimeProofs` | `Exclusion`, `WaitersKept`, `Destroyable`, `Refinement` of `FifoMutex` | `IndInv`: `locked_` iff there is one owner; the list is the parked fibers, each once; who holds the spinlock is at a place where it must |
| | `RuntimePlaces` of `FiberRuntime` | `Inv`: the places of each fiber, and that a completed one is only with the thread that saw it complete. Whatever awaiters do, as long as they give a handle away once |
| | `ImplementsMutex`, `PlacesAmongThreads`, `MutexAmongThreads` of `MutexRuntime` | a composition: every step of the whole is a step or a stutter of `FifoMutex` and of `FiberRuntime`, so that the theorems of the parts hold of the whole. That the mutex gives a handle away once (`ImplementsRuntime`) is where the invariant of `FifoMutex` is needed: whoever is first in `waiters_` is parked |
| `LatchProofs` | `EarlyReturn`, `Destroyable`, `UnlockedWalk` | `CallInv`: from the moment a job has made the counter zero until it has scheduled its last waiter (`Wakes`), it holds `lock_` or somebody is still suspended, so that no `Add` comes. Hence there is one such job, the counter stays zero (`OneWaker`, `ZeroAt`), and nobody joins the list while it is walked, with `lock_` or without. `Counted`: the counter is the number of jobs that have yet to call `Fire` or `Done`. One proof for the five classes; `kind` matters in a few places only |
| `ComputePoolProofs` | `Counted`, `Conservation`, `Once`, `Drains` | `IndInv`: `waiters_` is the number of threads in `CV.wait`; where each task is according to its status; who has exited saw the queue closed and empty |
| `HazardStackProofs` | `Safety`, `IsStack`, `Garbage` | `IndInv`: one owner for each node (`Ownership`), and `Protected`: a node that was published and validated was in the stack then, so that whoever retires it starts a scan only later; a scan that has passed the slot has found the node there (`NotMissed`). Hence no scan frees it, its cell is not reused, and `next` is what was read. `GarbageInv`: a scan has found no more hazards than it has read slots, which bounds what it keeps |
| `StrandProofs` | `Exclusive`, `NoDangling`, `NoAbandoned`, `Refinement` | `IndInv`: the busy bit is the combiner; a waiter in a list has one pointer to it, and points to a waiter in a list (`Links`). This is local, and carries over to whole lists without induction: `Waiters(v)`, the list from `v` on, is the least set that has `v` and is closed under `next`, so that any closed set bounds it. `ListInv`: every suspended fiber whose section has not run is in the list of the head or of a combiner, and who has found the stack without a combiner adopts it. The CAS on `waiters_head_` needs no more than the current head, so that a waiter that comes back at the same address does no harm |
| `AtomicSharedPtrProofs` | `Alive`, `Counts` | `IndInv`: a block is allocated iff it is referred to, and `Agree`: each counter is a sum of cardinalities of sets of threads, or of loads in a stamp that a thread has seen. A step is one of one thread, so each of these sets changes at that thread only (`StrongMoves`, `TransientMoves`), and what is left is arithmetic about one thread and one block (`Changes`). Both sums are zero iff nobody refers to the block (`Zero`), so the test of `Reset` and `CleanupStampedBlock` is exact; that no sum is zero too early needs `strong`, which an update holds up while its loads are counted twice |

Each module proves `Init => IndInv`, one lemma per action that it preserves
`IndInv`, and derives the theorems. The assumptions are the `ASSUME`s next to
the constants: capacities are positive, sets of threads finite, special values
are not threads; in `WorkStealingQueue` also that fewer than 2^64 tasks are ever
pushed, so that indices do not wrap. In `AtomicSharedPtr` the stamp of a block
stays below 2^16 between two flushes: the guard of `FetchIncrement` says so, while
the stamp of an empty pointer wraps. The refinements are of the safety parts:
initial states map to initial states and steps to steps or stutters.

TLC also finds every inductive invariant (`IndInv` of each proof module,
`ListInv`, `GarbageInv`, and `Inv` of `MutexRuntimeProofs`) to hold in all
reachable states of the instance its component's run uses. Three of the
definitions are shaped by the prover: `Waiters` of `Strand` is a closure and not
a recursive function, and the references in `CountsAgree` of `AtomicSharedPtr`
are cardinalities and not a sum over the threads, since what a recursion
computes cannot be shown here; and the counter of `LatchProofs` is kept apart
from the other conjuncts, so that the facts about cardinality are needed in one
place.

Only model-checked:

- all liveness (`EveryWaitReturns`, `EveryCombineReturns`, `EveryFiberEnds`,
  `StopReturns`, ...): fairness and `ENABLED` are out of reach of the prover;
- `FastPool`: `TaskInOnePlace`, whose proof would follow a task through every
  cut and concatenation of the queues, and `NoSleepOnWork`, which needs an
  invariant of the whole parking protocol; neither proof has been written;
- `LockFreeQueue`: `IsLinearizable` and `NodeInOnePlace` follow the list and the
  pool to their ends, and stamps wrap, so that a stale CAS is ruled out by the
  bounds of the instance and not by an invariant;
- `Futures`: `NoUseAfterDelete` and `RunsInPool`, as the chains are data,
  followed by recursion.

## What does not hold, or is not promised

- `First`: the second input deletes the computation while the first may still
  be inside `consumer_.Resume`, which is part of it (`first.hpp:63`).
- `Start()` followed by `Detach()`: `Start` reads its own `comp_` after the
  consumer has deleted the object (`start.hpp:79`). `NoUseAfterDelete` names
  these two cases as exceptions; a future that runs into one may end in any way.
- The fast pool may stop with tasks queued if `Stop` is called while a worker
  that was woken has not run yet, and one worker may sleep next to a queued task
  while the others are busy. No doc promises otherwise; `NoSleepOnWork` and
  `EveryTaskRuns` say what remains.
- The compute pool silently drops what is submitted after `Stop` has begun;
  `StopDrains` is about the tasks that it has accepted.
- `RunMutex::Unlock` casts the next waiter to the type of its own section; a
  coroutine without a scheduler is resumed under the spinlock; the destructor of
  a lock-free stack deletes its thread's retired nodes of other stacks; stamps
  may wrap. These are listed as hazards without a property.

## Not modelled

- The run loop: a list of tasks which one thread runs one after the other.
- The spinlock is a step, or a variable, of its users. Its own loop is a
  test-and-test-and-set on one word.
- The rendezvous channel and the coordinator are stubs that nothing uses.
- Metrics, task wrappers and RAII helpers have no protocol of their own.
- Of the hazard pointers `Announce`, which nobody calls, and the registration of
  threads, a counter that aborts the program at its limit; and two stacks that
  share the slots and the retired nodes of a thread.
- Copy assignment of a `SharedPtr`, a `Reset` followed by a copy.
- `Fiber::Switch`, which nothing calls. Stacks and contexts of fibers appear as
  the thread that is, or is not yet, off the stack of a fiber.
- Packing a pointer and a stamp into a word is taken to be injective, which
  holds for 48-bit addresses.
- Weak memory: all atomics that matter are sequentially consistent.

## What could follow

Proofs that `FastPool` keeps a task in one place and that `LockFreeQueue` does so
with a node, its lists as closures like those of `Strand`; the other primitives
on top of `FiberRuntime`, as `MutexRuntime` does for the mutexes; a second stack
in `HazardStack`.
