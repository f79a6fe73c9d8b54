----------------------------- MODULE FifoMutex -----------------------------
(***************************************************************************)
(* Mutex of fibers (fiber/sync/mutex.hpp) and of coroutines                 *)
(* (coro/sync/mutex_flavor): locked_ and a list of those who wait, under a  *)
(* spinlock; Unlock hands the mutex to the first of them.                   *)
(*                                                                          *)
(* Lock of a fiber always suspends.  Its awaiter runs on the worker after   *)
(* the fiber was switched out, takes lock_, schedules the fiber or lists    *)
(* it, and releases lock_ at its end: the fiber may run on another worker   *)
(* while its awaiter still holds lock_.  Lock of a coroutine is called by   *)
(* await_suspend, and the coroutine goes on at once when the mutex is free; *)
(* it has a scheduler, so that Schedule submits it.  With ScopedLock the    *)
(* coroutine runs the critical section, with Run the waiter does so while   *)
(* the coroutine stays suspended; Lock and Unlock are the same.             *)
(*                                                                          *)
(* What is done under lock_ is one step, its release another.               *)
(***************************************************************************)
EXTENDS Integers, Sequences, FiniteSets

CONSTANTS
  Fibers,    \* fibers or coroutines
  Calls,     \* bound: calls of Lock and TryLock by a fiber
  Nobody     \* lock_ is free

ASSUME MutexAssumption == Nobody \notin Fibers /\ Calls \in Nat

VARIABLES
  guard,     \* who holds lock_: a fiber, or the awaiter of its Lock
  locked,    \* locked_
  waiters,   \* waiters_
  pc,        \* where a fiber is
  todo,      \* calls still to make
  flavour    \* which of the classes this is

vars == <<guard, locked, waiters, pc, todo, flavour>>

Init ==
  /\ guard = Nobody
  /\ locked = FALSE
  /\ waiters = <<>>
  /\ pc = [f \in Fibers |-> "idle"]
  /\ todo = [f \in Fibers |-> Calls]
  /\ flavour \in {"fiber", "coroutine"}

\* Lock: Suspend(awaiter).
Lock(f) ==
  /\ flavour = "fiber" /\ pc[f] = "idle" /\ todo[f] > 0
  /\ pc' = [pc EXCEPT ![f] = "suspending"]
  /\ todo' = [todo EXCEPT ![f] = @ - 1]
  /\ UNCHANGED <<guard, locked, waiters, flavour>>

\* The mutex is taken, and the fiber goes to the label, or it is listed.
TakeOrPark(f, label) ==
  /\ \/ /\ ~locked
        /\ pc' = [pc EXCEPT ![f] = label]
        /\ UNCHANGED waiters
     \/ /\ locked
        /\ pc' = [pc EXCEPT ![f] = "parked"]
        /\ waiters' = Append(waiters, f)
  /\ locked' = TRUE

\* Lock: the awaiter.
AwaitLifo(f) ==                                             \* mutant
  /\ pc[f] = "suspending" /\ guard = Nobody
  /\ guard' = f
  /\ \/ ~locked /\ pc' = [pc EXCEPT ![f] = "scheduled"] /\ UNCHANGED waiters
     \/ locked /\ pc' = [pc EXCEPT ![f] = "parked"] /\ waiters' = <<f>> \o waiters
  /\ locked' = TRUE
  /\ UNCHANGED <<todo, flavour>>
AwaitRetries(f) ==                                          \* mutant
  /\ pc[f] = "suspending" /\ guard = Nobody
  /\ guard' = f
  /\ \/ ~locked /\ pc' = [pc EXCEPT ![f] = "scheduled"] /\ UNCHANGED todo
     \/ locked /\ pc' = [pc EXCEPT ![f] = "idle"] /\ todo' = [todo EXCEPT ![f] = @ + 1]
  /\ locked' = TRUE
  /\ UNCHANGED <<waiters, flavour>>
Await(f) ==
  /\ pc[f] = "suspending" /\ guard = Nobody
  /\ guard' = f
  /\ TakeOrPark(f, "scheduled")
  /\ UNCHANGED <<todo, flavour>>

\* The scheduler runs the fiber and Lock returns.
Resume(f) ==
  /\ pc[f] = "scheduled"
  /\ pc' = [pc EXCEPT ![f] = "critical"]
  /\ UNCHANGED <<guard, locked, waiters, todo, flavour>>

TryLock(f) ==
  /\ flavour = "fiber" /\ pc[f] = "idle" /\ todo[f] > 0 /\ guard = Nobody
  /\ guard' = f
  /\ pc' = [pc EXCEPT ![f] = IF locked THEN "failed" ELSE "acquired"]
  /\ locked' = TRUE
  /\ todo' = [todo EXCEPT ![f] = @ - 1]
  /\ UNCHANGED <<waiters, flavour>>

\* Lock of a coroutine, from await_suspend.
CoroLock(f) ==
  /\ flavour = "coroutine" /\ pc[f] = "idle" /\ todo[f] > 0 /\ guard = Nobody
  /\ guard' = f
  /\ TakeOrPark(f, "acquired")
  /\ todo' = [todo EXCEPT ![f] = @ - 1]
  /\ UNCHANGED flavour

\* The owner leaves the mutex free, or locked_ set and the first waiter scheduled.
PassOn(f) ==
  \/ /\ waiters = <<>>
     /\ locked' = FALSE
     /\ pc' = [pc EXCEPT ![f] = "unlocked"]
     /\ UNCHANGED waiters
  \/ /\ waiters # <<>>
     /\ pc' = [pc EXCEPT ![f] = "unlocked", ![Head(waiters)] = "scheduled"]
     /\ waiters' = Tail(waiters)
     /\ UNCHANGED locked

\* Unlock of both flavours.
UnlockBarging(f) ==                                         \* mutant
  /\ pc[f] = "critical" /\ guard = Nobody
  /\ guard' = f
  /\ \/ waiters = <<>> /\ pc' = [pc EXCEPT ![f] = "unlocked"] /\ UNCHANGED waiters
     \/ /\ waiters # <<>> /\ waiters' = Tail(waiters)
        /\ pc' = [pc EXCEPT ![f] = "unlocked", ![Head(waiters)] = "scheduled"]
  /\ locked' = FALSE
  /\ UNCHANGED <<todo, flavour>>
UnlockLate(f) ==                                            \* mutant
  /\ pc[f] = "critical" /\ guard = Nobody
  /\ guard' = f
  /\ \/ waiters = <<>> /\ locked' = FALSE /\ pc' = [pc EXCEPT ![f] = "idle"] /\ UNCHANGED waiters
     \/ /\ waiters # <<>> /\ waiters' = Tail(waiters) /\ UNCHANGED locked
        /\ pc' = [pc EXCEPT ![f] = "idle", ![Head(waiters)] = "scheduled"]
  /\ UNCHANGED <<todo, flavour>>
Unlock(f) ==
  /\ pc[f] = "critical" /\ guard = Nobody
  /\ guard' = f
  /\ PassOn(f)
  /\ UNCHANGED <<todo, flavour>>

\* The lock_guard ends; TryLock, Unlock and await_suspend return.
Release(f) ==
  /\ guard = f
  /\ guard' = Nobody
  /\ pc' = [pc EXCEPT ![f] = CASE @ = "acquired" -> "critical"
                                [] @ \in {"failed", "unlocked"} -> "idle"
                                [] OTHER -> @]
  /\ UNCHANGED <<locked, waiters, todo, flavour>>

Finished ==
  /\ \A f \in Fibers : pc[f] = "idle" /\ todo[f] = 0
  /\ UNCHANGED vars

\* What a fiber or its awaiter does once Lock is called.
Continue(f) == Await(f) \/ Resume(f) \/ Unlock(f)

Next ==
  \/ \E f \in Fibers : Lock(f) \/ TryLock(f) \/ CoroLock(f) \/ Continue(f) \/ Release(f)
  \/ Finished

Spec == Init /\ [][Next]_vars

-----------------------------------------------------------------------------
(* Properties. *)

\* Types.
TypeOK ==
  /\ guard \in Fibers \union {Nobody}
  /\ locked \in BOOLEAN
  /\ waiters \in Seq(Fibers)
  /\ pc \in [Fibers -> {"idle", "suspending", "parked", "scheduled", "critical",
                        "acquired", "failed", "unlocked"}]
  /\ todo \in [Fibers -> Nat]
  /\ flavour \in {"fiber", "coroutine"}

\* The fibers that have been given the mutex and have not unlocked it.
Owns(f) == pc[f] \in {"scheduled", "acquired", "critical"}

\* At most one fiber owns the mutex, and locked_ says whether one does: the
\* mutex is neither held twice nor locked for ever without an owner.
MutualExclusion ==
  /\ \A f, g \in Fibers : Owns(f) /\ Owns(g) => f = g
  /\ locked <=> \E f \in Fibers : Owns(f)

\* Who is suspended is in waiters_ once, and the list holds nobody else: its
\* node is on the stack of the fiber or in the frame of the coroutine, and is
\* gone when that goes on.
WaitersAreParked ==
  /\ \A f \in Fibers : pc[f] = "parked" <=> \E i \in 1 .. Len(waiters) : waiters[i] = f
  /\ \A i, j \in 1 .. Len(waiters) : waiters[i] = waiters[j] => i = j

\* A mutex that no fiber is using can be destroyed: no awaiter is left that
\* has still to release lock_, although it outlives the Lock it served.
SafeToDestroy ==
  (\A f \in Fibers : pc[f] = "idle") => guard = Nobody /\ ~locked /\ waiters = <<>>

\* The mutex is handed over in the order of the awaiters, and TryLock never
\* gets in before a fiber that waits.
Owner == IF \E f \in Fibers : Owns(f) THEN CHOOSE f \in Fibers : Owns(f) ELSE Nobody
Fifo == INSTANCE FifoLock WITH owner <- Owner, queue <- waiters
ImplementsFifoLock == Fifo!Spec

=============================================================================
