------------------------------- MODULE Latch -------------------------------
(***************************************************************************)
(* Event and WaitGroup, of fibers (fiber/sync) and of coroutines            *)
(* (coro/sync): a counter and a list of those who wait for it to be zero,   *)
(* under a spinlock; and the WaitGroup of threads (thread), with a mutex    *)
(* and a condition variable.  An event counts one Fire, a group the Done    *)
(* that its Adds announced.  Whoever makes the counter zero wakes all       *)
(* waiters:                                                                 *)
(*   - of fibers, under lock_ up to the last PopFront;                      *)
(*   - of a coroutine group, under lock_ up to the last PopFront, which is  *)
(*     done without it;                                                     *)
(*   - of a coroutine event, without lock_ altogether;                      *)
(*   - of threads, by notify_all under mutex_, and each then takes mutex_.  *)
(*                                                                          *)
(* As in the tests the waiters own the object: they may destroy it as soon  *)
(* as all of them have returned from Wait, while Fire or Done is still      *)
(* running elsewhere, and a group is used for another round only then.      *)
(* What is done under lock_ is one step up to a Schedule or its release.    *)
(*                                                                          *)
(* Schedule submits the waiter.  A coroutine that has no scheduler runs     *)
(* inside Schedule instead: that is the order of steps in which the job     *)
(* takes none between Schedule and the return of Wait.  (Done has lock_     *)
(* there, and such a coroutine could not wait for the group again; but it   *)
(* does so only when the others have returned, too.)                        *)
(***************************************************************************)
EXTENDS Integers, Sequences

CONSTANTS
  Waiters,   \* fibers, coroutines or threads that call Wait
  Jobs,      \* threads, fibers or coroutines that call Fire or Done
  Rounds,    \* bound: Add and Done by a job, Wait by a waiter
  Nobody     \* lock_ is free, nullptr

ASSUME LatchAssumption ==
  Waiters \intersect Jobs = {} /\ Nobody \notin Waiters \union Jobs /\ Rounds \in Nat

VARIABLES
  kind,      \* which of the classes this is
  guard,     \* who holds lock_ or mutex_
  count,     \* running_, n_wait_, counter_; of an event 0 when fired_
  waiters,   \* waiters_
  pc,        \* where a waiter is in Wait, a job in Fire or Done
  waiter,    \* what a job has popped
  last,      \* whether that was the last one (empty, behind the loop)
  todo,      \* rounds to go
  sawZero,   \* history: the counter was 0 since the waiter called Wait
  synced     \* history: a Wait returned since the last Add

vars == <<kind, guard, count, waiters, pc, waiter, last, todo, sawZero, synced>>
history == <<kind, todo, sawZero, synced>>

Events == {"fiberEvent", "coroEvent"}
FiberKinds == {"fiberEvent", "fiberGroup"}
CoroKinds == {"coroEvent", "coroGroup"}
Kinds == FiberKinds \union CoroKinds \union {"threadGroup"}

\* One job is to fire an event.
Init ==
  /\ kind \in Kinds
  /\ guard = Nobody /\ waiters = <<>>
  /\ count = IF kind \in Events THEN 1 ELSE 0
  /\ \E firer \in Jobs :
       pc = [p \in Waiters \union Jobs |->
               IF kind \in Events /\ p = firer THEN "working" ELSE "idle"]
  /\ waiter = [j \in Jobs |-> Nobody] /\ last = [j \in Jobs |-> FALSE]
  /\ todo = [p \in Waiters \union Jobs |-> IF kind \in Events /\ p \in Jobs THEN 0 ELSE Rounds]
  /\ sawZero = [w \in Waiters |-> FALSE] /\ synced = FALSE

Goto(p, label) == pc' = [pc EXCEPT ![p] = label]

\* Add(1), called on behalf of job j before it starts.
Add(j) ==
  /\ pc[j] = "idle" /\ todo[j] > 0
  /\ count > 0 \/ \A w \in Waiters : pc[w] = "idle"
  /\ guard = Nobody
  /\ count' = count + 1
  /\ todo' = [todo EXCEPT ![j] = @ - 1]
  /\ synced' = FALSE
  /\ Goto(j, "working")
  /\ UNCHANGED <<kind, guard, waiters, waiter, last, sawZero>>

\* Job j takes lock_ and counts down.
CountDown(j) ==
  /\ pc[j] = "working" /\ guard = Nobody
  /\ guard' = j
  /\ count' = count - 1
  /\ sawZero' = [w \in Waiters |-> sawZero[w] \/ count' = 0]
  /\ UNCHANGED <<kind, waiters, waiter, last, todo, synced>>

\* Fire of a fiber event, Done of a fiber group.
FiberSignal(j) ==
  /\ kind \in FiberKinds
  /\ CountDown(j)
  /\ Goto(j, IF count' = 0 THEN "pop" ELSE "unlock")

\* Its loop: PopFront and, if this was the last one, unlock.
FiberPopKeepsLock(j) ==                                     \* mutant
  /\ pc[j] = "pop"
  /\ waiter' = [waiter EXCEPT ![j] = IF waiters = <<>> THEN Nobody ELSE Head(waiters)]
  /\ waiters' = IF waiters = <<>> THEN waiters ELSE Tail(waiters)
  /\ last' = [last EXCEPT ![j] = waiters = <<>>]
  /\ guard' = IF waiters = <<>> THEN Nobody ELSE guard
  /\ Goto(j, "schedule")
  /\ UNCHANGED <<count, history>>
FiberPop(j) ==
  /\ pc[j] = "pop"
  /\ waiter' = [waiter EXCEPT ![j] = IF waiters = <<>> THEN Nobody ELSE Head(waiters)]
  /\ waiters' = IF waiters = <<>> THEN waiters ELSE Tail(waiters)
  /\ last' = [last EXCEPT ![j] = waiters' = <<>>]
  /\ guard' = IF waiters' = <<>> THEN Nobody ELSE guard
  /\ Goto(j, "schedule")
  /\ UNCHANGED <<count, history>>

\* Fire of a coroutine event: the block under the lock_guard, and its end.
CoroFireNoFlag(j) ==                                        \* mutant
  /\ kind = "coroEvent"
  /\ pc[j] = "working" /\ guard = Nobody
  /\ guard' = j
  /\ count' = IF waiters = <<>> THEN 0 ELSE count
  /\ sawZero' = [w \in Waiters |-> TRUE]
  /\ Goto(j, "fired")
  /\ UNCHANGED <<kind, waiters, waiter, last, todo, synced>>
CoroFire(j) ==
  /\ kind = "coroEvent"
  /\ CountDown(j)
  /\ Goto(j, "fired")

CoroFireUnlock(j) ==
  /\ pc[j] = "fired"
  /\ guard' = Nobody
  /\ Goto(j, IF waiters = <<>> THEN "idle" ELSE "walk")
  /\ UNCHANGED <<count, waiters, waiter, last, history>>

\* Done of a coroutine group.
CoroDone(j) ==
  /\ kind = "coroGroup"
  /\ CountDown(j)
  /\ Goto(j, IF count' # 0 \/ waiters = <<>> THEN "unlock" ELSE "walk")

\* The loop of both, while Size() > 1, and the PopFront behind it.
CoroPop(j) ==
  /\ pc[j] = "last" \/ (pc[j] = "walk" /\ Len(waiters) > 1)
  /\ waiter' = [waiter EXCEPT ![j] = Head(waiters)]
  /\ waiters' = Tail(waiters)
  /\ last' = [last EXCEPT ![j] = pc[j] = "last"]
  /\ Goto(j, "schedule")
  /\ UNCHANGED <<guard, count, history>>

\* The end of the loop; Done unlocks there.
CoroWalkEnd(j) ==
  /\ pc[j] = "walk" /\ Len(waiters) <= 1
  /\ guard' = IF kind = "coroGroup" THEN Nobody ELSE guard
  /\ Goto(j, "last")
  /\ UNCHANGED <<count, waiters, waiter, last, history>>

Schedule(j) ==
  /\ pc[j] = "schedule"
  /\ LET next == IF last[j] THEN "idle" ELSE IF kind \in FiberKinds THEN "pop" ELSE "walk"
     IN  pc' = IF waiter[j] = Nobody THEN [pc EXCEPT ![j] = next]
               ELSE [pc EXCEPT ![j] = next, ![waiter[j]] = "scheduled"]
  /\ UNCHANGED <<guard, count, waiters, waiter, last, history>>

\* Done without anyone to wake: the unique_lock ends.
DoneEnd(j) ==
  /\ pc[j] = "unlock"
  /\ guard' = Nobody
  /\ Goto(j, "idle")
  /\ UNCHANGED <<count, waiters, waiter, last, history>>

\* Wait of a fiber: Suspend(awaiter).
FiberWait(w) ==
  /\ kind \in FiberKinds /\ pc[w] = "idle" /\ todo[w] > 0
  /\ todo' = [todo EXCEPT ![w] = @ - 1]
  /\ sawZero' = [sawZero EXCEPT ![w] = count = 0]
  /\ Goto(w, "suspending")
  /\ UNCHANGED <<kind, guard, count, waiters, waiter, last, synced>>

\* Wait of a fiber: the awaiter.
FiberAwaitTooFew(w) ==                                      \* mutant
  /\ pc[w] = "suspending" /\ guard = Nobody
  /\ \/ count <= 1 /\ Goto(w, "scheduled") /\ UNCHANGED <<guard, waiters>>
     \/ count > 1 /\ guard' = w /\ waiters' = Append(waiters, w) /\ Goto(w, "parked")
  /\ UNCHANGED <<count, waiter, last, history>>
FiberAwaitSpins(w) ==                                       \* mutant
  /\ pc[w] = "suspending" /\ guard = Nobody
  /\ \/ count = 0 /\ UNCHANGED <<guard, waiters, pc>>
     \/ count > 0 /\ guard' = w /\ waiters' = Append(waiters, w) /\ Goto(w, "parked")
  /\ UNCHANGED <<count, waiter, last, history>>
FiberAwait(w) ==
  /\ pc[w] = "suspending" /\ guard = Nobody
  /\ \/ /\ count = 0              \* unlocks before it schedules
        /\ Goto(w, "scheduled")
        /\ UNCHANGED <<guard, waiters>>
     \/ /\ count > 0
        /\ guard' = w
        /\ waiters' = Append(waiters, w)
        /\ Goto(w, "parked")
  /\ UNCHANGED <<count, waiter, last, history>>

\* Wait of a coroutine: await_suspend, WaitSuspend.
CoroWait(w) ==
  /\ kind \in CoroKinds /\ pc[w] = "idle" /\ todo[w] > 0 /\ guard = Nobody
  /\ guard' = w
  /\ todo' = [todo EXCEPT ![w] = @ - 1]
  /\ sawZero' = [sawZero EXCEPT ![w] = count = 0]
  /\ \/ count = 0 /\ Goto(w, "ready") /\ UNCHANGED waiters
     \/ count > 0 /\ Goto(w, "parked") /\ waiters' = Append(waiters, w)
  /\ UNCHANGED <<kind, count, waiter, last, synced>>

\* Those whom a WaitGroup of threads counts in contention_: they wait at CV, or
\* have been woken there.
Contention == {w \in Waiters : kind = "threadGroup" /\ pc[w] \in {"parked", "woken"}}

\* Done of threads.
ThreadDone(j) ==
  /\ kind = "threadGroup"
  /\ CountDown(j)
  /\ pc' = [p \in Waiters \union Jobs |->
              IF p = j THEN "unlock"
              ELSE IF count' = 0 /\ p \in Contention THEN "woken" ELSE pc[p]]

\* Wait of threads: up to the sleep at CV, which WaitEnd makes release mutex_, or
\* to the end.
ThreadWait(w) ==
  /\ kind = "threadGroup" /\ pc[w] = "idle" /\ todo[w] > 0 /\ guard = Nobody
  /\ guard' = w
  /\ todo' = [todo EXCEPT ![w] = @ - 1]
  /\ sawZero' = [sawZero EXCEPT ![w] = count = 0]
  /\ Goto(w, IF count = 0 THEN "ready" ELSE "parked")
  /\ UNCHANGED <<kind, count, waiters, waiter, last, synced>>

\* CV wakes somebody whom nobody notified.
Spurious(w) ==
  /\ w \in Contention /\ guard # w
  /\ Goto(w, "woken")
  /\ UNCHANGED <<guard, count, waiters, waiter, last, history>>

\* CV.wait has mutex_ again and asks its predicate.
ThreadWoken(w) ==
  /\ pc[w] = "woken" /\ guard = Nobody
  /\ guard' = w
  /\ Goto(w, IF count = 0 THEN "ready" ELSE "parked")
  /\ UNCHANGED <<count, waiters, waiter, last, history>>

\* The lock_ of Wait is released; await_suspend returns.
WaitEnd(w) ==
  /\ guard = w
  /\ guard' = Nobody
  /\ Goto(w, IF pc[w] = "ready" THEN "idle" ELSE pc[w])
  /\ synced' = (synced \/ pc[w] = "ready")
  /\ UNCHANGED <<kind, count, waiters, waiter, last, todo, sawZero>>

\* A worker runs the fiber or the coroutine, and Wait returns.
Resume(w) ==
  /\ pc[w] = "scheduled"
  /\ Goto(w, "idle")
  /\ synced' = TRUE
  /\ UNCHANGED <<kind, guard, count, waiters, waiter, last, todo, sawZero>>

Finished ==
  /\ \A p \in Waiters \union Jobs : pc[p] = "idle" /\ todo[p] = 0
  /\ UNCHANGED vars

Signal(j) == FiberSignal(j) \/ CoroFire(j) \/ CoroDone(j) \/ ThreadDone(j)
JobStep(j) ==
  \/ FiberPop(j) \/ CoroFireUnlock(j) \/ CoroPop(j) \/ CoroWalkEnd(j)
  \/ Schedule(j) \/ DoneEnd(j)
WaiterStep(w) == FiberAwait(w) \/ ThreadWoken(w) \/ WaitEnd(w) \/ Resume(w)

Next ==
  \/ \E j \in Jobs : Add(j) \/ Signal(j) \/ JobStep(j)
  \/ \E w \in Waiters : FiberWait(w) \/ CoroWait(w) \/ ThreadWait(w) \/ Spurious(w) \/ WaiterStep(w)
  \/ Finished

\* Workers run what is scheduled and whoever spins on lock_ gets it if it
\* stays free; neither Fire nor Done need be called.
Fairness ==
  /\ \A j \in Jobs : WF_vars(JobStep(j))
  /\ \A w \in Waiters : WF_vars(WaiterStep(w))

Spec == Init /\ [][Next]_vars
FairSpec == Spec /\ Fairness

-----------------------------------------------------------------------------
(* Properties. *)

\* Types.
TypeOK ==
  /\ kind \in Kinds
  /\ guard \in Waiters \union Jobs \union {Nobody}
  /\ count \in Nat
  /\ waiters \in Seq(Waiters)
  /\ pc \in [Waiters \union Jobs ->
               {"idle", "suspending", "ready", "parked", "woken", "scheduled", "working",
                "unlock", "pop", "fired", "walk", "last", "schedule"}]
  /\ waiter \in [Jobs -> Waiters \union {Nobody}] /\ last \in [Jobs -> BOOLEAN]
  /\ todo \in [Waiters \union Jobs -> Nat]
  /\ sawZero \in [Waiters -> BOOLEAN] /\ synced \in BOOLEAN

\* Wait returns only if the counter was zero (the event fired) at some time
\* during the call; and whom Fire or Done is about to schedule is suspended in
\* that call, not back from it or in a later one.
NoEarlyReturn ==
  /\ TypeOK
  /\ \A w \in Waiters : pc[w] \in {"ready", "scheduled"} => sawZero[w]
  /\ \A j \in Jobs : pc[j] = "schedule" /\ waiter[j] # Nobody => pc[waiter[j]] = "parked"

\* When the calls of Wait have returned and there was no Add since, the object
\* is not touched any more ("you must not access any Event fields after last
\* Schedule", fiber/sync/event.hpp:41): neither by a Fire or Done that still
\* wakes others or has still to release lock_, nor by an awaiter.
SafeToDestroy ==
  synced /\ (\A w \in Waiters : pc[w] = "idle")
    => /\ guard = Nobody
       /\ \A j \in Jobs : pc[j] = "idle" \/ (pc[j] = "schedule" /\ last[j])

\* Fire and Done of coroutines are at the list without lock_: until they are
\* done nobody else changes it.
UnlockedWalkIsAlone ==
  [][\A j \in Jobs : kind \in CoroKinds /\ guard # j /\ pc[j] \in {"walk", "last"}
                       => waiters' = waiters \/ CoroPop(j)]_vars

\* Once the counter is zero, whoever waits returns.
EveryWaitReturns == \A w \in Waiters : count = 0 /\ pc[w] # "idle" ~> pc[w] = "idle"
=============================================================================
