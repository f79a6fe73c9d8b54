--------------------------- MODULE MutexRuntime ---------------------------
(***************************************************************************)
(* The mutexes of FifoMutex used by the fibers and coroutines of            *)
(* FiberRuntime: a fiber takes a step of the mutex only while a thread runs *)
(* it, its awaiter is called by the thread that it has left, and whoever is *)
(* given the mutex is submitted to the scheduler.  Each step is a step of   *)
(* the mutex, of the runtime or of both.                                    *)
(*                                                                          *)
(* A coroutine without a scheduler does not wait for the mutex: Schedule    *)
(* would resume it under lock_, which it would try to take again.           *)
(***************************************************************************)
EXTENDS FifoMutex

CONSTANTS
  Workers, Main,
  Yields     \* bound: calls of Yield, and of JumpTo after the first

ASSUME RuntimeAssumption == Main \notin Workers /\ Nobody \notin Workers \union {Main} /\ Yields \in Nat

VARIABLES
  life, queued, phase, this, sched,  \* see FiberRuntime
  yields                             \* calls of Yield still to make

\* The handles are kept in waiters_.
Parked == {f \in Fibers : pc[f] = "parked"}

INSTANCE FiberRuntime WITH parked <- Parked

mutex == <<guard, locked, waiters, pc, todo>>
threads == <<life, queued, phase, this, sched>>
allVars == <<mutex, flavour, threads, yields>>

SystemInit == Init /\ RuntimeInit /\ yields = Yields

\* A step of the runtime alone: Go, JumpTo, Yield and the end of a fiber.
Spend == yields > 0 /\ yields' = yields - 1

RunGo(h, f) == UNCHANGED <<mutex, yields>> /\ (GoFiber(h, f) \/ (h = Main /\ GoCoroutine(f)))

RunTake(h, f) ==
  /\ IF pc[f] = "scheduled" THEN Resume(f) ELSE UNCHANGED mutex
  /\ Take(h, f)
  /\ UNCHANGED yields

RunYield(h, f) ==
  /\ Runs(h, f) /\ pc[f] = "idle"
  /\ Spend
  /\ UNCHANGED mutex
  /\ SwitchOut(h) \/ CoroYield(h)

RunJumpTo(h, f) ==
  /\ Runs(h, f) /\ pc[f] = "idle"
  /\ IF sched[f] THEN Spend ELSE UNCHANGED yields
  /\ UNCHANGED mutex
  /\ JumpTo(h)

RunEnd(h, f) ==
  /\ this[h] = f /\ pc[f] = "idle"
  /\ UNCHANGED <<mutex, yields>>
  /\ Complete(h) \/ Delete(h) \/ Destroy(h)

\* The awaiter of Yield.
RunYieldAwait(h, f) ==
  /\ this[h] = f /\ pc[f] = "idle"
  /\ UNCHANGED <<mutex, yields>>
  /\ YieldAwait(h)

\* The thread returns from JumpTo or Yield of a fiber that it has no more.
RunReturns(h) ==
  /\ UNCHANGED <<mutex, yields>>
  /\ Returns(h)

-----------------------------------------------------------------------------
(* Steps of the mutex. *)

RunLock(h, f) ==
  /\ Runs(h, f)
  /\ Lock(f)
  /\ SwitchOut(h)
  /\ UNCHANGED yields

RunAwait(h, f) ==
  /\ this[h] = f /\ phase[h] = "switched"
  /\ Await(f)
  /\ IF pc'[f] = "parked" THEN AwaitParks(h) ELSE AwaitSchedules(h)
  /\ UNCHANGED yields

RunTryLock(h, f) ==
  /\ Runs(h, f)
  /\ TryLock(f)
  /\ UNCHANGED <<threads, yields>>

RunCoroLock(h, f) ==
  /\ Runs(h, f) /\ (sched[f] \/ ~locked)
  /\ CoroLock(f)
  /\ IF pc'[f] = "parked" THEN AwaitParks(h) ELSE UNCHANGED threads
  /\ UNCHANGED yields

\* Unlock submits whoever is next.
RunUnlock(h, f) ==
  /\ Runs(h, f)
  /\ Unlock(f)
  /\ IF waiters = <<>> THEN UNCHANGED threads ELSE Wake(Head(waiters))
  /\ UNCHANGED yields

\* lock_ is released by the awaiter, which then returns, or by the fiber.
RunRelease(h, f) ==
  /\ this[h] = f
  /\ Release(f)
  /\ \/ AwaitReturns(h)
     \/ /\ Runs(h, f) /\ pc[f] \in {"acquired", "failed", "unlocked"}
        /\ UNCHANGED threads
  /\ UNCHANGED yields

AllEnded ==
  /\ \A f \in Fibers : life[f] = "deleted"
  /\ \A h \in Hosts : phase[h] = "idle"
  /\ UNCHANGED allVars

\* What thread h does next: without a fiber, and with f.
HostStep(h, f) ==
  \/ this[h] = Nobody /\ (RunTake(h, f) \/ RunReturns(h))
  \/ /\ this[h] = f
     /\ \/ RunYield(h, f) \/ RunJumpTo(h, f) \/ RunYieldAwait(h, f) \/ RunEnd(h, f)
        \/ RunLock(h, f) \/ RunAwait(h, f) \/ RunTryLock(h, f) \/ RunCoroLock(h, f)
        \/ RunUnlock(h, f) \/ RunRelease(h, f)

SystemNext == (\E h \in Hosts, f \in Fibers : RunGo(h, f) \/ HostStep(h, f)) \/ AllEnded

\* Each thread takes its steps; Go need not be called.
SystemSpec ==
  /\ SystemInit /\ [][SystemNext]_allVars
  /\ \A h \in Hosts : WF_allVars(\E f \in Fibers : HostStep(h, f))

-----------------------------------------------------------------------------
(* Properties. *)

\* Every fiber that was started comes to its end and is deleted, although it
\* may have to wait for the mutex, and threads may spin on lock_ meanwhile.  (A
\* fiber is started once, so this is life[f] = "alive" ~> life[f] = "deleted".)
EveryFiberEnds == \A f \in Fibers : []<>(life[f] \in {"none", "deleted"})

=============================================================================
