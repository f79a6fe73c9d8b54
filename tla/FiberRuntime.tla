--------------------------- MODULE FiberRuntime ---------------------------
(***************************************************************************)
(* Fibers (fiber/core, fiber/sched) and coroutines (coro/go.hpp,            *)
(* coro/sched) on the threads of a scheduler.                               *)
(*                                                                          *)
(* Run of a fiber switches to its stack and comes back when the fiber has   *)
(* completed or suspended itself.  Then, on the stack of the thread, the    *)
(* awaiter gets the handle of the fiber: it schedules the fiber or leaves   *)
(* the handle where others find it.  From there on the fiber may run, end   *)
(* and be deleted on another thread while the awaiter still returns.        *)
(* await_suspend of a coroutine is in the same position, except that it is  *)
(* called without a switch.  Which awaiter it is, and who keeps the         *)
(* handles, is up to the module that composes this one with a user.         *)
(*                                                                          *)
(* A coroutine starts on the thread that calls it and has no scheduler      *)
(* before its first JumpTo.  current_fiber is the this of the Run that the  *)
(* thread is in.  What fibers run is freed by Complete.                     *)
(***************************************************************************)
EXTENDS Integers

CONSTANTS
  Fibers,    \* fibers or coroutines
  Workers,   \* threads of the scheduler
  Main,      \* the thread that calls Go first
  Nobody     \* nullptr

VARIABLES
  flavour,   \* "fiber" or "coroutine"
  life,      \* "none", "alive", "completed" or "deleted"
  queued,    \* how often a fiber is submitted and not yet taken
  parked,    \* the fibers whose handles others keep
  phase,     \* what a thread does with the fiber
  this,      \* the fiber whose Run, or awaiter, a thread is in
  sched      \* a coroutine has a scheduler (sched_ of its promise)

runtime == <<life, queued, parked, phase, this, sched>>

Hosts == Workers \union {Main}

RuntimeInit ==
  /\ life = [f \in Fibers |-> "none"] /\ queued = [f \in Fibers |-> 0] /\ parked = {}
  /\ phase = [h \in Hosts |-> "idle"] /\ this = [h \in Hosts |-> Nobody]
  /\ sched = [f \in Fibers |-> FALSE]

\* Fiber::Schedule, with any hint.
Submit(f) == queued' = [queued EXCEPT ![f] = @ + 1]

\* Thread h is in fiber f.
Runs(h, f) == phase[h] = "running" /\ this[h] = f

Enter(h, f) ==
  /\ phase' = [phase EXCEPT ![h] = "running"]
  /\ this' = [this EXCEPT ![h] = f]

Leave(h) ==
  /\ phase' = [phase EXCEPT ![h] = "idle"]
  /\ this' = [this EXCEPT ![h] = Nobody]

\* The fiber is submitted by an awaiter that touches it no more: it may run
\* elsewhere, and end, while the thread that has left it still returns.
SubmitLast(h) ==
  /\ Submit(this[h])
  /\ phase' = [phase EXCEPT ![h] = "returning"]
  /\ this' = [this EXCEPT ![h] = Nobody]

\* NewFiber, or the call of a coroutine: initial_suspend is suspend_never.
NewFiber(f) == life[f] = "none" /\ life' = [life EXCEPT ![f] = "alive"]

-----------------------------------------------------------------------------
(* Fibers. *)

\* Go, by the main thread or by a fiber: a FunctionTask, a fiber, Schedule.
GoFiber(h, f) ==
  /\ flavour = "fiber" /\ phase[h] = IF h = Main THEN "idle" ELSE "running"
  /\ NewFiber(f)
  /\ Submit(f)
  /\ UNCHANGED <<flavour, parked, phase, this, sched>>

\* A worker runs what was submitted: Fiber::Run up to SwitchTo, or resume()
\* by Run of the awaiter.
Take(w, f) ==
  /\ w \in Workers /\ phase[w] = "idle" /\ queued[f] > 0
  /\ queued' = [queued EXCEPT ![f] = @ - 1]
  /\ Enter(w, f)
  /\ UNCHANGED <<flavour, life, parked, sched>>

\* Suspend, and Coroutine::Suspend.
SwitchOut(h) ==
  /\ flavour = "fiber" /\ phase[h] = "running"
  /\ phase' = [phase EXCEPT ![h] = "switched"]
  /\ UNCHANGED <<flavour, life, queued, parked, this, sched>>

\* The task returns and deletes itself; completed_ and ExitTo.
Complete(h) ==
  /\ flavour = "fiber" /\ phase[h] = "running"
  /\ life' = [life EXCEPT ![this[h]] = "completed"]
  /\ phase' = [phase EXCEPT ![h] = "switched"]
  /\ UNCHANGED <<flavour, queued, parked, this, sched>>

\* The end of Run when the fiber has completed.
Delete(h) ==
  /\ phase[h] = "switched" /\ life[this[h]] = "completed"
  /\ life' = [life EXCEPT ![this[h]] = "deleted"]
  /\ Leave(h)
  /\ UNCHANGED <<flavour, queued, parked, sched>>

-----------------------------------------------------------------------------
(* Coroutines. *)

\* A coroutine is called.
GoCoroutine(f) ==
  /\ flavour = "coroutine" /\ phase[Main] = "idle"
  /\ NewFiber(f)
  /\ Enter(Main, f)
  /\ UNCHANGED <<flavour, queued, parked, sched>>

\* await_suspend of JumpTo.
JumpToSubmitsFirst(h) ==                                    \* mutant
  /\ flavour = "coroutine" /\ phase[h] = "running"
  /\ Submit(this[h])
  /\ UNCHANGED <<flavour, life, parked, phase, this, sched>>
JumpTo(h) ==
  /\ flavour = "coroutine" /\ phase[h] = "running"
  /\ sched' = [sched EXCEPT ![this[h]] = TRUE]
  /\ SubmitLast(h)
  /\ UNCHANGED <<flavour, life, parked>>

\* await_suspend of Yield; without a scheduler the coroutine just goes on.
CoroYield(h) ==
  /\ flavour = "coroutine" /\ phase[h] = "running"
  /\ \/ sched[this[h]] /\ SubmitLast(h)
     \/ ~sched[this[h]] /\ UNCHANGED <<queued, phase, this>>
  /\ UNCHANGED <<flavour, life, parked, sched>>

\* FinalAwaiter::await_suspend.
Destroy(h) ==
  /\ flavour = "coroutine" /\ phase[h] = "running"
  /\ life' = [life EXCEPT ![this[h]] = "deleted"]
  /\ Leave(h)
  /\ UNCHANGED <<flavour, queued, parked, sched>>

-----------------------------------------------------------------------------
(* Awaiters. *)

\* The awaiter of the fiber that h has left may begin.
CanAwait(h) ==
  IF flavour = "fiber" THEN phase[h] = "switched" /\ life[this[h]] = "alive"
  ELSE phase[h] = "running"

\* It schedules the fiber ...
AwaitSchedules(h) ==
  /\ CanAwait(h)
  /\ Submit(this[h])
  /\ phase' = [phase EXCEPT ![h] = "awaiting"]
  /\ UNCHANGED <<flavour, life, parked, this, sched>>

\* ... or leaves the handle to others.
AwaitParks(h) ==
  /\ CanAwait(h)
  /\ parked' = parked \union {this[h]}
  /\ phase' = [phase EXCEPT ![h] = "awaiting"]
  /\ UNCHANGED <<flavour, life, queued, this, sched>>

\* The awaiter and Run return.
AwaitReturnsToFiber(h) ==                                   \* mutant
  /\ phase[h] = "awaiting"
  /\ phase' = [phase EXCEPT ![h] = "switched"]
  /\ UNCHANGED <<flavour, life, queued, parked, this, sched>>
AwaitReturns(h) ==
  /\ phase[h] = "awaiting"
  /\ Leave(h)
  /\ UNCHANGED <<flavour, life, queued, parked, sched>>

\* The awaiter of Yield only schedules the fiber.
YieldAwait(h) ==
  /\ flavour = "fiber" /\ CanAwait(h)
  /\ SubmitLast(h)
  /\ UNCHANGED <<flavour, life, parked, sched>>

\* What comes after SubmitLast.
Returns(h) ==
  /\ phase[h] = "returning"
  /\ phase' = [phase EXCEPT ![h] = "idle"]
  /\ UNCHANGED <<flavour, life, queued, parked, this, sched>>

\* FiberHandle::Schedule, or Schedule of a waiter, by someone else.
Wake(f) ==
  /\ f \in parked
  /\ parked' = parked \ {f}
  /\ Submit(f)
  /\ UNCHANGED <<flavour, life, phase, this, sched>>

RuntimeStep(h) ==
  \/ SwitchOut(h) \/ Complete(h) \/ Delete(h) \/ JumpTo(h) \/ CoroYield(h) \/ Destroy(h)
  \/ AwaitSchedules(h) \/ AwaitParks(h) \/ AwaitReturns(h) \/ YieldAwait(h) \/ Returns(h)
  \/ \E f \in Fibers : GoFiber(h, f) \/ Take(h, f)

RuntimeNext ==
  (\E h \in Hosts : RuntimeStep(h)) \/ (\E f \in Fibers : GoCoroutine(f) \/ Wake(f))

RuntimeSpec == RuntimeInit /\ flavour \in {"fiber", "coroutine"} /\ [][RuntimeNext]_<<flavour, runtime>>

-----------------------------------------------------------------------------
(* Properties. *)

\* Thread h has the fiber for itself.
Has(h, f) == this[h] = f /\ phase[h] \in {"running", "switched"}

\* A fiber that is neither unborn nor deleted is in exactly one place: it is
\* submitted once, or its handle is kept by others, or one thread has it, which
\* runs it or has switched away from it and not yet called its awaiter.  So no
\* stack is resumed by two threads, or before it was left; Run neither looks at
\* a fiber that was deleted nor calls an awaiter whose fiber runs again; and no
\* fiber is forgotten or deleted twice.
FiberInOnePlace ==
  \A f \in Fibers :
    LET dead == life[f] \in {"none", "deleted"}
        held == \E h \in Hosts : Has(h, f)
    IN  /\ dead => queued[f] = 0 /\ f \notin parked /\ ~held
        /\ ~dead => \/ queued[f] = 1 /\ f \notin parked /\ ~held
                    \/ queued[f] = 0 /\ f \in parked /\ ~held
                    \/ queued[f] = 0 /\ f \notin parked /\ held
        /\ \A h, g \in Hosts : Has(h, f) /\ Has(g, f) => h = g

=============================================================================
