------------------------------ MODULE Strand ------------------------------
(***************************************************************************)
(* Strand (fiber/sync/strand.hpp): a fiber that calls Combine either runs   *)
(* its critical section and then a batch of the sections pushed meanwhile,  *)
(* or pushes its section on the stack at waiters_head_ and suspends until a *)
(* combiner has run it.                                                     *)
(*                                                                          *)
(* waiters_head_ packs a pointer and a busy bit.  busy says that there is a *)
(* combiner; top is the stack of waiters:                                   *)
(*   nullptr           [busy |-> FALSE, top |-> Nil]                        *)
(*   GetDummyWaiter()  [busy |-> TRUE,  top |-> Nil]                        *)
(*   AddBusyBit(w)     [busy |-> TRUE,  top |-> w]                          *)
(*   w                 [busy |-> FALSE, top |-> w]: a batch nobody owns.    *)
(* A waiter is on its fiber's stack and is named by the fiber, so a later   *)
(* call of the fiber reuses the address.  Each atomic operation is a step.  *)
(***************************************************************************)
EXTENDS Integers

CONSTANTS
  Fibers,
  Calls,     \* bound: calls of Combine by a fiber
  Nil        \* nullptr

ASSUME NilAssumption == Nil \notin Fibers
ASSUME CallsAssumption == Calls \in Nat

VARIABLES
  head,      \* waiters_head_
  next,      \* next of the waiter of a fiber
  pc,        \* where a fiber, or the awaiter it suspended with, is in Combine
  old,       \* old_head, maybe_nullptr or batch_head of a compare_exchange
  batch,     \* maybe_batch_head, then batch_head_node
  current,   \* waiter in ProcessBatch
  todo,      \* calls still to make
  call,      \* history: "none", "pending" or "served"
  running    \* history: whose section is running

vars == <<head, next, pc, old, batch, current, todo, call, running>>

Free == [busy |-> FALSE, top |-> Nil]
Dummy == [busy |-> TRUE, top |-> Nil]
AddBusyBit(w) == [busy |-> TRUE, top |-> w]
StripBusyBit(h) == [busy |-> FALSE, top |-> h.top]

Head == [busy : BOOLEAN, top : Fibers \union {Nil}]

Init ==
  /\ head = Free
  /\ next = [f \in Fibers |-> Nil]
  /\ pc = [f \in Fibers |-> "idle"]
  /\ old = [f \in Fibers |-> Free]
  /\ batch = [f \in Fibers |-> Nil]
  /\ current = [f \in Fibers |-> Nil]
  /\ todo = [f \in Fibers |-> Calls]
  /\ call = [f \in Fibers |-> "none"]
  /\ running = Nil

Goto(f, label) == pc' = [pc EXCEPT ![f] = label]

LoadHead(f) == old' = [old EXCEPT ![f] = head]

\* waiters_head_.compare_exchange_strong(old, new): old gets the head if it fails.
CompareExchange(f, new) ==
  /\ head = old[f]
  /\ head' = new
  /\ UNCHANGED old
CompareExchangeNoReload(f) ==                                \* mutant
  head # old[f] /\ UNCHANGED <<head, old>>
CompareExchangeFails(f) ==
  /\ head # old[f]
  /\ LoadHead(f)
  /\ UNCHANGED head

\* Combine has returned.
Return(f) ==
  /\ Goto(f, "idle")
  /\ call' = [call EXCEPT ![f] = "none"]

-----------------------------------------------------------------------------
(* Combine. *)

Combine(f) ==
  /\ pc[f] = "idle" /\ todo[f] > 0
  /\ todo' = [todo EXCEPT ![f] = @ - 1]
  /\ call' = [call EXCEPT ![f] = "pending"]
  /\ batch' = [batch EXCEPT ![f] = Nil]
  /\ LoadHead(f)
  /\ Goto(f, IF head = Free THEN "combineCas" ELSE "await")
  /\ UNCHANGED <<head, next, current, running>>

CombineCas(f) ==
  /\ pc[f] = "combineCas"
  /\ \/ CompareExchange(f, Dummy) /\ Goto(f, "own")
     \/ CompareExchangeFails(f) /\ Goto(f, "await")
  /\ UNCHANGED <<next, batch, current, todo, call, running>>

\* The awaiter, after the fiber was switched out.
Await(f) ==
  /\ pc[f] = "await"
  /\ LoadHead(f)
  /\ Goto(f, "awaitCas")
  /\ UNCHANGED <<head, next, batch, current, todo, call, running>>

\* Nobody combines: become the combiner, of the orphaned batch if there is one,
\* and schedule the own fiber.
AwaitOwn(f) ==
  /\ pc[f] = "awaitCas" /\ ~old[f].busy
  /\ \/ /\ CompareExchange(f, Dummy)
        /\ batch' = [batch EXCEPT ![f] = old[f].top]
        /\ Goto(f, "own")
     \/ CompareExchangeFails(f) /\ UNCHANGED <<batch, pc>>
  /\ UNCHANGED <<next, current, todo, call, running>>

\* Somebody combines: push the waiter.
AwaitPush(f) ==
  /\ pc[f] = "awaitCas" /\ old[f].busy
  /\ next' = [next EXCEPT ![f] = old[f].top]
  /\ \/ CompareExchange(f, AddBusyBit(f)) /\ Goto(f, "parked")
     \/ CompareExchangeFails(f) /\ UNCHANGED pc
  /\ UNCHANGED <<batch, current, todo, call, running>>

\* Not an owner: after its section was run, a fiber adopts the batch that the
\* combiner may have left behind.
ResumeLeaves(f) ==                                           \* mutant
  /\ pc[f] = "resumed"
  /\ Return(f)
  /\ UNCHANGED <<head, next, old, batch, current, todo, running>>
Resume(f) ==
  /\ pc[f] = "resumed"
  /\ LoadHead(f)
  /\ IF head # Free /\ ~head.busy
     THEN Goto(f, "adoptCas") /\ UNCHANGED call
     ELSE Return(f)
  /\ UNCHANGED <<head, next, batch, current, todo, running>>

AdoptAsOwner(f) ==                                           \* mutant
  /\ pc[f] = "adoptCas"
  /\ \/ /\ CompareExchange(f, Dummy)
        /\ batch' = [batch EXCEPT ![f] = old[f].top]
        /\ Goto(f, "own")
        /\ UNCHANGED call
     \/ CompareExchangeFails(f) /\ Return(f) /\ UNCHANGED batch
  /\ UNCHANGED <<next, current, todo, running>>
AdoptCas(f) ==
  /\ pc[f] = "adoptCas"
  /\ \/ /\ CompareExchange(f, Dummy)
        /\ batch' = [batch EXCEPT ![f] = old[f].top]
        /\ Goto(f, "run")
        /\ UNCHANGED call
     \/ CompareExchangeFails(f) /\ Return(f) /\ UNCHANGED batch
  /\ UNCHANGED <<next, current, todo, running>>

-----------------------------------------------------------------------------
(* RunTask and ProcessBatch. *)

EnterSection(f, w, label) ==
  /\ running' = w
  /\ current' = [current EXCEPT ![f] = w]
  /\ Goto(f, label)

LeaveSection(w) ==
  /\ running' = Nil
  /\ call' = [call EXCEPT ![w] = "served"]

\* waiter.RunTask() of an owner, before ProcessBatch.
RunOwn(f) ==
  /\ pc[f] = "own"
  /\ EnterSection(f, f, "ownRunning")
  /\ UNCHANGED <<head, next, old, batch, todo, call>>

RunOwnEnd(f) ==
  /\ pc[f] = "ownRunning"
  /\ LeaveSection(f)
  /\ LoadHead(f)
  /\ Goto(f, IF batch[f] = Nil THEN "takeCas" ELSE "run")
  /\ UNCHANGED <<head, next, batch, current, todo>>

\* ProcessBatch(nullptr): leave if nobody came, otherwise take what was pushed.
TakeBatchLeavesStack(f) ==                                   \* mutant
  /\ pc[f] = "takeCas"
  /\ \/ /\ old[f] = Dummy
        /\ CompareExchange(f, Free) /\ Return(f)
        /\ UNCHANGED batch
     \/ /\ old[f] # Dummy
        /\ CompareExchange(f, old[f]) /\ Goto(f, "run")
        /\ batch' = [batch EXCEPT ![f] = old[f].top]
        /\ UNCHANGED call
     \/ CompareExchangeFails(f) /\ UNCHANGED <<batch, pc, call>>
  /\ UNCHANGED <<next, current, todo, running>>
TakeBatch(f) ==
  /\ pc[f] = "takeCas"
  /\ \/ /\ old[f] = Dummy
        /\ CompareExchange(f, Free) /\ Return(f)
        /\ UNCHANGED batch
     \/ /\ old[f] # Dummy
        /\ CompareExchange(f, Dummy) /\ Goto(f, "run")
        /\ batch' = [batch EXCEPT ![f] = old[f].top]
        /\ UNCHANGED call
     \/ CompareExchangeFails(f) /\ UNCHANGED <<batch, pc, call>>
  /\ UNCHANGED <<next, current, todo, running>>

\* The loop over the batch: the next waiter is read before the section runs.
Run(f) ==
  /\ pc[f] = "run"
  /\ EnterSection(f, batch[f], "running")
  /\ batch' = [batch EXCEPT ![f] = next[batch[f]]]
  /\ UNCHANGED <<head, next, old, todo, call>>

RunEnd(f) ==
  /\ pc[f] = "running"
  /\ LeaveSection(current[f])
  /\ LoadHead(f)
  /\ Goto(f, IF batch[f] = Nil THEN "handOffCas" ELSE "wake")
  /\ UNCHANGED <<head, next, batch, current, todo>>

\* After the last section of the batch, before its fiber is scheduled: nobody
\* combines any more.
HandOffStillBusy(f) ==                                       \* mutant
  /\ pc[f] = "handOffCas"
  /\ \/ CompareExchange(f, IF old[f] = Dummy THEN Free ELSE old[f]) /\ Goto(f, "wake")
     \/ CompareExchangeFails(f) /\ UNCHANGED pc
  /\ UNCHANGED <<next, batch, current, todo, call, running>>
HandOff(f) ==
  /\ pc[f] = "handOffCas"
  /\ \/ CompareExchange(f, StripBusyBit(old[f])) /\ Goto(f, "wake")
     \/ CompareExchangeFails(f) /\ UNCHANGED pc
  /\ UNCHANGED <<next, batch, current, todo, call, running>>

\* waiter->Schedule().
Wake(f) ==
  /\ pc[f] = "wake"
  /\ IF batch[f] = Nil
     THEN /\ pc' = [pc EXCEPT ![f] = "idle", ![current[f]] = "resumed"]
          /\ call' = [call EXCEPT ![f] = "none"]
     ELSE /\ pc' = [pc EXCEPT ![f] = "run", ![current[f]] = "resumed"]
          /\ UNCHANGED call
  /\ UNCHANGED <<head, next, old, batch, current, todo, running>>

-----------------------------------------------------------------------------
Step(f) ==
  \/ Combine(f) \/ CombineCas(f) \/ Await(f) \/ AwaitOwn(f) \/ AwaitPush(f)
  \/ Resume(f) \/ AdoptCas(f)
  \/ RunOwn(f) \/ RunOwnEnd(f) \/ TakeBatch(f)
  \/ Run(f) \/ RunEnd(f) \/ HandOff(f) \/ Wake(f)

\* All calls have returned.
Finished == (\A f \in Fibers : pc[f] = "idle" /\ todo[f] = 0) /\ UNCHANGED vars

Next == (\E f \in Fibers : Step(f)) \/ Finished

\* The scheduler runs every fiber it was given; a thread keeps running.
Fairness == \A f \in Fibers : WF_vars(Step(f))

Spec == Init /\ [][Next]_vars
FairSpec == Spec /\ Fairness

-----------------------------------------------------------------------------
(* Properties. *)

Labels == {"idle", "combineCas", "await", "awaitCas", "parked", "resumed", "adoptCas",
           "own", "ownRunning", "takeCas", "run", "running", "handOffCas", "wake"}

\* Types; ProcessBatch never walks the dummy (the asserts on GetDummyWaiter).
TypeOK ==
  /\ head \in Head
  /\ next \in [Fibers -> Fibers \union {Nil}]
  /\ pc \in [Fibers -> Labels]
  /\ old \in [Fibers -> Head]
  /\ batch \in [Fibers -> Fibers \union {Nil}]
  /\ current \in [Fibers -> Fibers \union {Nil}]
  /\ todo \in [Fibers -> 0 .. Calls]
  /\ call \in [Fibers -> {"none", "pending", "served"}]
  /\ running \in Fibers \union {Nil}
  /\ \A f \in Fibers : pc[f] = "run" => batch[f] # Nil

\* Every critical section is run exactly once before its Combine returns, and
\* never while another one runs.
Sections == INSTANCE CriticalSections
ImplementsSections == Sections!Spec

\* Fibers that may run sections: the busy bit stands for them.
Combining(f) ==
  \/ pc[f] \in {"own", "ownRunning", "takeCas", "run", "running", "handOffCas"}
  \/ pc[f] = "wake" /\ batch[f] # Nil

\* There is at most one combiner, and the busy bit is set exactly while there
\* is one.
OneCombiner ==
  /\ \A f, g \in Fibers : Combining(f) /\ Combining(g) => f = g
  /\ head.busy <=> \E f \in Fibers : Combining(f)

\* The waiters of a stack, from w on: they are in every set that has w and, of
\* each of its waiters, the next one.
Closed(S) == \A w \in S : next[w] \in S \union {Nil}
Waiters(w) == {v \in Fibers : \A S \in SUBSET Fibers : Closed(S) /\ w \in S \union {Nil} => v \in S}

\* A waiter lives on the stack of its fiber: whatever is reachable from the
\* head or held by a combiner belongs to a fiber that is still suspended, and
\* no waiter is in two places.  The dummy is never walked.
NoDanglingWaiter ==
  LET Held(f) == IF pc[f] \in {"running", "handOffCas", "wake"} THEN {current[f]} ELSE {}
      Pending(f) == IF Combining(f) THEN Waiters(batch[f]) ELSE {}
      Pushed == Waiters(head.top)
  IN  /\ TypeOK
      /\ \A w \in Pushed : pc[w] = "parked"
      /\ \A f \in Fibers :
           /\ \A w \in Held(f) \union Pending(f) : pc[w] = "parked" /\ w \notin Pushed
           /\ Held(f) \intersect Pending(f) = {}
           /\ \A g \in Fibers \ {f} : Held(f) \intersect (Held(g) \union Pending(g)) = {}

\* A parked fiber is on the stack, in the batch of a combiner or about to be
\* woken, and a stack that nobody owns will be adopted: by the last fiber of
\* the batch before it, by a fiber that has already seen it, or by a newcomer.
NoAbandonedWaiter ==
  /\ \A w \in Fibers :
       pc[w] = "parked" =>
         \/ w \in Waiters(head.top)
         \/ \E f \in Fibers : Combining(f) /\ w \in Waiters(batch[f])
         \/ \E f \in Fibers : pc[f] \in {"running", "handOffCas", "wake"} /\ current[f] = w
  /\ ~head.busy /\ head # Free =>
       \E f \in Fibers :
         \/ pc[f] = "wake" /\ batch[f] = Nil
         \/ pc[f] = "resumed"
         \/ pc[f] \in {"adoptCas", "awaitCas"} /\ old[f] = head

\* Every call of Combine returns.
EveryCombineReturns == <>[](\A f \in Fibers : pc[f] = "idle" /\ todo[f] = 0)

=============================================================================
