------------------------------ MODULE Futures ------------------------------
(***************************************************************************)
(* Lazy futures (future).  A chain of futures is materialized into one     *)
(* nested object, the computation, whose parts call each other through      *)
(* Start and Resume; the module follows these calls, thread by thread, from *)
(* the promises to the consumer, with the lifetime of every object:         *)
(*                                                                          *)
(*   contract   a promise and a future (make/contract.hpp), which share a   *)
(*              ContractState on the heap, freed by who comes second;       *)
(*   comb       none: one contract; both, first: Both and First of two      *)
(*              contracts; start: one contract | Start(); flatten: a        *)
(*              contract whose value is the future of another | Flatten();  *)
(*              submit: Submit(pool, f), ready: Ready(v) and just: Just(),  *)
(*              no contract;                                                *)
(*   early      start, flatten: | Via(pool) comes before it;                *)
(*   box        then follows | Box();                                       *)
(*   via        then | Via of the pool or of Inline(), or nothing;          *)
(*   chain      then a sequence of Map, AsTryFuture, MapOk, AndThen, OrElse;*)
(*   ok, userOk whether the inputs, and the futures that the functions of   *)
(*              AndThen and OrElse return, hold a value or an error;        *)
(*   end        the consumer is Get or Detach.                              *)
(*                                                                          *)
(* The threads are the producers p1 and p2, "c", which calls Get or Detach, *)
(* and "w", a worker of the pool.  Of a value the model keeps the promises  *)
(* that it comes from, the functions that have been applied to it, and      *)
(* whether it is a value or an error.                                       *)
(***************************************************************************)
EXTENDS Integers, Sequences, FiniteSets

CONSTANT Graphs   \* the futures that are built

VARIABLES
  graph,      \* one of Graphs, fixed by Init
  state,      \* state_ of the RendezvousStateMachine of a contract
  freed,      \* the contracts whose ContractState is deleted
  dead,       \* the objects that are deleted, other than contracts
  slot,       \* Both: a_ and b_; Start: val_, at 1
  held,       \* val_ of the continuations of the chain
  outer,      \* s_ of the inner continuation of Flatten, and of Start
  finished,   \* Both, First: finished_
  ready,      \* Start: ready_
  task,       \* the tasks in the pool: 0 for Submit, i for the chain at i
  fired,      \* Get: the event
  result,     \* Get: res
  pc,         \* where a thread is
  at,         \* the contract that a thread works for
  val,        \* the value a thread hands on
  scheduler,  \* the scheduler of the State it hands on, or "none"
  stage       \* where in the chain it is

contracts == <<state, freed>>
parts == <<slot, held, outer, finished, ready>>
demand == <<fired, result>>
locals == <<at, val, scheduler, stage>>
vars == <<graph, contracts, dead, parts, task, demand, pc, locals>>

Combs == {"none", "both", "first", "start", "flatten", "submit", "ready", "just"}
Inputs ==
  CASE graph.comb \in {"both", "first", "flatten"} -> {1, 2}
    [] graph.comb \in {"submit", "ready", "just"} -> {}
    [] OTHER -> {1}

\* What the types admit: Both and Just hold no Result before AsTryFuture.
WellTyped(g) ==
  /\ g.comb \in Combs /\ g.early \in BOOLEAN /\ g.box \in BOOLEAN
  /\ g.via \in {"none", "pool", "inline"} /\ g.end \in {"get", "detach"}
  /\ g.ok \in BOOLEAN /\ g.userOk \in BOOLEAN
  /\ g.early => g.comb \in {"start", "flatten"}
  /\ g.comb \in {"both", "just"} => g.ok
  /\ g.chain # <<>>
  /\ \A i \in 1 .. Len(g.chain) :
       LET plain == g.comb \in {"both", "just"} /\ \A j \in 1 .. i - 1 : g.chain[j] # "asTry"
       IN  g.chain[i] \in IF plain THEN {"map", "asTry"} ELSE {"map", "mapOk", "andThen", "orElse"}

ASSUME GraphsAssumption == \A g \in Graphs : WellTyped(g)
Threads == {"p1", "p2", "c", "w"}

\* enum of the RendezvousStateMachine
Empty == 0
Produced == 1
Consumed == 2
Rendezvous == 3

Value(promises) == [from |-> promises, calls |-> <<>>, ok |-> graph.ok]
Nothing == [from |-> {}, calls |-> <<>>, ok |-> FALSE]

\* What Start of the computation calls: Start() has started its input before.
StartOf(label) ==
  IF graph.box /\ (graph.comb = "start") = (label = "await") THEN "box start" ELSE label

Init ==
  /\ graph \in Graphs
  /\ state = [i \in {1, 2} |-> Empty] /\ freed = {} /\ dead = {}
  /\ slot = [i \in 1 .. 2 |-> Nothing] /\ held = [i \in 1 .. Len(graph.chain) |-> Nothing]
  /\ outer = "none" /\ finished = 0 /\ ready = FALSE
  /\ task = {} /\ fired = FALSE /\ result = Nothing
  /\ pc = [t \in Threads |-> IF t # "c" THEN "idle" ELSE StartOf("consume")]
  /\ at = [t \in Threads |-> IF t = "p2" THEN 2 ELSE 1]
  /\ val = [t \in Threads |-> Nothing] /\ scheduler = [t \in Threads |-> "none"]
  /\ stage = [t \in Threads |-> 1]

Goto(t, label) == pc' = [pc EXCEPT ![t] = label]

-----------------------------------------------------------------------------
(* The contract. *)

\* Promise::Set: value_ is written before state_, which says who runs the
\* callback.
Set(t) ==
  /\ t \in {"p1", "p2"} /\ at[t] \in Inputs /\ pc[t] = "idle"
  /\ val' = [val EXCEPT ![t] = Value({at[t]})]
  /\ Goto(t, "produce")
  /\ UNCHANGED <<contracts, dead, parts, task, demand, at, scheduler, stage>>

Produce(t) ==
  /\ pc[t] = "produce"
  /\ state' = [state EXCEPT ![at[t]] = IF @ = Consumed THEN Rendezvous ELSE Produced]
  /\ Goto(t, IF state[at[t]] = Consumed THEN "callback" ELSE "done")
  /\ UNCHANGED <<freed, dead, parts, task, demand, locals>>

\* Where c goes on when the Start of contract i has returned.
AfterStart(i) ==
  IF i = 1 /\ graph.comb \in {"both", "first"} THEN "next"
  ELSE IF graph.comb = "start" THEN StartOf("await")
  ELSE "started"

\* Start returns: of the inner future, to the callback of the outer contract.
StartReturns(t) ==
  IF graph.comb = "flatten" /\ at[t] = 2
  THEN Goto(t, "release") /\ at' = [at EXCEPT ![t] = 1]
  ELSE Goto(t, AfterStart(at[t])) /\ UNCHANGED at

\* ContractComputation::Start, called by c for one contract after the other,
\* and by who resumes Flatten for the inner one.
ConsumeDeaf(t) ==                                           \* mutant
  /\ pc[t] = "consume" /\ at[t] \in Inputs
  /\ state' = [state EXCEPT ![at[t]] = IF @ = Produced THEN Rendezvous ELSE Consumed]
  /\ StartReturns(t)
  /\ UNCHANGED <<freed, dead, parts, task, demand, val, scheduler, stage>>
Consume(t) ==
  /\ pc[t] = "consume" /\ at[t] \in Inputs
  /\ state' = [state EXCEPT ![at[t]] = IF @ = Produced THEN Rendezvous ELSE Consumed]
  /\ IF state[at[t]] = Produced
     THEN Goto(t, "callback") /\ val' = [val EXCEPT ![t] = Value({at[t]})] /\ UNCHANGED at
     ELSE StartReturns(t) /\ UNCHANGED val
  /\ UNCHANGED <<freed, dead, parts, task, demand, scheduler, stage>>

NextStart(t) ==
  /\ pc[t] = "next"
  /\ at' = [at EXCEPT ![t] = 2]
  /\ Goto(t, "consume")
  /\ UNCHANGED <<contracts, dead, parts, task, demand, val, scheduler, stage>>

\* The callback has returned: delete this.
Release(t) ==
  /\ pc[t] = "release"
  /\ freed' = freed \union {at[t]}
  /\ IF <<t, at[t]>> \in {<<"p1", 1>>, <<"p2", 2>>}      \* in Produce
     THEN Goto(t, "done") /\ UNCHANGED at
     ELSE StartReturns(t)
  /\ UNCHANGED <<state, dead, parts, task, demand, val, scheduler, stage>>

-----------------------------------------------------------------------------
(* What the callback resumes. *)

Unboxed == IF graph.via # "none" THEN "via" ELSE "resume"

\* What consumes the value of the contracts.
Consumer == IF graph.box THEN "box" ELSE Unboxed

ResumeNone(t) ==
  /\ graph.comb = "none" /\ pc[t] = "callback"
  /\ Goto(t, Consumer)
  /\ UNCHANGED <<contracts, dead, parts, task, demand, locals>>

\* BothContinuation::ResumeA, ResumeB
ResumeBoth(t) ==
  /\ graph.comb = "both" /\ pc[t] = "callback"
  /\ slot' = [slot EXCEPT ![at[t]] = val[t]]
  /\ Goto(t, "check")
  /\ UNCHANGED <<contracts, dead, held, outer, finished, ready, task, demand, locals>>

CheckFirst(t) ==                                            \* mutant
  /\ pc[t] = "check"
  /\ finished' = finished + 1
  /\ IF finished = 0
     THEN Goto(t, Consumer) /\ val' = [val EXCEPT ![t] = Value(slot[1].from \union slot[2].from)]
     ELSE Goto(t, "release") /\ UNCHANGED val
  /\ UNCHANGED <<contracts, dead, slot, held, outer, ready, task, demand, at, scheduler, stage>>
Check(t) ==
  /\ pc[t] = "check"
  /\ finished' = finished + 1
  /\ IF finished = 1
     THEN Goto(t, Consumer) /\ val' = [val EXCEPT ![t] = Value(slot[1].from \union slot[2].from)]
     ELSE Goto(t, "release") /\ UNCHANGED val
  /\ UNCHANGED <<contracts, dead, slot, held, outer, ready, task, demand, at, scheduler, stage>>

\* FirstContinuation::Resume: who comes second deletes the computation.
ResumeFirst(t) ==
  /\ graph.comb = "first" /\ pc[t] = "callback"
  /\ finished' = finished + 1
  /\ IF finished = 0
     THEN Goto(t, Consumer) /\ UNCHANGED dead
     ELSE Goto(t, "release") /\ dead' = dead \union {"first"}
  /\ UNCHANGED <<contracts, slot, held, outer, ready, task, demand, locals>>

\* The State with which a contract resumes, behind the demand of an early Via.
EarlyState == IF graph.early THEN "pool" ELSE "none"

\* FlattenContinuation::Resume, after the demand of an early Via, starts the
\* inner future; InnerFlattenContinuation::Resume hands its value on, with the
\* State of the outer one.
ResumeFlattenInner(t) ==                                    \* mutant
  /\ graph.comb = "flatten" /\ pc[t] = "callback"
  /\ \/ /\ at[t] = 1
        /\ outer' = EarlyState
        /\ Goto(t, "consume") /\ at' = [at EXCEPT ![t] = 2]
     \/ at[t] = 2 /\ Goto(t, Consumer) /\ UNCHANGED <<at, outer>>
  /\ UNCHANGED <<contracts, dead, slot, held, finished, ready, task, demand, val, scheduler, stage>>
ResumeFlatten(t) ==
  /\ graph.comb = "flatten" /\ pc[t] = "callback"
  /\ \/ /\ at[t] = 1
        /\ outer' = EarlyState
        /\ Goto(t, "consume") /\ at' = [at EXCEPT ![t] = 2]
        /\ UNCHANGED scheduler
     \/ /\ at[t] = 2
        /\ scheduler' = [scheduler EXCEPT ![t] = outer]
        /\ Goto(t, Consumer)
        /\ UNCHANGED <<at, outer>>
  /\ UNCHANGED <<contracts, dead, slot, held, finished, ready, task, demand, val, stage>>

\* StartComputation::Resume: val_ and s_ are written before ready_.
ResumeStart(t) ==
  /\ graph.comb = "start" /\ pc[t] = "callback"
  /\ slot' = [slot EXCEPT ![1] = val[t]]
  /\ outer' = EarlyState
  /\ Goto(t, "ready")
  /\ UNCHANGED <<contracts, dead, held, finished, ready, task, demand, locals>>

Ready(t) ==
  /\ pc[t] = "ready"
  /\ ready' = TRUE
  /\ Goto(t, "release")
  /\ UNCHANGED <<contracts, dead, slot, held, outer, finished, task, demand, locals>>

\* StartComputationWithConsumer::Start, in c.
Await(t) ==
  /\ pc[t] = "await" /\ ready
  /\ val' = [val EXCEPT ![t] = slot[1]]
  /\ scheduler' = [scheduler EXCEPT ![t] = outer]
  /\ Goto(t, Consumer)
  /\ UNCHANGED <<contracts, dead, parts, task, demand, at, stage>>

DeleteStart(t) ==
  /\ pc[t] = "delete start"
  /\ dead' = dead \union {"start"}
  /\ Goto(t, "started")
  /\ UNCHANGED <<contracts, parts, task, demand, locals>>

-----------------------------------------------------------------------------
(* Futures without a contract. *)

\* SubmitComputation::Start and, in the pool, Run.
SubmitStart(t) ==
  /\ graph.comb = "submit" /\ pc[t] = "consume"
  /\ task' = task \union {0}
  /\ Goto(t, "started")
  /\ UNCHANGED <<contracts, dead, parts, demand, locals>>

SubmitRun(t) ==
  /\ t = "w" /\ pc[t] = "idle" /\ 0 \in task
  /\ task' = task \ {0}
  /\ val' = [val EXCEPT ![t] = Value({1})]
  /\ scheduler' = [scheduler EXCEPT ![t] = "pool"]
  /\ Goto(t, Consumer)
  /\ UNCHANGED <<contracts, dead, parts, demand, at, stage>>

\* Start of a Ready value and of Just.
ReadyStart(t) ==
  /\ graph.comb = "ready" /\ pc[t] = "consume"
  /\ val' = [val EXCEPT ![t] = Value({1})]
  /\ Goto(t, Consumer)
  /\ UNCHANGED <<contracts, dead, parts, task, demand, at, scheduler, stage>>

JustStart(t) ==
  /\ graph.comb = "just" /\ pc[t] = "consume"
  /\ val' = [val EXCEPT ![t] = Value({})]
  /\ Goto(t, Consumer)
  /\ UNCHANGED <<contracts, dead, parts, task, demand, at, scheduler, stage>>

-----------------------------------------------------------------------------
(* Box, Via and the chain. *)

\* BoxComputation::Start and BoxConsumer::Resume
BoxStart(t) ==
  /\ pc[t] = "box start"
  /\ Goto(t, IF graph.comb = "start" THEN "await" ELSE "consume")
  /\ UNCHANGED <<contracts, dead, parts, task, demand, locals>>

BoxResume(t) ==
  /\ pc[t] = "box"
  /\ Goto(t, Unboxed)
  /\ UNCHANGED <<contracts, dead, parts, task, demand, locals>>

\* The demand of Via.
Via(t) ==
  /\ pc[t] = "via"
  /\ scheduler' = [scheduler EXCEPT ![t] = graph.via]
  /\ Goto(t, "resume")
  /\ UNCHANGED <<contracts, dead, parts, task, demand, at, val, stage>>

\* Where a thread returns to from the consumer.
Back(t) ==
  CASE t = "w" -> "idle"
    [] graph.comb = "start" -> "delete start"
    [] graph.comb \in {"ready", "just"} -> "started"
    [] OTHER -> "release"

\* Submit of Inline() runs the task at once.
RunsHere(t) == scheduler[t] \in {"none", "inline"}

\* MapContinuation::Resume and MapOkContinuation::Resume
Resume(t) ==
  /\ pc[t] = "resume"
  /\ held' = [held EXCEPT ![stage[t]] =
                 IF scheduler[t] = "none" /\ graph.chain[stage[t]] # "mapOk" THEN @ ELSE val[t]]
  /\ \/ RunsHere(t) /\ Goto(t, "call") /\ UNCHANGED task
     \/ ~RunsHere(t) /\ task' = task \union {stage[t]} /\ Goto(t, Back(t))
  /\ UNCHANGED <<contracts, dead, slot, outer, finished, ready, demand, locals>>

\* Run of either, in the pool.
Run(t) ==
  /\ t = "w" /\ pc[t] = "idle"
  /\ \E i \in task \ {0} :
       /\ task' = task \ {i}
       /\ val' = [val EXCEPT ![t] = held[i]]
       /\ stage' = [stage EXCEPT ![t] = i]
  /\ scheduler' = [scheduler EXCEPT ![t] = "pool"]
  /\ Goto(t, "call")
  /\ UNCHANGED <<contracts, dead, parts, demand, at>>

\* The function of the chain at i is called, and what it gives.
Apply(v, i, ok) == [v EXCEPT !.calls = Append(@, i), !.ok = ok]

MapOk(v, i) == IF v.ok THEN Apply(v, i, TRUE) ELSE v
AndThen(v, i) == IF v.ok THEN Apply(v, i, graph.userOk) ELSE v
OrElse(v, i) == IF v.ok THEN v ELSE Apply(v, i, graph.userOk)

Called(v, i) ==
  CASE graph.chain[i] = "map" -> Apply(v, i, v.ok)
    [] graph.chain[i] = "asTry" -> Apply(v, i, TRUE)
    [] graph.chain[i] = "mapOk" -> MapOk(v, i)
    [] graph.chain[i] = "andThen" -> AndThen(v, i)
    [] graph.chain[i] = "orElse" -> OrElse(v, i)

\* The next continuation, or the demand of Get or Detach.
HandOn(t) ==
  IF stage[t] = Len(graph.chain) THEN Goto(t, "finish") /\ UNCHANGED stage
  ELSE Goto(t, "resume") /\ stage' = [stage EXCEPT ![t] = @ + 1]

\* The rest of Resume and Run; AndThen and OrElse are Map | Flatten().
Call(t) ==
  /\ pc[t] = "call"
  /\ val' = [val EXCEPT ![t] = Called(@, stage[t])]
  /\ IF graph.chain[stage[t]] \in {"andThen", "orElse"} THEN Goto(t, "inner") /\ UNCHANGED stage
     ELSE HandOn(t)
  /\ UNCHANGED <<contracts, dead, parts, task, demand, at, scheduler>>

\* Flatten of FlatMap: the future that the function has returned is ready, so
\* that Start hands its value on, with the State of the outer one.
FlatMap(t) ==
  /\ pc[t] = "inner"
  /\ HandOn(t)
  /\ UNCHANGED <<contracts, dead, parts, task, demand, at, val, scheduler>>

-----------------------------------------------------------------------------
(* The consumer. *)

\* The demand of Get, and Fire of its event.
Deliver(t) ==
  /\ graph.end = "get" /\ pc[t] = "finish"
  /\ result' = val[t]
  /\ Goto(t, "fire")
  /\ UNCHANGED <<contracts, dead, parts, task, fired, locals>>

Fire(t) ==
  /\ pc[t] = "fire"
  /\ fired' = TRUE
  /\ Goto(t, Back(t))
  /\ UNCHANGED <<contracts, dead, parts, task, result, locals>>

\* DestructingDemand::Resume
Destroy(t) ==
  /\ graph.end = "detach" /\ pc[t] = "finish"
  /\ dead' = dead \union {"computation"}
  /\ Goto(t, Back(t))
  /\ UNCHANGED <<contracts, parts, task, demand, locals>>

\* Start has returned: Get waits, and its frame holds the computation.
Wait(t) ==
  /\ pc[t] = "started"
  /\ graph.end = "get" => fired
  /\ dead' = IF graph.end = "get" THEN dead \union {"computation"} ELSE dead
  /\ Goto(t, "done")
  /\ UNCHANGED <<contracts, parts, task, demand, locals>>

-----------------------------------------------------------------------------
(* The objects that a thread uses in its next step. *)

\* What holds the ContractComputations, and what holds the consumer.
Home == IF graph.comb \in {"first", "start"} THEN graph.comb ELSE "computation"
Holder == IF graph.comb = "first" THEN "first" ELSE "computation"

Uses(t) ==
  CASE pc[t] \in {"consume", "next", "callback", "check", "ready"} -> {Home}
    [] pc[t] \in {"box", "via", "resume", "call", "inner"} -> {Holder}
    [] pc[t] \in {"finish", "fire"} -> {Holder, "computation"}
    [] pc[t] \in {"await", "delete start"} -> {"start", "computation"}
    [] pc[t] = "box start" -> {"computation"}
    [] OTHER -> {}

\* A thread is about to use a deleted object; what follows is undefined.
Undefined ==
  \E t \in Threads :
    \/ Uses(t) \intersect dead # {}
    \/ pc[t] \in {"produce", "consume", "callback", "release"} /\ at[t] \in freed

Step(t) ==
  /\ ~Undefined /\ UNCHANGED graph
  /\ \/ Set(t) \/ Produce(t) \/ Consume(t) \/ NextStart(t) \/ Release(t)
     \/ ResumeNone(t) \/ ResumeBoth(t) \/ Check(t) \/ ResumeFirst(t) \/ ResumeFlatten(t)
     \/ ResumeStart(t) \/ Ready(t) \/ Await(t) \/ DeleteStart(t)
     \/ SubmitStart(t) \/ SubmitRun(t) \/ ReadyStart(t) \/ JustStart(t)
     \/ BoxStart(t) \/ BoxResume(t) \/ Via(t) \/ Resume(t) \/ Run(t) \/ Call(t) \/ FlatMap(t)
     \/ Deliver(t) \/ Fire(t) \/ Destroy(t) \/ Wait(t)

Next == \E t \in Threads : Step(t)

\* Promises are kept, threads run, and the pool runs what it is given.
Fairness == \A t \in Threads : WF_vars(Step(t))

Spec == Init /\ [][Next]_vars /\ Fairness

-----------------------------------------------------------------------------
(* Properties. *)

\* The same chain on std::expected, with the combinators of result/combine.
ResultMap(r, i) == [r EXCEPT !.calls = IF r.ok THEN Append(@, i) ELSE @]
ResultAndThen(r, i) == IF r.ok THEN [r EXCEPT !.calls = Append(@, i), !.ok = graph.userOk] ELSE r
ResultOrElse(r, i) == IF r.ok THEN r ELSE [r EXCEPT !.calls = Append(@, i), !.ok = graph.userOk]

Promised(r) ==
  LET after[i \in 0 .. Len(graph.chain)] ==
        IF i = 0 THEN r
        ELSE CASE graph.chain[i] = "mapOk" -> ResultMap(after[i - 1], i)
               [] graph.chain[i] = "andThen" -> ResultAndThen(after[i - 1], i)
               [] graph.chain[i] = "orElse" -> ResultOrElse(after[i - 1], i)
               [] OTHER -> [after[i - 1] EXCEPT !.calls = Append(@, i)]
  IN  after[Len(graph.chain)]

\* Whose values the future is made of.
Sources ==
  CASE graph.comb = "first" -> {{1}, {2}}
    [] graph.comb = "flatten" -> {{2}}
    [] graph.comb = "both" -> {{1, 2}}
    [] graph.comb = "just" -> {{}}
    [] OTHER -> {{1}}

Delivered ==
  /\ pc["c"] = "done" /\ "computation" \in dead /\ freed = Inputs
  /\ graph.comb \in {"first", "start"} => graph.comb \in dead
  /\ graph.end = "get" => \E promises \in Sources : result = Promised(Value(promises))

\* No ContractState and no part of a computation is used after it was deleted,
\* whichever of the promises and the consumer come first.  Two cases are left
\* out, in which the code does not ensure it: First, whose second input deletes
\* the computation from which the first may still be resuming the consumer, and
\* Start() before Detach(), where Start reads its own comp_ after the consumer,
\* which may have deleted it.
NoUseAfterDelete ==
  Undefined => graph.comb = "first" \/ (graph.comb = "start" /\ graph.end = "detach")

\* Functions that come after a Via of the pool, or after Submit, run in the
\* pool, also when Start() or Flatten() is in between: neither the thread that
\* sets a promise, which may be the one of an inner future, nor the one that
\* calls Get runs them.
RunsInPool ==
  \A t \in Threads :
    /\ pc[t] = "call"
    /\ graph.via = "pool" \/ (graph.via = "none" /\ (graph.comb = "submit" \/ graph.early))
    => t = "w"

\* The value of the promise, of both or of one of them arrives at the consumer,
\* or its error; of the chain, those functions have been called that would be
\* called for a Result, once and in their order; Get returns, and nothing is
\* left on the heap.
EveryFutureCompletes == <>(Delivered \/ Undefined)

=============================================================================
