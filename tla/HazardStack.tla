---------------------------- MODULE HazardStack ----------------------------
(***************************************************************************)
(* The Treiber stack (lf/lock_free_stack.hpp) with its memory reclamation   *)
(* by hazard pointers (lf/memory/hazard).                                   *)
(*                                                                          *)
(* Nodes are cells of a finite heap: New takes any free cell, so a node may *)
(* come back at the address of one that was freed.  TryPop publishes the    *)
(* node in slot 0 of its thread (Protect), dereferences it, unlinks it,     *)
(* retires it and drops the slot.  A thread that has retired more than      *)
(* ScanFreq nodes reads the slots of all threads one by one and frees its   *)
(* retired nodes that it did not find there.  In the end one thread, when   *)
(* no other uses the stack any more, destroys it: that deletes the nodes    *)
(* still linked and, without a scan, those this thread has retired.         *)
(***************************************************************************)
EXTENDS Integers, Sequences, FiniteSets

CONSTANTS
  Threads,
  Nodes,      \* heap cells for nodes
  Null,       \* nullptr
  ScanFreq,   \* scan_freq_
  MaxOps      \* bound: operations of a thread

ASSUME StackAssumption ==
  IsFiniteSet(Threads) /\ Null \notin Nodes /\ ScanFreq \in Nat /\ MaxOps \in Nat

VARIABLES
  top,        \* top_
  next,       \* next of a node
  alive,      \* the cells that are allocated
  slot,       \* slots[0] of a thread
  retired,    \* retired of a thread
  pc, node, succ,   \* where a thread is, and its new_node or curr_top and next
  scanned, hazards, \* Scan: the threads already looked at, and what was found
  ops,        \* operations of a thread so far
  stack       \* history: the nodes in the stack, from the top

vars == <<top, next, alive, slot, retired, pc, node, succ, scanned, hazards, ops, stack>>
shared == <<top, next, alive, stack>>
reclaim == <<retired, scanned, hazards>>

Init ==
  /\ top = Null /\ stack = <<>>
  /\ next = [n \in Nodes |-> Null] /\ alive = {}
  /\ slot = [p \in Threads |-> Null] /\ retired = [p \in Threads |-> {}]
  /\ pc = [p \in Threads |-> "idle"]
  /\ node = [p \in Threads |-> Null] /\ succ = [p \in Threads |-> Null]
  /\ scanned = [p \in Threads |-> {}] /\ hazards = [p \in Threads |-> {}]
  /\ ops = [p \in Threads |-> 0]

Goto(p, label) == pc' = [pc EXCEPT ![p] = label]

Destroyed == \E p \in Threads : pc[p] \in {"destroy", "destroyed"}

\* Push: New and the load of top_ into next.
Push(p) ==
  /\ pc[p] = "idle" /\ ops[p] < MaxOps /\ ~Destroyed
  /\ \E n \in Nodes \ alive :
       /\ alive' = alive \union {n}
       /\ next' = [next EXCEPT ![n] = top]
       /\ node' = [node EXCEPT ![p] = n]
  /\ Goto(p, "push")
  /\ ops' = [ops EXCEPT ![p] = @ + 1]
  /\ UNCHANGED <<top, slot, succ, reclaim, stack>>

\* Push: compare_exchange_weak, which may fail for no reason; a failure loads
\* top_ into next.
PushCasStore(p) ==                                          \* mutant
  /\ pc[p] = "push"
  /\ top' = node[p] /\ stack' = <<node[p]>> \o stack /\ Goto(p, "idle")
  /\ UNCHANGED <<next, alive, slot, node, succ, reclaim, ops>>
PushCas(p) ==
  /\ pc[p] = "push"
  /\ \/ /\ next[node[p]] = top
        /\ top' = node[p]
        /\ stack' = <<node[p]>> \o stack
        /\ Goto(p, "idle")
        /\ UNCHANGED next
     \/ /\ next' = [next EXCEPT ![node[p]] = top]
        /\ UNCHANGED <<top, stack, pc>>
  /\ UNCHANGED <<alive, slot, node, succ, reclaim, ops>>

\* TryPop, and Protect: the first load.
TryPop(p) ==
  /\ pc[p] = "idle" /\ ops[p] < MaxOps /\ ~Destroyed
  /\ node' = [node EXCEPT ![p] = top]
  /\ Goto(p, "protect")
  /\ ops' = [ops EXCEPT ![p] = @ + 1]
  /\ UNCHANGED <<shared, slot, succ, reclaim>>

\* Protect: Set.
ProtectSet(p) ==
  /\ pc[p] = "protect"
  /\ slot' = [slot EXCEPT ![p] = node[p]]
  /\ Goto(p, "validate")
  /\ UNCHANGED <<shared, node, succ, reclaim, ops>>

\* Protect: the second load; nullptr ends TryPop.
ProtectNoValidate(p) ==                                     \* mutant
  /\ pc[p] = "validate"
  /\ Goto(p, IF node[p] = Null THEN "reset" ELSE "read")
  /\ UNCHANGED <<shared, slot, node, succ, reclaim, ops>>
ProtectValidate(p) ==
  /\ pc[p] = "validate"
  /\ node' = [node EXCEPT ![p] = top]
  /\ Goto(p, IF top # node[p] THEN "protect" ELSE IF top = Null THEN "reset" ELSE "read")
  /\ UNCHANGED <<shared, slot, succ, reclaim, ops>>

\* curr_top->next.
ReadNext(p) ==
  /\ pc[p] = "read"
  /\ succ' = [succ EXCEPT ![p] = next[node[p]]]
  /\ Goto(p, "cas")
  /\ UNCHANGED <<shared, slot, node, reclaim, ops>>

\* compare_exchange_weak on top_; after a failure TryPop starts over with the
\* first load of Protect.
PopCas(p) ==
  /\ pc[p] = "cas"
  /\ \/ /\ top = node[p]
        /\ top' = succ[p]
        /\ stack' = Tail(stack)
        /\ Goto(p, "take")
        /\ UNCHANGED node
     \/ /\ node' = [node EXCEPT ![p] = top]
        /\ Goto(p, "protect")
        /\ UNCHANGED <<top, stack>>
  /\ UNCHANGED <<next, alive, slot, succ, reclaim, ops>>

\* The value is moved out, and Retire; with too many nodes Scan begins.
RetireNoScan(p) ==                                          \* mutant
  /\ pc[p] = "take"
  /\ retired' = [retired EXCEPT ![p] = @ \union {node[p]}]
  /\ Goto(p, "reset")
  /\ UNCHANGED <<shared, slot, node, succ, scanned, hazards, ops>>
Retire(p) ==
  /\ pc[p] = "take"
  /\ retired' = [retired EXCEPT ![p] = @ \union {node[p]}]
  /\ Goto(p, IF Cardinality(retired[p] \union {node[p]}) > ScanFreq THEN "scan" ELSE "reset")
  /\ scanned' = [scanned EXCEPT ![p] = {}]
  /\ hazards' = [hazards EXCEPT ![p] = {}]
  /\ UNCHANGED <<shared, slot, node, succ, ops>>

\* Scan: slots[j].Get() of one thread.
ScanSlot(p) ==
  /\ pc[p] = "scan"
  /\ \E q \in Threads \ scanned[p] :
       /\ scanned' = [scanned EXCEPT ![p] = @ \union {q}]
       /\ hazards' = [hazards EXCEPT ![p] = @ \union ({slot[q]} \ {Null})]
  /\ UNCHANGED <<shared, slot, retired, pc, node, succ, ops>>

\* Scan: what no slot held is deleted.
ScanFree(p) ==
  /\ pc[p] = "scan" /\ scanned[p] = Threads
  /\ alive' = alive \ (retired[p] \ hazards[p])
  /\ retired' = [retired EXCEPT ![p] = @ \intersect hazards[p]]
  /\ Goto(p, "reset")
  /\ UNCHANGED <<top, next, slot, node, succ, scanned, hazards, ops, stack>>

\* Reset, or ~PtrGuard.
Reset(p) ==
  /\ pc[p] = "reset"
  /\ slot' = [slot EXCEPT ![p] = Null]
  /\ Goto(p, "idle")
  /\ UNCHANGED <<shared, node, succ, reclaim, ops>>

\* ~LockFreeStack, which is called when all others are done: the load of top_.
Destroy(p) ==
  /\ \A q \in Threads : pc[q] = "idle"
  /\ node' = [node EXCEPT ![p] = top]
  /\ Goto(p, "destroy")
  /\ UNCHANGED <<shared, slot, succ, reclaim, ops>>

\* Its loop deletes a node.
DestroyNode(p) ==
  /\ pc[p] = "destroy" /\ node[p] # Null
  /\ alive' = alive \ {node[p]}
  /\ node' = [node EXCEPT ![p] = next[node[p]]]
  /\ stack' = Tail(stack)
  /\ UNCHANGED <<top, next, slot, pc, succ, reclaim, ops>>

\* CleanUp.
CleanUp(p) ==
  /\ pc[p] = "destroy" /\ node[p] = Null
  /\ alive' = alive \ retired[p]
  /\ retired' = [retired EXCEPT ![p] = {}]
  /\ Goto(p, "destroyed")
  /\ UNCHANGED <<top, next, slot, node, succ, scanned, hazards, ops, stack>>

Pop(p) ==
  \/ TryPop(p) \/ ProtectSet(p) \/ ProtectValidate(p) \/ ReadNext(p) \/ PopCas(p)
  \/ Retire(p) \/ ScanSlot(p) \/ ScanFree(p) \/ Reset(p)

Finished == (\E p \in Threads : pc[p] = "destroyed") /\ UNCHANGED vars

Next ==
  \/ \E p \in Threads :
       Push(p) \/ PushCas(p) \/ Pop(p) \/ Destroy(p) \/ DestroyNode(p) \/ CleanUp(p)
  \/ Finished

Spec == Init /\ [][Next]_vars

-----------------------------------------------------------------------------
(* Properties. *)

\* Types.
TypeOK ==
  /\ top \in Nodes \union {Null}
  /\ next \in [Nodes -> Nodes \union {Null}]
  /\ alive \subseteq Nodes
  /\ slot \in [Threads -> Nodes \union {Null}]
  /\ retired \in [Threads -> SUBSET Nodes]
  /\ pc \in [Threads -> {"idle", "push", "protect", "validate", "read", "cas", "take",
                         "scan", "reset", "destroy", "destroyed"}]
  /\ node \in [Threads -> Nodes \union {Null}] /\ succ \in [Threads -> Nodes \union {Null}]
  /\ scanned \in [Threads -> SUBSET Threads] /\ hazards \in [Threads -> SUBSET Nodes]
  /\ ops \in [Threads -> Nat]
  /\ stack \in Seq(Nodes)

\* A thread that holds node n: in Push, after it has popped it, or retired.
Holds(p, n) == n \in retired[p] \/ (pc[p] \in {"push", "take"} /\ node[p] = n)

\* No thread dereferences a node that was freed: not when it reads next, nor
\* when it takes the value, nor while it links its own node, nor in the
\* destructor; a node is freed once: it is in the stack, or in the hands of one
\* thread, or retired by one thread; and none is lost.
MemorySafe ==
  /\ TypeOK
  /\ \A p \in Threads : pc[p] \in {"push", "read", "take"} => node[p] \in alive
  /\ \A p, q \in Threads, n \in Nodes : Holds(p, n) /\ Holds(q, n) => p = q
  /\ \A p \in Threads : pc[p] \in {"push", "take"} => node[p] \notin retired[p]
  /\ \A p \in Threads : pc[p] = "destroy" /\ node[p] # Null => node[p] \in alive
  /\ \A p \in Threads, i \in 1 .. Len(stack) : ~Holds(p, stack[i])
  /\ \A n \in alive : (\E p \in Threads : Holds(p, n)) \/ \E i \in 1 .. Len(stack) : stack[i] = n

\* The list from top_ is the stack: each pop that succeeds takes the node that
\* was pushed last, although top_ may have changed and changed back since it
\* was read.
ListIsStack ==
  /\ Destroyed \/ top = IF stack = <<>> THEN Null ELSE stack[1]
  /\ \A i \in 1 .. Len(stack) :
       /\ stack[i] \in alive
       /\ next[stack[i]] = IF i = Len(stack) THEN Null ELSE stack[i + 1]

\* Garbage is bounded: a thread keeps at most ScanFreq nodes and those that
\* the slots held when it scanned last.
GarbageBounded ==
  \A p \in Threads :
    pc[p] \in {"idle", "reset"} =>
      \/ Cardinality(retired[p]) <= ScanFreq
      \/ Cardinality(retired[p]) <= Cardinality(Threads)

=============================================================================
