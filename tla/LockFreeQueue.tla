--------------------------- MODULE LockFreeQueue ---------------------------
(***************************************************************************)
(* The Michael-Scott queue (lf/lock_free_queue.hpp).  Nodes are not given   *)
(* back to the heap before the queue is destroyed: LockFreePool, a stack,   *)
(* keeps them for later pushes.                                             *)
(* Every word (head_, tail_, top_ and next of a node) is a pointer with a   *)
(* 16-bit stamp, and a thread may hold a pointer to a node that has long    *)
(* been reused.  A node goes to the pool when it has left the list and its  *)
(* value has been moved out, in either order: try_del_count counts to two.  *)
(*                                                                          *)
(* Each step is one access to an atomic.                                    *)
(***************************************************************************)
EXTENDS Integers, Sequences, FiniteSets

CONSTANTS
  Threads,
  Nodes,      \* heap cells for nodes
  Null,       \* nullptr
  MaxOps      \* bound: operations of a thread

ASSUME QueueAssumption == Null \notin Nodes /\ Nodes # {} /\ MaxOps \in Nat

VARIABLES
  head, tail, top,   \* head_, tail_, top_ of pool_
  next,              \* next of a node
  value,             \* value of a node
  count,             \* try_del_count of a node, modulo 2
  used,              \* the nodes that were allocated
  pc,                \* where a thread is
  old,               \* old_tail, head_old, curr_top, old_top
  oldNext,           \* old_tail_next, head_next, next, old_next
  oldTail,           \* tail_old
  node,              \* new_node, of Push or of the pool
  ops,               \* operations of a thread so far
  queue,             \* history: the values in the queue
  expect,            \* history: what a TryPop has taken from the queue
  sawEmpty           \* history: the queue was empty since TryPop was called

vars == <<head, tail, top, next, value, count, used, pc, old, oldNext, oldTail, node, ops,
          queue, expect, sawEmpty>>
words == <<head, tail, top, next>>
nodes == <<value, count, used>>
history == <<queue, expect, sawEmpty>>

StampedPtrBare(p, s) == [ptr |-> p, stamp |-> 0]            \* mutant
StampedPtr(p, s) == [ptr |-> p, stamp |-> s % 65536]
Nil == StampedPtr(Null, 0)

\* CompareExchangeWeak when it succeeds; it may fail even if the word is the
\* expected one.
CompareExchangeWeak(word, expected, desired) == word = expected /\ word' = desired

\* The value that thread t pushes with its k-th operation.
Value(t, k) == <<t, k>>

Init ==
  \E dummy \in Nodes :
    /\ head = StampedPtr(dummy, 0) /\ tail = StampedPtr(dummy, 0) /\ top = Nil
    /\ next = [n \in Nodes |-> Nil]
    /\ value = [n \in Nodes |-> Null]
    /\ count = [n \in Nodes |-> IF n = dummy THEN 1 ELSE 0]
    /\ used = {dummy}
    /\ pc = [t \in Threads |-> "idle"]
    /\ old = [t \in Threads |-> Nil] /\ oldNext = [t \in Threads |-> Nil]
    /\ oldTail = [t \in Threads |-> Nil] /\ node = [t \in Threads |-> Null]
    /\ ops = [t \in Threads |-> 0]
    /\ queue = <<>> /\ expect = [t \in Threads |-> Null] /\ sawEmpty = [t \in Threads |-> FALSE]

Goto(t, label) == pc' = [pc EXCEPT ![t] = label]
Begin(t) ==
  /\ pc[t] = "idle" /\ ops[t] < MaxOps
  /\ \A u \in Threads : pc[u] \notin {"destroy", "destroy pool", "destroyed"}
  /\ ops' = [ops EXCEPT ![t] = @ + 1]

-----------------------------------------------------------------------------
(* Push, with the allocation of a node. *)

\* LockFreePool::TryPop: the load of top_; without a node, new Node.
Push(t) ==
  /\ Begin(t)
  /\ Goto(t, "new")
  /\ UNCHANGED <<words, nodes, old, oldNext, oldTail, node, history>>

NewNode(t) ==
  /\ pc[t] = "new"
  /\ \/ /\ top.ptr # Null
        /\ old' = [old EXCEPT ![t] = top]
        /\ Goto(t, "pool next")
        /\ UNCHANGED <<nodes, node>>
     \/ /\ top.ptr = Null
        /\ \E n \in Nodes \ used :
             /\ used' = used \union {n}
             /\ value' = [value EXCEPT ![n] = Value(t, ops[t])]
             /\ node' = [node EXCEPT ![t] = n]
        /\ Goto(t, "push")
        /\ UNCHANGED <<count, old>>
  /\ UNCHANGED <<words, oldNext, oldTail, ops, history>>

PoolNext(t) ==
  /\ pc[t] = "pool next"
  /\ oldNext' = [oldNext EXCEPT ![t] = next[old[t].ptr]]
  /\ Goto(t, "pool cas")
  /\ UNCHANGED <<words, nodes, old, oldTail, node, ops, history>>

\* The weak CAS of top_; the node gets its value.
PoolTake(t) ==
  /\ pc[t] = "pool cas"
  /\ \/ /\ CompareExchangeWeak(top, old[t], StampedPtr(oldNext[t].ptr, old[t].stamp + 1))
        /\ node' = [node EXCEPT ![t] = old[t].ptr]
        /\ value' = [value EXCEPT ![old[t].ptr] = Value(t, ops[t])]
        /\ Goto(t, "node next")
     \/ Goto(t, "new") /\ UNCHANGED <<top, node, value>>
  /\ UNCHANGED <<head, tail, next, count, used, old, oldNext, oldTail, ops, history>>

\* next of a node from the pool: load and store.
NodeNext(t) ==
  /\ pc[t] = "node next"
  /\ oldNext' = [oldNext EXCEPT ![t] = next[node[t]]]
  /\ Goto(t, "node reset")
  /\ UNCHANGED <<words, nodes, old, oldTail, node, ops, history>>

NodeReset(t) ==
  /\ pc[t] = "node reset"
  /\ next' = [next EXCEPT ![node[t]] = StampedPtr(Null, oldNext[t].stamp + 1)]
  /\ Goto(t, "push")
  /\ UNCHANGED <<head, tail, top, nodes, old, oldNext, oldTail, node, ops, history>>

PushTail(t) ==
  /\ pc[t] = "push"
  /\ old' = [old EXCEPT ![t] = tail]
  /\ Goto(t, "push next")
  /\ UNCHANGED <<words, nodes, oldNext, oldTail, node, ops, history>>

PushNext(t) ==
  /\ pc[t] = "push next"
  /\ oldNext' = [oldNext EXCEPT ![t] = next[old[t].ptr]]
  /\ Goto(t, "push check")
  /\ UNCHANGED <<words, nodes, old, oldTail, node, ops, history>>

\* The consistency check.
PushCheck(t) ==
  /\ pc[t] = "push check"
  /\ Goto(t, IF tail # old[t] THEN "push" ELSE IF oldNext[t].ptr = Null THEN "link" ELSE "help")
  /\ UNCHANGED <<words, nodes, old, oldNext, oldTail, node, ops, history>>

\* The weak CAS of old_tail->next, by which the value is in the queue.
Link(t) ==
  /\ pc[t] = "link"
  /\ \/ /\ next[old[t].ptr] = oldNext[t]
        /\ next' = [next EXCEPT ![old[t].ptr] = StampedPtr(node[t], oldNext[t].stamp + 1)]
        /\ queue' = Append(queue, value[node[t]])
        /\ Goto(t, "swing")
     \/ Goto(t, "push") /\ UNCHANGED <<next, queue>>
  /\ UNCHANGED <<head, tail, top, nodes, old, oldNext, oldTail, node, ops, expect, sawEmpty>>

\* The weak CAS of tail_, from old to pointer p: once or not at all.
SwingTail(expected, p) ==
  \/ CompareExchangeWeak(tail, expected, StampedPtr(p, expected.stamp + 1))
  \/ UNCHANGED tail

Help(t) ==
  /\ pc[t] = "help"
  /\ SwingTail(old[t], oldNext[t].ptr)
  /\ Goto(t, "push")
  /\ UNCHANGED <<head, top, next, nodes, old, oldNext, oldTail, node, ops, history>>

PushSwing(t) ==
  /\ pc[t] = "swing"
  /\ SwingTail(old[t], node[t])
  /\ Goto(t, "done")
  /\ UNCHANGED <<head, top, next, nodes, old, oldNext, oldTail, node, ops, history>>

-----------------------------------------------------------------------------
(* TryPop. *)

TryPop(t) ==
  /\ Begin(t)
  /\ sawEmpty' = [sawEmpty EXCEPT ![t] = queue = <<>>]
  /\ Goto(t, "pop")
  /\ UNCHANGED <<words, nodes, old, oldNext, oldTail, node, queue, expect>>

PopHead(t) ==
  /\ pc[t] = "pop"
  /\ old' = [old EXCEPT ![t] = head]
  /\ Goto(t, "pop next")
  /\ UNCHANGED <<words, nodes, oldNext, oldTail, node, ops, history>>

PopNext(t) ==
  /\ pc[t] = "pop next"
  /\ oldNext' = [oldNext EXCEPT ![t] = next[old[t].ptr]]
  /\ Goto(t, "pop tail")
  /\ UNCHANGED <<words, nodes, old, oldTail, node, ops, history>>

PopTail(t) ==
  /\ pc[t] = "pop tail"
  /\ oldTail' = [oldTail EXCEPT ![t] = tail]
  /\ Goto(t, "pop check")
  /\ UNCHANGED <<words, nodes, old, oldNext, node, ops, history>>

\* The consistency check, and what is to be done.
PopCheck(t) ==
  /\ pc[t] = "pop check"
  /\ Goto(t, IF head # old[t] THEN "pop"
             ELSE IF oldNext[t].ptr = Null
             THEN IF old[t].ptr = oldTail[t].ptr THEN "empty" ELSE "pop"
             ELSE IF old[t].ptr # oldTail[t].ptr THEN "unlink" ELSE "pop help")
  /\ UNCHANGED <<words, nodes, old, oldNext, oldTail, node, ops, history>>

PopHelp(t) ==
  /\ pc[t] = "pop help"
  /\ SwingTail(oldTail[t], oldNext[t].ptr)
  /\ Goto(t, "pop")
  /\ UNCHANGED <<head, top, next, nodes, old, oldNext, oldTail, node, ops, history>>

\* The weak CAS of head_, by which the first value is the caller's.
Unlink(t) ==
  /\ pc[t] = "unlink"
  /\ \/ /\ CompareExchangeWeak(head, old[t], StampedPtr(oldNext[t].ptr, old[t].stamp + 1))
        /\ expect' = [expect EXCEPT ![t] = Head(queue)]
        /\ queue' = Tail(queue)
        /\ sawEmpty' = [u \in Threads |-> sawEmpty[u] \/ Len(queue) = 1]
        /\ Goto(t, "unlinked")
     \/ Goto(t, "pop") /\ UNCHANGED <<head, history>>
  /\ UNCHANGED <<tail, top, next, nodes, old, oldNext, oldTail, node, ops>>

\* try_del_count of node n; who is second puts the node into the pool.
TryDelete(t, n, then, recycle) ==
  /\ count' = [count EXCEPT ![n] = (@ + 1) % 2]
  /\ IF count[n] = 1
     THEN Goto(t, recycle) /\ node' = [node EXCEPT ![t] = n]
     ELSE Goto(t, then) /\ UNCHANGED node
  /\ UNCHANGED <<words, value, used, old, oldNext, oldTail, ops, history>>

Unlinked(t) == pc[t] = "unlinked" /\ TryDelete(t, old[t].ptr, "read", "recycle head")

\* The value is moved out of the new dummy, then its try_del_count.
ReadTwice(t) ==                                             \* mutant
  /\ pc[t] = "read"
  /\ Goto(t, "recycle next") /\ node' = [node EXCEPT ![t] = oldNext[t].ptr]
  /\ UNCHANGED <<words, nodes, old, oldNext, oldTail, ops, history>>
Read(t) == pc[t] = "read" /\ TryDelete(t, oldNext[t].ptr, "done", "recycle next")

\* LockFreePool::Push: the loads of top_ and of next, the store and the CAS.
Recycle(t) ==
  /\ \/ pc[t] = "recycle head" /\ Goto(t, "load head")
     \/ pc[t] = "recycle next" /\ Goto(t, "load next")
  /\ oldTail' = [oldTail EXCEPT ![t] = top]
  /\ UNCHANGED <<words, nodes, old, oldNext, node, ops, history>>

RecycleNext(t) ==
  /\ \/ pc[t] = "load head" /\ Goto(t, "store head")
     \/ pc[t] = "load next" /\ Goto(t, "store next")
  /\ old' = [old EXCEPT ![t] = next[node[t]]]
  /\ UNCHANGED <<words, nodes, oldNext, oldTail, node, ops, history>>

RecycleStore(t) ==
  /\ \/ pc[t] = "store head" /\ Goto(t, "give head")
     \/ pc[t] = "store next" /\ Goto(t, "give next")
  /\ next' = [next EXCEPT ![node[t]] = StampedPtr(oldTail[t].ptr, old[t].stamp + 1)]
  /\ UNCHANGED <<head, tail, top, nodes, old, oldNext, oldTail, node, ops, history>>

RecycleCas(t) ==
  /\ pc[t] \in {"give head", "give next"}
  /\ \/ /\ CompareExchangeWeak(top, oldTail[t], StampedPtr(node[t], oldTail[t].stamp + 1))
        /\ Goto(t, IF pc[t] = "give head" THEN "read" ELSE "done")
        /\ UNCHANGED oldTail
     \/ /\ oldTail' = [oldTail EXCEPT ![t] = top]
        /\ Goto(t, IF pc[t] = "give head" THEN "store head" ELSE "store next")
        /\ UNCHANGED top
  /\ UNCHANGED <<head, tail, next, nodes, old, oldNext, node, ops, history>>

\* Push or TryPop returns.
Return(t) ==
  /\ pc[t] \in {"done", "empty"}
  /\ Goto(t, "idle")
  /\ old' = [old EXCEPT ![t] = Nil] /\ oldNext' = [oldNext EXCEPT ![t] = Nil]
  /\ oldTail' = [oldTail EXCEPT ![t] = Nil] /\ node' = [node EXCEPT ![t] = Null]
  /\ expect' = [expect EXCEPT ![t] = Null] /\ sawEmpty' = [sawEmpty EXCEPT ![t] = FALSE]
  /\ UNCHANGED <<words, nodes, ops, queue>>

\* ~LockFreeQueue, when all others are done with the queue, and after it
\* ~LockFreePool: each walks its list.
Destroy(t) ==
  /\ \A u \in Threads : pc[u] = "idle" /\ ops[u] = MaxOps
  /\ old' = [old EXCEPT ![t] = head]
  /\ Goto(t, "destroy")
  /\ UNCHANGED <<words, nodes, oldNext, oldTail, node, ops, history>>

DestroyNode(t) ==
  /\ pc[t] \in {"destroy", "destroy pool"} /\ old[t].ptr # Null
  /\ used' = used \ {old[t].ptr}
  /\ old' = [old EXCEPT ![t] = next[old[t].ptr]]
  /\ UNCHANGED <<words, value, count, pc, oldNext, oldTail, node, ops, history>>

DestroyEnd(t) ==
  /\ old[t].ptr = Null
  /\ \/ pc[t] = "destroy" /\ old' = [old EXCEPT ![t] = top] /\ Goto(t, "destroy pool")
     \/ pc[t] = "destroy pool" /\ Goto(t, "destroyed") /\ UNCHANGED old
  /\ UNCHANGED <<words, nodes, oldNext, oldTail, node, ops, history>>

Finished ==
  /\ \/ \E t \in Threads : pc[t] = "destroyed"
     \/ \A t \in Threads : (pc[t] = "idle" /\ ops[t] = MaxOps) \/ (pc[t] = "new" /\ used = Nodes)
  /\ UNCHANGED vars

PushStep(t) ==
  \/ NewNode(t) \/ PoolNext(t) \/ PoolTake(t) \/ NodeNext(t) \/ NodeReset(t)
  \/ PushTail(t) \/ PushNext(t) \/ PushCheck(t) \/ Link(t) \/ Help(t) \/ PushSwing(t)
PopStep(t) ==
  \/ PopHead(t) \/ PopNext(t) \/ PopTail(t) \/ PopCheck(t) \/ PopHelp(t) \/ Unlink(t)
  \/ Unlinked(t) \/ Read(t) \/ Recycle(t) \/ RecycleNext(t) \/ RecycleStore(t) \/ RecycleCas(t)

Next ==
  \/ \E t \in Threads : Push(t) \/ PushStep(t) \/ TryPop(t) \/ PopStep(t) \/ Return(t)
  \/ \E t \in Threads : Destroy(t) \/ DestroyNode(t) \/ DestroyEnd(t)
  \/ Finished

Spec == Init /\ [][Next]_vars

-----------------------------------------------------------------------------
(* Properties. *)

\* The nodes that follow pointer p, at most n of them.
Chain[n \in Nat, p \in Nodes \union {Null}] ==
  IF n = 0 \/ p = Null THEN <<>> ELSE <<p>> \o Chain[n - 1, next[p].ptr]
NodesFrom(p) == Chain[Cardinality(Nodes) + 1, p]
Elements(s) == {s[i] : i \in 1 .. Len(s)}

\* The list from head_ is the queue: values leave in the order in which they
\* were linked, each by one TryPop, which finds its value untouched in a node
\* that is not its own any more; and TryPop reports an empty queue only if it
\* was empty at some time during the call.
IsLinearizable ==
  LET list == NodesFrom(head.ptr)
  IN  /\ queue = [i \in 1 .. Len(list) - 1 |-> value[list[i + 1]]]
      /\ \A t \in Threads :
           /\ pc[t] = "read" => value[oldNext[t].ptr] = expect[t]
           /\ pc[t] = "empty" => sawEmpty[t]

\* The nodes that belong to thread t alone: not yet linked, or on their way to
\* the pool.
Owned(t) ==
  IF pc[t] \in {"node next", "node reset", "push", "push next", "push check", "link", "help",
                "recycle head", "recycle next", "load head", "load next", "store head",
                "store next", "give head", "give next"}
  THEN {node[t]} ELSE {}

\* The nodes that thread t has still to count before they may be reused.
Awaited(t) ==
  (IF pc[t] = "unlinked" THEN {old[t].ptr} ELSE {})
    \union (IF pc[t] \in {"unlinked", "recycle head", "load head", "store head", "give head", "read"}
            THEN {oldNext[t].ptr} ELSE {})

\* Where a list begins, or what a destructor has left of it: the threads in
\* `here` are deleting it, those in `after` have deleted it.
Rest(word, here, after) ==
  NodesFrom(IF \E t \in Threads : pc[t] \in after THEN Null
            ELSE IF \E t \in Threads : pc[t] = here
            THEN old[CHOOSE t \in Threads : pc[t] = here].ptr ELSE word.ptr)

\* A node is in the list, in the pool or with one thread, never in two of
\* these places; one whose value is still to be moved out is not reused, and
\* none is lost: the destructors delete every node, and each once.
NodeInOnePlace ==
  LET list == Rest(head, "destroy", {"destroy pool", "destroyed"})
      pool == Rest(top, "destroy pool", {"destroyed"})
  IN  /\ Len(list) <= Cardinality(Nodes) /\ Len(pool) <= Cardinality(Nodes)
      /\ Elements(list) \intersect Elements(pool) = {}
      /\ \A t \in Threads :
           /\ Owned(t) \intersect (Elements(list) \union Elements(pool)) = {}
           /\ Awaited(t) \intersect Elements(pool) = {}
           /\ \A u \in Threads \ {t} : Owned(t) \intersect (Owned(u) \union Awaited(u)) = {}
      /\ used = Elements(list) \union Elements(pool)
                  \union UNION {Owned(t) \union Awaited(t) : t \in Threads}

=============================================================================
