------------------------- MODULE HazardStackProofs -------------------------
(***************************************************************************)
(* Proofs about HazardStack, for every number of threads, nodes, operations *)
(* and every ScanFreq: the stack is memory safe, it is a stack, and the     *)
(* garbage is bounded.                                                      *)
(*                                                                          *)
(* What makes it inductive is Protected.  A node that a thread has          *)
(* published and validated was in the stack at that moment, so nobody had   *)
(* retired it yet; whoever retires it starts a scan only then, and a scan   *)
(* that has already passed the slot of the thread has seen the node there.  *)
(***************************************************************************)
EXTENDS HazardStack, FiniteSetTheorems, TLAPS

\* No node is in the stack twice.
Distinct == \A i, j \in 1 .. Len(stack) : stack[i] = stack[j] => i = j

\* Who owns a node: at most one thread, or the stack, and somebody does.
Ownership ==
  /\ \A p \in Threads : pc[p] \in {"push", "take"} => node[p] \in alive
  /\ \A p \in Threads : retired[p] \subseteq alive
  /\ \A p, q \in Threads, n \in Nodes : Holds(p, n) /\ Holds(q, n) => p = q
  /\ \A p \in Threads : pc[p] \in {"push", "take"} => node[p] \notin retired[p]
  /\ \A p \in Threads, i \in 1 .. Len(stack) : ~Holds(p, stack[i])
  /\ \A n \in alive : (\E p \in Threads : Holds(p, n)) \/ \E i \in 1 .. Len(stack) : stack[i] = n

\* A scan that frees node n has not missed it in the slot of p.
NotMissed(p, n) ==
  \A q \in Threads :
    pc[q] = "scan" /\ n \in retired[q] /\ p \in scanned[q] => n \in hazards[q]

\* The node that thread p dereferences between Protect and the CAS.
Protected ==
  \A p \in Threads :
    /\ pc[p] = "validate" => slot[p] = node[p]
    /\ pc[p] \in {"read", "cas"} =>
         /\ slot[p] = node[p] /\ node[p] \in alive
         /\ NotMissed(p, node[p])
         /\ \A q \in Threads : pc[q] = "push" => node[q] # node[p]
    /\ pc[p] = "cas" => succ[p] = next[node[p]]

\* The destructor is alone, and is at the first node that is left.
Alone ==
  \A p \in Threads :
    /\ pc[p] \in {"destroy", "destroyed"} => \A q \in Threads \ {p} : pc[q] = "idle"
    /\ pc[p] = "destroy" => node[p] = IF stack = <<>> THEN Null ELSE stack[1]

\* The inductive invariant.
IndInv == TypeOK /\ Distinct /\ ListIsStack /\ Ownership /\ Protected /\ Alone

-----------------------------------------------------------------------------
(* Sequences. *)

\* A node pushed in front.
LEMMA InFront ==
  ASSUME NEW s \in Seq(Nodes), NEW n \in Nodes
  PROVE  /\ <<n>> \o s \in Seq(Nodes) /\ <<n>> \o s # <<>>
         /\ Len(<<n>> \o s) = Len(s) + 1
         /\ (<<n>> \o s)[1] = n
         /\ \A i \in 2 .. Len(s) + 1 : (<<n>> \o s)[i] = s[i - 1]
OBVIOUS

\* The stack without its first node.
LEMMA WithoutFirst ==
  ASSUME NEW s \in Seq(Nodes), s # <<>>
  PROVE  /\ Tail(s) \in Seq(Nodes) /\ Len(s) \in Nat \ {0}
         /\ Len(Tail(s)) = Len(s) - 1
         /\ \A i \in 1 .. Len(s) - 1 : Tail(s)[i] = s[i + 1]
         /\ (Tail(s) = <<>>) <=> (Len(s) = 1)
<1>1. Tail(s) \in Seq(Nodes) /\ Len(s) \in Nat \ {0} /\ Len(Tail(s)) = Len(s) - 1
  OBVIOUS
<1>2. \A i \in 1 .. Len(s) - 1 : Tail(s)[i] = s[i + 1]
  OBVIOUS
<1>3. (Tail(s) = <<>>) <=> (Len(s) = 1)
  BY <1>1
<1> QED BY <1>1, <1>2, <1>3

-----------------------------------------------------------------------------
(* Garbage; this needs no more than the types. *)

\* A scan has found at most one hazard in each slot that it has read, and who
\* does not scan keeps no more nodes than the property says.
GarbageInv ==
  \A p \in Threads :
    /\ IsFiniteSet(retired[p]) /\ IsFiniteSet(hazards[p])
    /\ Cardinality(hazards[p]) <= Cardinality(scanned[p])
    /\ pc[p] # "scan" => \/ Cardinality(retired[p]) <= ScanFreq
                          \/ Cardinality(retired[p]) <= Cardinality(Threads)

\* Reading one more slot finds at most one more hazard.
LEMMA OneMoreSlot ==
  ASSUME NEW S, IsFiniteSet(S), NEW H, IsFiniteSet(H), Cardinality(H) <= Cardinality(S),
         NEW q, q \notin S, NEW n
  PROVE  /\ IsFiniteSet(H \union ({n} \ {Null}))
         /\ Cardinality(H \union ({n} \ {Null})) <= Cardinality(S \union {q})
<1> DEFINE G == H \union ({n} \ {Null})
<1>1. Cardinality(S) \in Nat /\ Cardinality(H) \in Nat
  BY FS_CardinalityType
<1>2. Cardinality(S \union {q}) = Cardinality(S) + 1
  BY FS_AddElement
<1>3. G = H \/ G = H \union {n}
  OBVIOUS
<1>4. IsFiniteSet(H \union {n}) /\ Cardinality(H \union {n}) = IF n \in H THEN Cardinality(H) ELSE Cardinality(H) + 1
  BY FS_AddElement
<1> HIDE DEF G
<1>5. IsFiniteSet(G) /\ Cardinality(G) <= Cardinality(H) + 1
  <2>1. CASE G = H
    BY <1>1, <2>1
  <2>2. CASE G = H \union {n}
    BY <1>1, <1>4, <2>2
  <2> QED BY <1>3, <2>1, <2>2
<1>6. Cardinality(G) \in Nat
  BY <1>5, FS_CardinalityType
<1> QED BY <1>1, <1>2, <1>5, <1>6 DEF G

\* Every step keeps the garbage within the bound.
LEMMA GarbageInductive == TypeOK /\ GarbageInv /\ [Next]_vars => GarbageInv'
<1> SUFFICES ASSUME TypeOK, GarbageInv, [Next]_vars
             PROVE  GarbageInv'
  OBVIOUS
<1> DEFINE Keeps(q) == UNCHANGED <<retired[q], hazards[q], scanned[q]>> /\ (pc'[q] # "scan" => pc[q] # "scan")
<1>1. ASSUME \A q \in Threads : Keeps(q)
      PROVE  GarbageInv'
  BY <1>1 DEF GarbageInv
<1>2. ASSUME NEW p \in Threads,
             Push(p) \/ PushCas(p) \/ TryPop(p) \/ ProtectSet(p) \/ ProtectValidate(p) \/ ReadNext(p)
      PROVE  \A q \in Threads : Keeps(q)
  BY <1>2 DEF TypeOK, Push, PushCas, TryPop, ProtectSet, ProtectValidate, ReadNext, Goto, reclaim
<1>3. ASSUME NEW p \in Threads, PopCas(p) \/ Reset(p) \/ Destroy(p) \/ DestroyNode(p)
      PROVE  \A q \in Threads : Keeps(q)
  BY <1>3 DEF TypeOK, PopCas, Reset, Destroy, DestroyNode, Goto, reclaim
<1>4. ASSUME NEW p \in Threads, Retire(p)
      PROVE  GarbageInv'
  <2>1. \A q \in Threads \ {p} : Keeps(q)
    BY <1>4 DEF TypeOK, Retire, Goto
  <2>2. IsFiniteSet(retired[p] \union {node[p]}) /\ retired'[p] = retired[p] \union {node[p]}
    BY Zenon, <1>4, FS_AddElement DEF GarbageInv, TypeOK, Retire
  <2>3. hazards'[p] = {} /\ scanned'[p] = {}
    BY <1>4 DEF TypeOK, Retire
  <2>4. pc'[p] # "scan" => ~(Cardinality(retired'[p]) > ScanFreq)
    BY <1>4, <2>2 DEF TypeOK, Retire, Goto
  <2>5. pc'[p] # "scan" => Cardinality(retired'[p]) <= ScanFreq
    BY <2>2, <2>4, FS_CardinalityType, StackAssumption
  <2>6. IsFiniteSet({}) /\ Cardinality({}) <= Cardinality({})
    BY FS_EmptySet
  <2>7. \A q \in Threads \ {p} :
          /\ IsFiniteSet(retired'[q]) /\ IsFiniteSet(hazards'[q])
          /\ Cardinality(hazards'[q]) <= Cardinality(scanned'[q])
          /\ pc'[q] # "scan" => \/ Cardinality(retired'[q]) <= ScanFreq
                                \/ Cardinality(retired'[q]) <= Cardinality(Threads)
    BY <2>1 DEF GarbageInv
  <2> QED BY Zenon, <2>2, <2>3, <2>5, <2>6, <2>7 DEF GarbageInv
<1>5. ASSUME NEW p \in Threads, ScanSlot(p)
      PROVE  GarbageInv'
  <2>1. PICK q \in Threads \ scanned[p] :
          /\ scanned' = [scanned EXCEPT ![p] = @ \union {q}]
          /\ hazards' = [hazards EXCEPT ![p] = @ \union ({slot[q]} \ {Null})]
    BY Zenon, <1>5 DEF ScanSlot
  <2>2. IsFiniteSet(scanned[p])
    BY FS_Subset, StackAssumption DEF TypeOK
  <2>3. /\ IsFiniteSet(hazards[p] \union ({slot[q]} \ {Null}))
        /\ Cardinality(hazards[p] \union ({slot[q]} \ {Null})) <= Cardinality(scanned[p] \union {q})
    BY Zenon, <2>2, OneMoreSlot DEF GarbageInv
  <2>4. UNCHANGED <<retired, pc>>
    BY <1>5 DEF ScanSlot
  <2> QED BY <2>1, <2>3, <2>4 DEF GarbageInv, TypeOK
<1>6. ASSUME NEW p \in Threads, ScanFree(p)
      PROVE  GarbageInv'
  <2>1. \A q \in Threads \ {p} : Keeps(q)
    BY <1>6 DEF TypeOK, ScanFree, Goto
  <2>2. retired'[p] = retired[p] \intersect hazards[p] /\ scanned[p] = Threads
        /\ UNCHANGED <<hazards, scanned>>
    BY <1>6 DEF TypeOK, ScanFree
  <2>3. /\ IsFiniteSet(retired[p] \intersect hazards[p])
        /\ Cardinality(retired[p] \intersect hazards[p]) <= Cardinality(hazards[p])
    BY FS_Subset DEF GarbageInv
  <2>4. Cardinality(retired[p] \intersect hazards[p]) \in Nat /\ Cardinality(hazards[p]) \in Nat
        /\ Cardinality(Threads) \in Nat
    BY <2>3, FS_CardinalityType, StackAssumption DEF GarbageInv
  <2>5. Cardinality(retired'[p]) <= Cardinality(Threads)
    BY <2>2, <2>3, <2>4 DEF GarbageInv
  <2> QED BY Zenon, <2>1, <2>2, <2>3, <2>5 DEF GarbageInv
<1>7. ASSUME NEW p \in Threads, CleanUp(p)
      PROVE  GarbageInv'
  <2>1. \A q \in Threads \ {p} : Keeps(q)
    BY <1>7 DEF TypeOK, CleanUp, Goto
  <2>2. retired'[p] = {} /\ UNCHANGED <<hazards, scanned>>
    BY <1>7 DEF TypeOK, CleanUp
  <2>3. IsFiniteSet({}) /\ Cardinality({}) <= ScanFreq
    BY FS_EmptySet, StackAssumption
  <2> QED BY <2>1, <2>2, <2>3 DEF GarbageInv
<1>8. ASSUME UNCHANGED vars
      PROVE  GarbageInv'
  BY <1>8 DEF vars, GarbageInv
<1> HIDE DEF Keeps
<1> QED BY <1>1, <1>2, <1>3, <1>4, <1>5, <1>6, <1>7, <1>8 DEF Next, Pop, Finished

-----------------------------------------------------------------------------

\* The invariant holds of the empty stack that the constructor makes.
LEMMA Initial == Init => IndInv
BY StackAssumption DEF Init, IndInv, TypeOK, Distinct, ListIsStack, Ownership, Holds, Protected,
   NotMissed, Alone, Destroyed

\* A step that leaves the stack and the heap alone, and lets no thread begin or
\* end to hold a node, keeps Ownership.
LEMMA OwnershipKept ==
  ASSUME Ownership, stack' = stack, alive' = alive, retired' = retired,
         \A q \in Threads : pc'[q] = "push" <=> pc[q] = "push",
         \A q \in Threads : pc'[q] = "take" <=> pc[q] = "take",
         \A q \in Threads : pc[q] \in {"push", "take"} => node'[q] = node[q]
  PROVE  Ownership'
<1>1. \A q \in Threads, n \in Nodes \union alive \union {stack[i] : i \in 1 .. Len(stack)} : Holds(q, n)' <=> Holds(q, n)
  BY DEF Holds
<1> QED BY <1>1 DEF Ownership

\* Outside of the destructor a list that is not empty begins with a node that
\* nobody holds.
LEMMA TopIsFree ==
  ASSUME IndInv, NEW p \in Threads, pc[p] \notin {"idle", "destroy", "destroyed"}, top # Null
  PROVE  /\ stack # <<>> /\ Len(stack) \in Nat \ {0} /\ top = stack[1] /\ top \in alive
         /\ \A q \in Threads : ~Holds(q, top)
<1>1. ~Destroyed
  BY DEF IndInv, Alone, Destroyed
<1>2. stack # <<>> /\ top = stack[1] /\ Len(stack) \in Nat \ {0}
  BY <1>1 DEF IndInv, ListIsStack, TypeOK
<1> QED BY <1>2 DEF IndInv, ListIsStack, Ownership

-----------------------------------------------------------------------------
(* Every step keeps the invariant. *)

\* Push makes a node that no thread and no slot has.
LEMMA PushKeeps ==
  ASSUME IndInv, NEW p \in Threads, Push(p)
  PROVE  IndInv'
<1> USE StackAssumption DEF IndInv, Push, Goto, shared, reclaim
<1>1. TypeOK'
  BY DEF TypeOK
<1>2. Distinct'
  BY DEF Distinct
<1>3. ListIsStack'
  BY DEF TypeOK, ListIsStack, Destroyed, Ownership, Holds
<1>4. Ownership'
  <2>1. (\A q \in Threads : pc[q] \in {"push", "take"} => node[q] \in alive)'
    BY DEF TypeOK, Ownership, Holds, ListIsStack
  <2>2. (\A q \in Threads : retired[q] \subseteq alive)'
    BY DEF TypeOK, Ownership, Holds, ListIsStack
  <2>3. (\A q, r \in Threads, n \in Nodes : Holds(q, n) /\ Holds(r, n) => q = r)'
    BY DEF TypeOK, Ownership, Holds, ListIsStack
  <2>4. (\A q \in Threads : pc[q] \in {"push", "take"} => node[q] \notin retired[q])'
    BY DEF TypeOK, Ownership, Holds, ListIsStack
  <2>5. (\A q \in Threads, i \in 1 .. Len(stack) : ~Holds(q, stack[i]))'
    BY DEF TypeOK, Ownership, Holds, ListIsStack
  <2>6. (\A n \in alive : (\E q \in Threads : Holds(q, n)) \/ \E i \in 1 .. Len(stack) : stack[i] = n)'
    <3>1. PICK m \in Nodes \ alive :
            alive' = alive \union {m} /\ node' = [node EXCEPT ![p] = m]
      BY Zenon
    <3>2. Holds(p, m)'
      BY <3>1 DEF TypeOK, Holds
    <3>3. \A q \in Threads, n \in alive : Holds(q, n) => Holds(q, n)'
      BY <3>1 DEF TypeOK, Holds
    <3> QED BY <3>1, <3>2, <3>3 DEF Ownership
  <2> QED BY <2>1, <2>2, <2>3, <2>4, <2>5, <2>6 DEF Ownership
<1>5. Protected'
  BY DEF TypeOK, Protected, NotMissed
<1>6. Alone'
  BY DEF TypeOK, Alone, Destroyed
<1> QED BY <1>1, <1>2, <1>3, <1>4, <1>5, <1>6

\* TryPop starts or gives up without touching a node.
LEMMA TryPopKeeps ==
  ASSUME IndInv, NEW p \in Threads, TryPop(p)
  PROVE  IndInv'
<1> USE StackAssumption DEF IndInv, TryPop, Goto, shared, reclaim
<1>1. TypeOK'
  BY DEF TypeOK
<1>2. Distinct'
  BY DEF Distinct
<1>3. ListIsStack'
  BY DEF TypeOK, ListIsStack, Destroyed, Ownership, Holds
<1>4. Ownership'
  BY OwnershipKept DEF TypeOK
<1>5. Protected'
  BY DEF TypeOK, Protected, NotMissed
<1>6. Alone'
  BY DEF TypeOK, Alone, Destroyed
<1> QED BY <1>1, <1>2, <1>3, <1>4, <1>5, <1>6

\* Publishing a pointer claims nothing yet.
LEMMA ProtectSetKeeps ==
  ASSUME IndInv, NEW p \in Threads, ProtectSet(p)
  PROVE  IndInv'
<1> USE StackAssumption DEF IndInv, ProtectSet, Goto, shared, reclaim
<1>1. TypeOK'
  BY DEF TypeOK
<1>2. Distinct'
  BY DEF Distinct
<1>3. ListIsStack'
  BY DEF TypeOK, ListIsStack, Destroyed, Ownership, Holds
<1>4. Ownership'
  BY OwnershipKept DEF TypeOK
<1>5. Protected'
  BY DEF TypeOK, Protected, NotMissed
<1>6. Alone'
  BY DEF TypeOK, Alone
<1> QED BY <1>1, <1>2, <1>3, <1>4, <1>5, <1>6

\* The pointer that validates is still at the top: it is in the stack, and
\* nobody has retired it, so no scan can have missed it.
LEMMA ProtectValidateKeeps ==
  ASSUME IndInv, NEW p \in Threads, ProtectValidate(p)
  PROVE  IndInv'
<1> USE StackAssumption DEF IndInv, ProtectValidate, Goto, shared, reclaim
<1>1. TypeOK'
  BY DEF TypeOK
<1>2. Distinct'
  BY DEF Distinct
<1>3. ListIsStack'
  BY DEF TypeOK, ListIsStack, Destroyed, Ownership, Holds
<1>4. Ownership'
  BY OwnershipKept DEF TypeOK
<1>5. Protected'
  <2>1. CASE top = node[p] /\ top # Null
    <3>1. top \in alive /\ \A q \in Threads : ~Holds(q, top)
      BY <2>1, TopIsFree
    <3>2. /\ \A q \in Threads : top \notin retired[q]
          /\ \A q \in Threads : pc[q] = "push" => node[q] # top
      BY <3>1 DEF Holds
    <3> QED BY <2>1, <3>1, <3>2 DEF TypeOK, Protected, NotMissed
  <2>2. CASE top # node[p] \/ top = Null
    BY <2>2 DEF TypeOK, Protected, NotMissed
  <2> QED BY <2>1, <2>2
<1>6. Alone'
  BY DEF TypeOK, Alone
<1> QED BY <1>1, <1>2, <1>3, <1>4, <1>5, <1>6

\* The next that is read is the one the node has until it is freed.
LEMMA ReadNextKeeps ==
  ASSUME IndInv, NEW p \in Threads, ReadNext(p)
  PROVE  IndInv'
<1> USE StackAssumption DEF IndInv, ReadNext, Goto, shared, reclaim
<1>1. TypeOK'
  BY DEF TypeOK, Protected
<1>2. Distinct'
  BY DEF Distinct
<1>3. ListIsStack'
  BY DEF TypeOK, ListIsStack, Destroyed, Ownership, Holds
<1>4. Ownership'
  BY OwnershipKept DEF TypeOK
<1>5. Protected'
  BY DEF TypeOK, Protected, NotMissed
<1>6. Alone'
  BY DEF TypeOK, Alone
<1> QED BY <1>1, <1>2, <1>3, <1>4, <1>5, <1>6

\* The node that is retired was held by the thread; its scan, if one begins, has
\* looked at no slot yet.
LEMMA RetireKeeps ==
  ASSUME IndInv, NEW p \in Threads, Retire(p)
  PROVE  IndInv'
<1> USE StackAssumption DEF IndInv, Retire, Goto, shared, reclaim
<1>1. TypeOK'
  BY DEF TypeOK, Ownership
<1>2. Distinct'
  BY DEF Distinct
<1>3. ListIsStack'
  BY DEF TypeOK, ListIsStack, Destroyed, Ownership, Holds
<1>4. Ownership'
  <2>1. (\A q \in Threads : pc[q] \in {"push", "take"} => node[q] \in alive)'
    BY DEF TypeOK, Ownership
  <2>2. (\A q \in Threads : retired[q] \subseteq alive)'
    BY DEF TypeOK, Ownership
  <2>3. (\A q, r \in Threads, n \in Nodes : Holds(q, n) /\ Holds(r, n) => q = r)'
    BY DEF TypeOK, Ownership, Holds
  <2>4. (\A q \in Threads : pc[q] \in {"push", "take"} => node[q] \notin retired[q])'
    BY DEF TypeOK, Ownership, Holds
  <2>5. (\A q \in Threads, i \in 1 .. Len(stack) : ~Holds(q, stack[i]))'
    BY DEF TypeOK, Ownership, Holds, ListIsStack
  <2>6. (\A n \in alive : (\E q \in Threads : Holds(q, n)) \/ \E i \in 1 .. Len(stack) : stack[i] = n)'
    <3>1. \A q \in Threads, n \in alive : Holds(q, n) => Holds(q, n)'
      BY DEF TypeOK, Holds
    <3> QED BY <3>1 DEF Ownership
  <2> QED BY Zenon, <2>1, <2>2, <2>3, <2>4, <2>5, <2>6 DEF Ownership
<1>5. Protected'
  BY DEF TypeOK, Protected, NotMissed
<1>6. Alone'
  BY DEF TypeOK, Alone
<1> QED BY <1>1, <1>2, <1>3, <1>4, <1>5, <1>6

\* A scan that reads the slot of a thread notes the node the thread protects.
LEMMA ScanSlotKeeps ==
  ASSUME IndInv, NEW p \in Threads, ScanSlot(p)
  PROVE  IndInv'
<1> USE StackAssumption DEF IndInv, ScanSlot, Goto, shared, reclaim
<1>1. TypeOK'
  BY DEF TypeOK
<1>2. Distinct'
  BY DEF Distinct
<1>3. ListIsStack'
  BY DEF TypeOK, ListIsStack, Destroyed, Ownership, Holds
<1>4. Ownership'
  BY OwnershipKept DEF TypeOK
<1>5. Protected'
  BY DEF TypeOK, Protected, NotMissed
<1>6. Alone'
  BY DEF TypeOK, Alone
<1> QED BY Zenon, <1>1, <1>2, <1>3, <1>4, <1>5, <1>6

\* What a scan frees is in no slot that was validated: every slot was read.
LEMMA ScanFreeKeeps ==
  ASSUME IndInv, NEW p \in Threads, ScanFree(p)
  PROVE  IndInv'
<1> USE StackAssumption DEF IndInv, ScanFree, Goto, shared, reclaim
<1>1. TypeOK'
  BY DEF TypeOK
<1>2. Distinct'
  BY DEF Distinct
<1>3. ListIsStack'
  BY DEF TypeOK, ListIsStack, Destroyed, Ownership, Holds
<1>4. Ownership'
  <2>1. (\A q \in Threads : pc[q] \in {"push", "take"} => node[q] \in alive)'
    BY DEF TypeOK, Ownership, Holds, ListIsStack
  <2>2. (\A q \in Threads : retired[q] \subseteq alive)'
    BY DEF TypeOK, Ownership, Holds, ListIsStack
  <2>3. (\A q, r \in Threads, n \in Nodes : Holds(q, n) /\ Holds(r, n) => q = r)'
    BY DEF TypeOK, Ownership, Holds, ListIsStack
  <2>4. (\A q \in Threads : pc[q] \in {"push", "take"} => node[q] \notin retired[q])'
    BY DEF TypeOK, Ownership, Holds, ListIsStack
  <2>5. (\A q \in Threads, i \in 1 .. Len(stack) : ~Holds(q, stack[i]))'
    BY DEF TypeOK, Ownership, Holds, ListIsStack
  <2>6. (\A n \in alive : (\E q \in Threads : Holds(q, n)) \/ \E i \in 1 .. Len(stack) : stack[i] = n)'
    <3>1. \A q \in Threads, n \in alive' : Holds(q, n) => Holds(q, n)'
      BY DEF TypeOK, Holds
    <3> QED BY <3>1 DEF Ownership
  <2> QED BY Zenon, <2>1, <2>2, <2>3, <2>4, <2>5, <2>6 DEF Ownership
<1>5. Protected'
  BY SMTT(30) DEF TypeOK, Protected, NotMissed, Ownership, Holds
<1>6. Alone'
  BY DEF TypeOK, Alone
<1> QED BY <1>1, <1>2, <1>3, <1>4, <1>5, <1>6

\* Clearing a slot ends the protection, and the thread is done with the node.
LEMMA ResetKeeps ==
  ASSUME IndInv, NEW p \in Threads, Reset(p)
  PROVE  IndInv'
<1> USE StackAssumption DEF IndInv, Reset, Goto, shared, reclaim
<1>1. TypeOK'
  BY DEF TypeOK
<1>2. Distinct'
  BY DEF Distinct
<1>3. ListIsStack'
  BY DEF TypeOK, ListIsStack, Destroyed, Ownership, Holds
<1>4. Ownership'
  BY OwnershipKept DEF TypeOK
<1>5. Protected'
  BY DEF TypeOK, Protected, NotMissed
<1>6. Alone'
  BY DEF TypeOK, Alone
<1> QED BY <1>1, <1>2, <1>3, <1>4, <1>5, <1>6

\* The destructor starts when every thread is idle.
LEMMA DestroyKeeps ==
  ASSUME IndInv, NEW p \in Threads, Destroy(p)
  PROVE  IndInv'
<1> USE StackAssumption DEF IndInv, Destroy, Goto, shared, reclaim
<1>1. TypeOK'
  BY DEF TypeOK
<1>2. Distinct'
  BY DEF Distinct
<1>3. ListIsStack'
  BY DEF TypeOK, ListIsStack, Destroyed
<1>4. Ownership'
  BY OwnershipKept DEF TypeOK
<1>5. Protected'
  BY DEF TypeOK, Protected, NotMissed
<1>6. Alone'
  BY DEF TypeOK, Alone, ListIsStack, Destroyed
<1> QED BY <1>1, <1>2, <1>3, <1>4, <1>5, <1>6

\* CleanUp frees what is retired; no thread dereferences a node then.
LEMMA CleanUpKeeps ==
  ASSUME IndInv, NEW p \in Threads, CleanUp(p)
  PROVE  IndInv'
<1> USE StackAssumption DEF IndInv, CleanUp, Goto, shared, reclaim
<1>1. TypeOK'
  BY DEF TypeOK
<1>2. Distinct'
  BY Zenon DEF Distinct
<1>3. ListIsStack'
  BY DEF TypeOK, ListIsStack, Destroyed, Ownership, Holds
<1>4. Ownership'
  <2>1. (\A q \in Threads : pc[q] \in {"push", "take"} => node[q] \in alive)'
    BY DEF TypeOK, Ownership, Holds, ListIsStack
  <2>2. (\A q \in Threads : retired[q] \subseteq alive)'
    BY DEF TypeOK, Ownership, Holds, ListIsStack
  <2>3. (\A q, r \in Threads, n \in Nodes : Holds(q, n) /\ Holds(r, n) => q = r)'
    BY DEF TypeOK, Ownership, Holds, ListIsStack
  <2>4. (\A q \in Threads : pc[q] \in {"push", "take"} => node[q] \notin retired[q])'
    BY DEF TypeOK, Ownership, Holds, ListIsStack
  <2>5. (\A q \in Threads, i \in 1 .. Len(stack) : ~Holds(q, stack[i]))'
    BY DEF TypeOK, Ownership, Holds, ListIsStack
  <2>6. (\A n \in alive : (\E q \in Threads : Holds(q, n)) \/ \E i \in 1 .. Len(stack) : stack[i] = n)'
    BY Zenon DEF TypeOK, Ownership, Holds, ListIsStack
  <2> QED BY Zenon, <2>1, <2>2, <2>3, <2>4, <2>5, <2>6 DEF Ownership
<1>5. Protected'
  BY DEF TypeOK, Protected, Alone
<1>6. Alone'
  BY DEF TypeOK, Alone
<1> QED BY Zenon, <1>1, <1>2, <1>3, <1>4, <1>5, <1>6

\* The CAS of Push puts the node in front, or takes over the new top.
LEMMA PushCasKeeps ==
  ASSUME IndInv, NEW p \in Threads, PushCas(p)
  PROVE  IndInv'
<1> USE StackAssumption DEF IndInv
<1>0. /\ node[p] \in Nodes /\ node[p] \in alive /\ Holds(p, node[p]) /\ Len(stack) \in Nat
      /\ node[p] \notin retired[p] /\ pc[p] = "push"
      /\ \A i \in 1 .. Len(stack) : stack[i] # node[p]
      /\ UNCHANGED <<alive, slot, node, succ, retired, scanned, hazards, ops>>
  BY SMTT(30) DEF TypeOK, Ownership, Holds, PushCas, reclaim
<1>1. CASE /\ next[node[p]] = top /\ top' = node[p] /\ stack' = <<node[p]>> \o stack
           /\ pc' = [pc EXCEPT ![p] = "idle"] /\ next' = next
  <2>0. /\ stack' \in Seq(Nodes) /\ stack' # <<>> /\ Len(stack') = Len(stack) + 1
        /\ stack'[1] = node[p]
        /\ \A i \in 2 .. Len(stack) + 1 : stack'[i] = stack[i - 1]
    BY <1>0, <1>1, InFront DEF TypeOK
  <2>1. ~Destroyed
    BY Zenon, <1>0 DEF TypeOK, Alone, Destroyed
  <2>2. \A q \in Threads, n \in Nodes : Holds(q, n)' <=> Holds(q, n) /\ ~(q = p /\ n = node[p])
    BY Zenon, <1>0, <1>1 DEF TypeOK, Holds
  <2>3. TypeOK'
    BY Zenon, <1>0, <1>1, <2>0 DEF TypeOK
  <2>4. Distinct'
    <3> SUFFICES ASSUME NEW i \in 1 .. Len(stack'), NEW j \in 1 .. Len(stack'), stack'[i] = stack'[j]
                 PROVE  i = j
      BY DEF Distinct
    <3>1. CASE i = 1 \/ j = 1
      BY SMTT(30), <1>0, <2>0, <3>1
    <3>2. CASE i # 1 /\ j # 1
      BY <1>0, <2>0, <3>2 DEF Distinct
    <3> QED BY <3>1, <3>2
  <2>5. ListIsStack'
    BY <1>0, <1>1, <2>0, <2>1 DEF TypeOK, ListIsStack, Destroyed
  <2>6. Ownership'
    <3>1. (\A q \in Threads, i \in 1 .. Len(stack) : ~Holds(q, stack[i]))'
      <4> SUFFICES ASSUME NEW q \in Threads, NEW i \in 1 .. Len(stack'),
                          NEW n \in Nodes, n = stack'[i]
                   PROVE  ~Holds(q, n)'
        BY <2>0 DEF Holds
      <4>1. CASE i = 1
        BY Zenon, <1>0, <2>0, <2>2, <4>1 DEF Ownership
      <4>2. CASE i # 1
        <5>1. i - 1 \in 1 .. Len(stack) /\ stack'[i] = stack[i - 1] /\ stack'[i] \in Nodes
          BY <1>0, <2>0, <4>2 DEF TypeOK
        <5> QED BY Zenon, <2>2, <5>1 DEF Ownership
      <4> QED BY <4>1, <4>2
    <3>2. (\A n \in alive : (\E q \in Threads : Holds(q, n)) \/ \E i \in 1 .. Len(stack) : stack[i] = n)'
      <4> SUFFICES ASSUME NEW n \in alive, \A q \in Threads : ~Holds(q, n)'
                   PROVE  \E i \in 1 .. Len(stack') : stack'[i] = n
        BY Zenon, <1>0
      <4>1. CASE n = node[p]
        BY <1>0, <2>0, <4>1
      <4>2. CASE n # node[p]
        <5>1. PICK i \in 1 .. Len(stack) : stack[i] = n
          BY Zenon, <2>2, <4>2 DEF Ownership, TypeOK
        <5>2. \A k \in Nat : \A j \in 1 .. k : j + 1 \in 2 .. k + 1 /\ j + 1 \in 1 .. k + 1 /\ j + 1 - 1 = j
          OBVIOUS
        <5>3. i + 1 \in 2 .. Len(stack) + 1 /\ i + 1 \in 1 .. Len(stack') /\ i + 1 - 1 = i
          BY <1>0, <2>0, <5>2
        <5>4. stack'[i + 1] = n
          BY <2>0, <5>1, <5>3
        <5> QED BY <5>3, <5>4
      <4> QED BY <4>1, <4>2
    <3>3. (\A q, r \in Threads, n \in Nodes : Holds(q, n) /\ Holds(r, n) => q = r)'
      BY <2>2 DEF Ownership
    <3>4. \A q \in Threads : pc'[q] \in {"push", "take"} => pc[q] \in {"push", "take"}
      BY <1>1 DEF TypeOK
    <3> QED BY Zenon, <1>0, <3>1, <3>2, <3>3, <3>4 DEF Ownership
  <2>7. Protected'
    <3>1. /\ \A q \in Threads : pc'[q] # pc[q] => pc'[q] = "idle"
          /\ next' = next
      BY Zenon, <1>0, <1>1 DEF TypeOK
    <3>2. \A q \in Threads, n \in Nodes : NotMissed(q, n) => NotMissed(q, n)'
      BY Zenon, <1>0, <3>1 DEF NotMissed
    <3> SUFFICES ASSUME NEW q \in Threads
                 PROVE  /\ pc'[q] = "validate" => slot[q] = node[q]
                        /\ pc'[q] \in {"read", "cas"} =>
                             /\ slot[q] = node[q] /\ node[q] \in alive
                             /\ NotMissed(q, node[q])'
                             /\ \A w \in Threads : pc'[w] = "push" => node[w] # node[q]
                        /\ pc'[q] = "cas" => succ[q] = next'[node[q]]
      BY Zenon, <1>0 DEF Protected, NotMissed
    <3> QED BY Zenon, <1>0, <3>1, <3>2 DEF TypeOK, Protected
  <2>8. Alone'
    BY <1>0, <1>1, <2>1 DEF TypeOK, Alone, Destroyed
  <2> QED BY <2>3, <2>4, <2>5, <2>6, <2>7, <2>8
<1>2. CASE next' = [next EXCEPT ![node[p]] = top] /\ UNCHANGED <<top, stack, pc>>
  <2>1. TypeOK'
    BY Zenon, <1>0, <1>2 DEF TypeOK
  <2>2. Distinct'
    BY <1>2 DEF Distinct
  <2>3. ListIsStack'
    BY <1>0, <1>2 DEF TypeOK, ListIsStack, Destroyed
  <2>4. Ownership'
    BY Zenon, <1>0, <1>2, OwnershipKept
  <2>5. Protected'
    <3>1. /\ pc' = pc
          /\ \A n \in Nodes : n # node[p] => next'[n] = next[n]
      BY Zenon, <1>0, <1>2 DEF TypeOK
    <3>2. \A q \in Threads, n \in Nodes : NotMissed(q, n) => NotMissed(q, n)'
      BY Zenon, <1>0, <3>1 DEF NotMissed
    <3> SUFFICES ASSUME NEW q \in Threads
                 PROVE  /\ pc'[q] = "validate" => slot[q] = node[q]
                        /\ pc'[q] \in {"read", "cas"} =>
                             /\ slot[q] = node[q] /\ node[q] \in alive
                             /\ NotMissed(q, node[q])'
                             /\ \A w \in Threads : pc'[w] = "push" => node[w] # node[q]
                        /\ pc'[q] = "cas" => succ[q] = next'[node[q]]
      BY <1>0 DEF Protected, NotMissed
    <3> QED BY Zenon, <1>0, <3>1, <3>2 DEF TypeOK, Protected
  <2>6. Alone'
    BY Zenon, <1>0, <1>2 DEF Alone
  <2> QED BY <2>1, <2>2, <2>3, <2>4, <2>5, <2>6
<1> QED BY Zenon, <1>1, <1>2 DEF PushCas, Goto

\* The stack without its first node, which is taken or deleted: the others are
\* still there, once, and still linked.
TakesFirst ==
  /\ Len(stack) \in Nat \ {0} /\ stack' \in Seq(Nodes) /\ Len(stack') = Len(stack) - 1
  /\ \A i \in 1 .. Len(stack') :
       /\ i + 1 \in 1 .. Len(stack) /\ stack'[i] = stack[i + 1]
       /\ stack'[i] \in alive \ {stack[1]}
       /\ next[stack'[i]] = IF i = Len(stack') THEN Null ELSE stack'[i + 1]
  /\ next[stack[1]] = IF stack' = <<>> THEN Null ELSE stack'[1]
  /\ \A n \in Nodes \ {stack[1]} :
       (\E i \in 1 .. Len(stack) : stack[i] = n) => \E i \in 1 .. Len(stack') : stack'[i] = n
  /\ Distinct'

\* Taking the first node off the stack leaves the rest as it was.
LEMMA FirstRemoved ==
  ASSUME IndInv, stack # <<>>, stack' = Tail(stack)
  PROVE  TakesFirst
<1>1. /\ Len(stack) \in Nat \ {0} /\ stack' \in Seq(Nodes) /\ Len(stack') = Len(stack) - 1
      /\ \A i \in 1 .. Len(stack) - 1 : stack'[i] = stack[i + 1]
      /\ (stack' = <<>>) <=> (Len(stack) = 1)
  BY WithoutFirst DEF IndInv, TypeOK
<1>2. \A i \in 1 .. Len(stack') : i + 1 \in 1 .. Len(stack) /\ stack'[i] = stack[i + 1]
  BY <1>1
<1>3. ASSUME NEW i \in 1 .. Len(stack')
      PROVE  /\ stack'[i] \in alive \ {stack[1]}
             /\ next[stack'[i]] = IF i = Len(stack') THEN Null ELSE stack'[i + 1]
  <2>0. /\ i \in Int /\ i + 1 \in 1 .. Len(stack) /\ 1 \in 1 .. Len(stack) /\ i + 1 # 1
        /\ stack'[i] = stack[i + 1] /\ Len(stack) \in Nat /\ Len(stack') = Len(stack) - 1
    BY <1>1, <1>2
  <2>1. stack[i + 1] # stack[1]
    BY <2>0 DEF IndInv, Distinct
  <2>2. /\ stack[i + 1] \in alive
        /\ next[stack[i + 1]] = IF i + 1 = Len(stack) THEN Null ELSE stack[(i + 1) + 1]
    BY Zenon, <2>0 DEF IndInv, ListIsStack
  <2>3. CASE i = Len(stack')
    BY <2>0, <2>1, <2>2, <2>3
  <2>4. CASE i # Len(stack')
    <3>1. i + 1 \in 1 .. Len(stack) - 1
      <4>1. \A k \in Nat, j \in Int : j + 1 \in 1 .. k /\ j # k - 1 => j + 1 \in 1 .. k - 1
        OBVIOUS
      <4> QED BY Zenon, <2>0, <2>4, <4>1
    <3>2. stack'[i + 1] = stack[(i + 1) + 1]
      BY <1>1, <3>1
    <3>3. i + 1 # Len(stack)
      <4>1. \A k \in Nat : \A j \in 1 .. k - 1 : j # k
        OBVIOUS
      <4> QED BY Zenon, <2>0, <3>1, <4>1
    <3> QED BY ZenonT(40), <2>0, <2>1, <2>2, <2>4, <3>2, <3>3
  <2> QED BY <2>3, <2>4
<1>4. next[stack[1]] = IF stack' = <<>> THEN Null ELSE stack'[1]
  <2>0. 1 \in 1 .. Len(stack)
    BY <1>1
  <2>1. next[stack[1]] = IF 1 = Len(stack) THEN Null ELSE stack[1 + 1]
    BY Zenon, <2>0 DEF IndInv, ListIsStack
  <2>2. Len(stack) # 1 => stack'[1] = stack[1 + 1]
    BY <1>1
  <2> QED BY <1>1, <2>1, <2>2
<1>5. ASSUME NEW n \in Nodes \ {stack[1]}, NEW i \in 1 .. Len(stack), stack[i] = n
      PROVE  \E j \in 1 .. Len(stack') : stack'[j] = n
  <2>1. i - 1 \in 1 .. Len(stack') /\ stack'[i - 1] = n
    BY <1>1, <1>5
  <2> QED BY Zenon, <2>1
<1>6. Distinct'
  BY <1>1, <1>2 DEF IndInv, Distinct
<1> QED BY ZenonT(40), <1>1, <1>2, <1>3, <1>4, <1>5, <1>6 DEF TakesFirst

\* The CAS of TryPop takes the first node off: next was not out of date.
LEMMA PopCasKeeps ==
  ASSUME IndInv, NEW p \in Threads, PopCas(p)
  PROVE  IndInv'
<1> USE StackAssumption DEF IndInv
<1>0. /\ pc[p] = "cas" /\ node[p] \in alive /\ node[p] \in Nodes /\ succ[p] = next[node[p]]
      /\ UNCHANGED <<next, alive, slot, succ, retired, scanned, hazards, ops>>
  BY DEF TypeOK, Protected, PopCas, reclaim
<1>1. CASE /\ top = node[p] /\ top' = succ[p] /\ stack' = Tail(stack)
           /\ pc' = [pc EXCEPT ![p] = "take"] /\ node' = node
  <2>0. stack # <<>> /\ node[p] = stack[1] /\ \A q \in Threads : ~Holds(q, node[p])
    BY Zenon, <1>0, <1>1, TopIsFree DEF TypeOK
  <2>1. ~Destroyed
    BY Zenon, <1>0 DEF TypeOK, Alone, Destroyed
  <2>2. \A q \in Threads, n \in Nodes : Holds(q, n)' <=> Holds(q, n) \/ (q = p /\ n = node[p])
    BY <1>0, <1>1 DEF TypeOK, Holds
  <2>r. TakesFirst
    BY Zenon, <1>1, <2>0, FirstRemoved
  <2>3. TypeOK'
    BY Zenon, <1>0, <1>1, <2>r DEF TypeOK, TakesFirst
  <2>5. ListIsStack'
    <3>1. top' = IF stack' = <<>> THEN Null ELSE stack'[1]
      <4>1. top' = next[stack[1]]
        BY Zenon, <1>0, <1>1, <2>0
      <4> QED BY <2>r, <4>1 DEF TakesFirst
    <3>2. \A i \in 1 .. Len(stack') :
            /\ stack'[i] \in alive'
            /\ next'[stack'[i]] = IF i = Len(stack') THEN Null ELSE stack'[i + 1]
      BY Zenon, <1>0, <2>r DEF TakesFirst
    <3> QED BY <3>1, <3>2 DEF ListIsStack
  <2>6. Ownership'
    <3>1. (\A q \in Threads, i \in 1 .. Len(stack) : ~Holds(q, stack[i]))'
      <4> SUFFICES ASSUME NEW q \in Threads, NEW i \in 1 .. Len(stack'),
                          NEW n \in Nodes, n = stack'[i]
                   PROVE  ~Holds(q, n)'
        BY SMTT(30), <2>r DEF TakesFirst, Holds
      <4>1. n = stack[i + 1] /\ i + 1 \in 1 .. Len(stack) /\ n # node[p]
        BY <2>0, <2>r DEF TakesFirst
      <4> QED BY <2>2, <4>1 DEF Ownership
    <3>2. (\A n \in alive : (\E q \in Threads : Holds(q, n)) \/ \E i \in 1 .. Len(stack) : stack[i] = n)'
      <4> SUFFICES ASSUME NEW n \in alive, \A q \in Threads : ~Holds(q, n)'
                   PROVE  \E i \in 1 .. Len(stack') : stack'[i] = n
        BY Zenon, <1>0
      <4>1. n # node[p] /\ n \in Nodes /\ \A q \in Threads : ~Holds(q, n)
        BY <2>2 DEF TypeOK
      <4> QED BY Zenon, <2>0, <2>r, <4>1 DEF Ownership, TakesFirst
    <3>3. \A q \in Threads : node[p] \notin retired[q]
      BY Zenon, <2>0 DEF Holds
    <3>4. (\A q, r \in Threads, n \in Nodes : Holds(q, n) /\ Holds(r, n) => q = r)'
      BY <2>0, <2>2 DEF Ownership
    <3>5. \A q \in Threads : pc'[q] \in {"push", "take"} => q = p \/ pc[q] \in {"push", "take"}
      BY <1>1 DEF TypeOK
    <3> QED BY Zenon, <1>0, <1>1, <3>1, <3>2, <3>3, <3>4, <3>5 DEF Ownership
  <2>7. Protected'
    BY <1>0, <1>1 DEF TypeOK, Protected, NotMissed
  <2>8. Alone'
    BY <1>0, <1>1, <2>1 DEF TypeOK, Alone, Destroyed
  <2> QED BY Zenon, <2>r, <2>3, <2>5, <2>6, <2>7, <2>8 DEF TakesFirst
<1>2. CASE /\ node' = [node EXCEPT ![p] = top] /\ pc' = [pc EXCEPT ![p] = "protect"]
           /\ UNCHANGED <<top, stack>>
  <2>1. TypeOK'
    BY Zenon, <1>0, <1>2 DEF TypeOK
  <2>2. Distinct'
    BY <1>2 DEF Distinct
  <2>3. ListIsStack'
    BY Zenon, <1>0, <1>2 DEF TypeOK, ListIsStack, Destroyed
  <2>4. Ownership'
    BY <1>0, <1>2, OwnershipKept DEF TypeOK
  <2>5. Protected'
    BY Zenon, <1>0, <1>2 DEF TypeOK, Protected, NotMissed
  <2>6. Alone'
    BY Zenon, <1>0, <1>2 DEF TypeOK, Alone
  <2> QED BY <2>1, <2>2, <2>3, <2>4, <2>5, <2>6
<1> QED BY Zenon, <1>1, <1>2 DEF PopCas, Goto

\* The destructor frees the first node that is left and moves on.
LEMMA DestroyNodeKeeps ==
  ASSUME IndInv, NEW p \in Threads, DestroyNode(p)
  PROVE  IndInv'
<1> USE StackAssumption DEF IndInv
<1>0. /\ pc[p] = "destroy" /\ stack # <<>> /\ node[p] = stack[1] /\ node[p] \in Nodes
      /\ \A q \in Threads \ {p} : pc[q] = "idle"
      /\ stack' = Tail(stack) /\ alive' = alive \ {node[p]}
      /\ node' = [node EXCEPT ![p] = next[node[p]]]
      /\ UNCHANGED <<top, next, slot, pc, succ, retired, scanned, hazards, ops>>
  BY Zenon DEF TypeOK, Alone, DestroyNode, reclaim
<1>r. TakesFirst
  BY <1>0, FirstRemoved
<1>1. /\ \A q \in Threads, n \in Nodes : Holds(q, n)' <=> Holds(q, n)
      /\ \A q \in Threads : ~Holds(q, node[p])
  <2>1. \A q \in Threads, n \in Nodes : Holds(q, n)' <=> Holds(q, n)
    BY Zenon, <1>0 DEF TypeOK, Holds
  <2>2. 1 \in 1 .. Len(stack)
    BY <1>r DEF TakesFirst
  <2> QED BY Zenon, <1>0, <2>1, <2>2 DEF Ownership
<1>2. TypeOK'
  BY ZenonT(40), <1>0, <1>r DEF TypeOK, TakesFirst
<1>3. ListIsStack'
  BY ZenonT(40), <1>0, <1>r DEF TakesFirst, ListIsStack, Destroyed
<1>4. Ownership'
  <2>1. (\A q \in Threads, i \in 1 .. Len(stack) : ~Holds(q, stack[i]))'
    <3> SUFFICES ASSUME NEW q \in Threads, NEW i \in 1 .. Len(stack'),
                        NEW n \in Nodes, n = stack'[i]
                 PROVE  ~Holds(q, n)'
      BY <1>r DEF TakesFirst, Holds
    <3>1. n = stack[i + 1] /\ i + 1 \in 1 .. Len(stack)
      BY <1>r DEF TakesFirst
    <3>2. ~Holds(q, n)
      BY <3>1 DEF Ownership
    <3> QED BY Zenon, <1>1, <3>2
  <2>2. (\A n \in alive : (\E q \in Threads : Holds(q, n)) \/ \E i \in 1 .. Len(stack) : stack[i] = n)'
    <3> SUFFICES ASSUME NEW n \in alive', \A q \in Threads : ~Holds(q, n)'
                 PROVE  \E i \in 1 .. Len(stack') : stack'[i] = n
      OBVIOUS
    <3>1. n # node[p] /\ n \in alive /\ n \in Nodes /\ \A q \in Threads : ~Holds(q, n)
      BY <1>0, <1>1 DEF TypeOK
    <3> QED BY Zenon, <1>0, <1>r, <3>1 DEF Ownership, TakesFirst
  <2>3. (\A q \in Threads : retired[q] \subseteq alive)'
    BY SMTT(30), <1>0, <1>1 DEF Ownership, Holds
  <2> QED BY Zenon, <1>0, <1>1, <2>1, <2>2, <2>3 DEF TypeOK, Ownership
<1>5. Protected'
  BY Zenon, <1>0 DEF TypeOK, Protected
<1>6. Alone'
  <2>1. next[node[p]] = IF stack' = <<>> THEN Null ELSE stack'[1]
    BY Zenon, <1>0, <1>r DEF TakesFirst
  <2> QED BY Zenon, <1>0, <2>1 DEF TypeOK, Alone
<1> QED BY <1>r, <1>2, <1>3, <1>4, <1>5, <1>6 DEF TakesFirst

-----------------------------------------------------------------------------
(* The theorems. *)

\* The invariant is inductive.
LEMMA Inductive == IndInv /\ [Next]_vars => IndInv'
<1> SUFFICES ASSUME IndInv, [Next]_vars
             PROVE  IndInv'
  OBVIOUS
<1>1. ASSUME NEW p \in Threads, Push(p) \/ PushCas(p)
      PROVE  IndInv'
  BY <1>1, PushKeeps, PushCasKeeps
<1>2. ASSUME NEW p \in Threads, Pop(p)
      PROVE  IndInv'
  BY <1>2, TryPopKeeps, ProtectSetKeeps, ProtectValidateKeeps, ReadNextKeeps, PopCasKeeps,
     RetireKeeps, ScanSlotKeeps, ScanFreeKeeps, ResetKeeps DEF Pop
<1>3. ASSUME NEW p \in Threads, Destroy(p) \/ DestroyNode(p) \/ CleanUp(p)
      PROVE  IndInv'
  BY <1>3, DestroyKeeps, DestroyNodeKeeps, CleanUpKeeps
<1>4. ASSUME UNCHANGED vars
      PROVE  IndInv'
  <2> USE <1>4 DEF vars, IndInv
  <2>1. TypeOK'
    BY Zenon DEF TypeOK
  <2>2. Distinct' /\ ListIsStack'
    BY DEF Distinct, ListIsStack, Destroyed
  <2>3. Ownership'
    BY Zenon, OwnershipKept
  <2>4. Protected'
    BY Zenon DEF Protected, NotMissed
  <2>5. Alone'
    BY Zenon DEF Alone
  <2> QED BY <2>1, <2>2, <2>3, <2>4, <2>5
<1> QED BY <1>1, <1>2, <1>3, <1>4 DEF Next, Finished

\* The invariant holds always.
LEMMA Invariant == Spec => []IndInv
BY Initial, Inductive, PTL DEF Spec

\* Memory safety (Protect, Retire and Scan of lf/memory/hazard): no thread
\* dereferences or frees a node that was freed, and no node is lost, however
\* many threads push and pop, whenever they scan, and whichever cells New reuses.
THEOREM Safety == Spec => []MemorySafe
<1>1. IndInv => MemorySafe
  <2> SUFFICES ASSUME IndInv
               PROVE  MemorySafe
    OBVIOUS
  <2>1. \A p \in Threads : pc[p] \in {"push", "read", "take"} => node[p] \in alive
    BY Zenon DEF IndInv, Ownership, Protected
  <2>2. \A p \in Threads : pc[p] = "destroy" /\ node[p] # Null => node[p] \in alive
    BY DEF IndInv, TypeOK, ListIsStack, Alone
  <2> QED BY Zenon, <2>1, <2>2 DEF IndInv, MemorySafe, Ownership
<1> QED BY <1>1, Invariant, PTL

\* The list that starts at top_ (Push and TryPop of lf/lock_free_stack.hpp) is the
\* stack of the nodes pushed and not yet popped: the CAS of TryPop never succeeds
\* with a next that is out of date.
THEOREM IsStack == Spec => []ListIsStack
<1>1. IndInv => ListIsStack
  BY DEF IndInv
<1> QED BY <1>1, Invariant, PTL

\* Retire and Scan (lf/memory/hazard/mutator.hpp) bound the garbage of a
\* thread: it keeps at most ScanFreq nodes, or at most one for every slot.
THEOREM Garbage == Spec => []GarbageBounded
<1>1. Init => GarbageInv
  BY FS_EmptySet, StackAssumption DEF Init, GarbageInv
<1>2. GarbageInv => GarbageBounded
  BY DEF GarbageInv, GarbageBounded
<1>3. IndInv => TypeOK
  BY DEF IndInv
<1> QED BY <1>1, <1>2, <1>3, GarbageInductive, Invariant, PTL DEF Spec

=============================================================================
