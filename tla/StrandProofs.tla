--------------------------- MODULE StrandProofs ---------------------------
(***************************************************************************)
(* Proofs about Strand, for any fibers and any number of calls: there is    *)
(* one combiner, the waiters it walks belong to suspended fibers, and the   *)
(* strand implements CriticalSections.                                      *)
(*                                                                          *)
(* The invariant is local: a waiter that is linked has at most one pointer  *)
(* to it, from the head, from the batch of the combiner or from another     *)
(* linked waiter, and its own next points to a linked waiter.  What it says *)
(* of whole lists follows without an induction, as a list is the smallest   *)
(* set that has its first waiter and is closed under next.  That nobody is  *)
(* missing in the lists is an invariant of its own, ListInv.                *)
(***************************************************************************)
EXTENDS Strand, TLAPS

\* The waiter of fiber w is in a list, waiting for a combiner.
Linked(w) == pc[w] = "parked" /\ call[w] = "pending" /\ running # w

\* Where a fiber has a waiter taken from its batch in its hands.
Serving(f) == pc[f] \in {"running", "handOffCas", "wake"}

\* How far the call of a fiber is follows from where the fiber is.
CallAt ==
  \A f \in Fibers :
    /\ pc[f] = "idle" => call[f] = "none"
    /\ pc[f] \in {"combineCas", "await", "awaitCas", "own", "ownRunning"} => call[f] = "pending"
    /\ pc[f] \in {"resumed", "adoptCas", "takeCas", "run", "running", "handOffCas", "wake"} =>
         call[f] = "served"
    /\ pc[f] = "parked" => call[f] # "none"

\* What a fiber has read or taken when it gets to a place.
LocalAt ==
  \A f \in Fibers :
    /\ pc[f] \in {"combineCas", "await", "awaitCas", "handOffCas"} => batch[f] = Nil
    /\ pc[f] = "combineCas" => old[f] = Free
    /\ pc[f] = "adoptCas" => ~old[f].busy /\ old[f].top # Nil

\* A section runs exactly while a combiner is inside it.
RunningAt ==
  /\ \A f \in Fibers : pc[f] \in {"ownRunning", "running"} => running = current[f]
  /\ running # Nil => \E f \in Fibers : pc[f] \in {"ownRunning", "running"}
  /\ \A f \in Fibers : pc[f] = "ownRunning" => current[f] = f

\* The waiter in the hands of a fiber: it is suspended, and nobody else's.
InHand ==
  /\ \A f \in Fibers :
       Serving(f) =>
         /\ current[f] \in Fibers /\ pc[current[f]] = "parked"
         /\ call[current[f]] = IF pc[f] = "running" THEN "pending" ELSE "served"
  /\ \A f, g \in Fibers : Serving(f) /\ Serving(g) /\ current[f] = current[g] => f = g

\* The pointers to waiters.
Links ==
  /\ head.top # Nil => Linked(head.top)
  /\ \A f \in Fibers : Combining(f) /\ batch[f] # Nil => Linked(batch[f]) /\ batch[f] # head.top
  /\ \A v \in Fibers :
       Linked(v) /\ next[v] # Nil =>
         /\ Linked(next[v]) /\ next[v] # head.top
         /\ \A f \in Fibers : Combining(f) => batch[f] # next[v]
         /\ \A w \in Fibers : Linked(w) /\ next[w] = next[v] => w = v

\* Who waits in a list is found from the head or from the batch of a combiner,
\* and who was served is in the hands of the one who will wake it.
Reached ==
  \A w \in Fibers :
    Linked(w) => \/ w \in Waiters(head.top)
                 \/ \E f \in Fibers : Combining(f) /\ w \in Waiters(batch[f])
ServedInHand ==
  \A w \in Fibers :
    pc[w] = "parked" /\ call[w] = "served" => \E f \in Fibers : Serving(f) /\ current[f] = w

\* Nobody takes a list while it still has another one.
NoBatchLeft == \A f \in Fibers : pc[f] = "takeCas" => batch[f] = Nil

\* A list that nobody owns will be adopted.
Adopted ==
  ~head.busy /\ head # Free =>
    \E f \in Fibers :
      \/ pc[f] = "wake" /\ batch[f] = Nil
      \/ pc[f] = "resumed"
      \/ pc[f] \in {"adoptCas", "awaitCas"} /\ old[f] = head

\* What has to be added to see that no waiter is forgotten.
ListInv == Reached /\ ServedInHand /\ NoBatchLeft /\ Adopted

\* The inductive invariant.
IndInv == TypeOK /\ OneCombiner /\ CallAt /\ LocalAt /\ RunningAt /\ InHand /\ Links

-----------------------------------------------------------------------------
\* The words that waiters_head_ may hold, told apart by the bit and the pointer.
LEMMA HeadWords ==
  /\ Free \in Head /\ ~Free.busy /\ Free.top = Nil
  /\ Dummy \in Head /\ Dummy.busy /\ Dummy.top = Nil
  /\ \A w \in Fibers : AddBusyBit(w) \in Head /\ AddBusyBit(w).busy /\ AddBusyBit(w).top = w
  /\ \A h \in Head :
       /\ StripBusyBit(h) \in Head /\ ~StripBusyBit(h).busy /\ StripBusyBit(h).top = h.top
       /\ h.top \in Fibers \union {Nil}
       /\ h.busy /\ h # Dummy => h.top # Nil
       /\ ~h.busy /\ h # Free => h.top # Nil
BY DEF Head, Free, Dummy, AddBusyBit, StripBusyBit

\* The invariant holds of a strand that nobody has used.
LEMMA Initial == Init => IndInv
BY NilAssumption, CallsAssumption DEF Init, IndInv, TypeOK, Labels, Head, Free,
   OneCombiner, Combining, CallAt, LocalAt, RunningAt, InHand, Serving, Links, Linked

-----------------------------------------------------------------------------
(* Every step keeps the invariant. *)

\* A call begins: the fiber has no waiter in any list.
LEMMA CombineKeeps ==
  ASSUME IndInv, NEW f \in Fibers, Combine(f)
  PROVE  IndInv'
<1> USE NilAssumption, CallsAssumption, HeadWords DEF IndInv, Combine, Goto, LoadHead
<1>1. TypeOK' /\ OneCombiner' /\ CallAt' /\ LocalAt' /\ RunningAt' /\ InHand' /\ Links'
  BY DEF TypeOK, Labels, OneCombiner, Combining, CallAt, LocalAt, RunningAt, InHand, Serving,
     Links, Linked
<1> QED BY <1>1

\* The compare_exchange from nullptr makes the first combiner.
LEMMA CombineCasKeeps ==
  ASSUME IndInv, NEW f \in Fibers, CombineCas(f)
  PROVE  IndInv'
<1> USE NilAssumption, CallsAssumption, HeadWords
    DEF IndInv, CombineCas, Goto, LoadHead, CompareExchange, CompareExchangeFails
<1>1. TypeOK'
  BY DEF TypeOK, Labels
<1>2. OneCombiner' /\ CallAt' /\ LocalAt' /\ RunningAt' /\ InHand' /\ Links'
  BY DEF OneCombiner, TypeOK, Combining, LocalAt, CallAt, RunningAt, InHand, Serving, Links, Linked
<1> QED BY <1>1, <1>2

\* Loading the head changes nothing.
LEMMA AwaitKeeps ==
  ASSUME IndInv, NEW f \in Fibers, Await(f)
  PROVE  IndInv'
<1> USE NilAssumption, CallsAssumption, HeadWords DEF IndInv, Await, Goto, LoadHead
<1>1. TypeOK' /\ OneCombiner' /\ CallAt' /\ LocalAt' /\ RunningAt' /\ InHand' /\ Links'
  BY DEF TypeOK, Labels, OneCombiner, Combining, CallAt, LocalAt, RunningAt, InHand, Serving,
     Links, Linked
<1> QED BY <1>1

\* Who finds no combiner becomes it, and takes the list that was left.
LEMMA AwaitOwnKeeps ==
  ASSUME IndInv, NEW f \in Fibers, AwaitOwn(f)
  PROVE  IndInv'
<1> USE NilAssumption, CallsAssumption, HeadWords
    DEF IndInv, AwaitOwn, Goto, LoadHead, CompareExchange, CompareExchangeFails
<1>1. TypeOK'
  BY SMTT(30) DEF TypeOK, Labels
<1>2. OneCombiner' /\ CallAt' /\ LocalAt'
  BY DEF OneCombiner, TypeOK, Combining, CallAt, LocalAt
<1>5. RunningAt' /\ InHand'
  BY DEF RunningAt, TypeOK, InHand, Serving
<1>7. Links'
  BY DEF Links, TypeOK, Linked, Combining
<1> QED BY <1>1, <1>2, <1>5, <1>7

\* The waiter that is pushed was in no list, and is linked to the old head.
LEMMA AwaitPushKeeps ==
  ASSUME IndInv, NEW f \in Fibers, AwaitPush(f)
  PROVE  IndInv'
<1> USE NilAssumption, CallsAssumption, HeadWords
    DEF IndInv, AwaitPush, Goto, LoadHead, CompareExchange, CompareExchangeFails
<1>1. TypeOK'
  <2>1. head' \in Head /\ old' \in [Fibers -> Head]
    BY DEF TypeOK
  <2>2. next' \in [Fibers -> Fibers \union {Nil}] /\ pc' \in [Fibers -> Labels]
    BY DEF TypeOK, Labels
  <2>3. \A g \in Fibers : pc'[g] = "run" => pc[g] = "run"
    BY DEF TypeOK
  <2> QED BY <2>1, <2>2, <2>3 DEF TypeOK
<1>2. OneCombiner' /\ CallAt' /\ LocalAt' /\ RunningAt'
  BY DEF OneCombiner, TypeOK, Combining, CallAt, LocalAt, RunningAt
<1>6. InHand' /\ Links'
  BY DEF InHand, TypeOK, Serving, Links, Linked, Combining, CallAt, RunningAt
<1> QED BY <1>1, <1>2, <1>6

\* A fiber whose section has been run looks for a list that nobody owns.
LEMMA ResumeKeeps ==
  ASSUME IndInv, NEW f \in Fibers, Resume(f)
  PROVE  IndInv'
<1> USE NilAssumption, CallsAssumption, HeadWords DEF IndInv, Resume, Goto, LoadHead, Return
<1>1. TypeOK'
  BY DEF TypeOK, Labels
<1>2. OneCombiner' /\ CallAt' /\ LocalAt' /\ RunningAt'
  BY DEF OneCombiner, TypeOK, Combining, CallAt, LocalAt, RunningAt
<1>6. InHand'
  BY SMTT(30) DEF InHand, TypeOK, Serving
<1>7. Links'
  BY DEF Links, TypeOK, Linked, Combining, LocalAt, Serving
<1> QED BY <1>1, <1>2, <1>6, <1>7

\* The list that nobody owns becomes the batch of the one who takes it.
LEMMA AdoptCasKeeps ==
  ASSUME IndInv, NEW f \in Fibers, AdoptCas(f)
  PROVE  IndInv'
<1> USE NilAssumption, CallsAssumption, HeadWords
    DEF IndInv, AdoptCas, Goto, LoadHead, CompareExchange, CompareExchangeFails, Return
<1>1. TypeOK'
  <2>1. head' \in Head /\ old' \in [Fibers -> Head]
    BY DEF TypeOK
  <2>2. /\ pc' \in [Fibers -> Labels] /\ call' \in [Fibers -> {"none", "pending", "served"}]
        /\ batch' \in [Fibers -> Fibers \union {Nil}]
    BY DEF TypeOK, Labels
  <2>3. \A g \in Fibers : pc'[g] = "run" => batch'[g] # Nil
    BY DEF TypeOK, LocalAt
  <2> QED BY <2>1, <2>2, <2>3 DEF TypeOK
<1>2. OneCombiner' /\ CallAt' /\ LocalAt'
  BY DEF OneCombiner, TypeOK, Combining, LocalAt, CallAt
<1>5. RunningAt' /\ InHand'
  BY DEF RunningAt, TypeOK, InHand, Serving, CallAt
<1>7. Links'
  BY DEF Links, TypeOK, Linked, Combining, OneCombiner, RunningAt
<1> QED BY <1>1, <1>2, <1>5, <1>7

\* The combiner enters its own section: no other one runs.
LEMMA RunOwnKeeps ==
  ASSUME IndInv, NEW f \in Fibers, RunOwn(f)
  PROVE  IndInv'
<1> USE NilAssumption, CallsAssumption, HeadWords DEF IndInv, RunOwn, Goto, EnterSection
<1>1. TypeOK' /\ OneCombiner' /\ CallAt' /\ LocalAt' /\ RunningAt' /\ InHand' /\ Links'
  BY DEF TypeOK, Labels, OneCombiner, Combining, CallAt, LocalAt, RunningAt, InHand, Serving,
     Links, Linked
<1> QED BY <1>1

\* The combiner leaves its own section.
LEMMA RunOwnEndKeeps ==
  ASSUME IndInv, NEW f \in Fibers, RunOwnEnd(f)
  PROVE  IndInv'
<1> USE NilAssumption, CallsAssumption, HeadWords DEF IndInv, RunOwnEnd, Goto, LoadHead, LeaveSection
<1>1. TypeOK' /\ OneCombiner' /\ CallAt' /\ LocalAt' /\ RunningAt' /\ InHand' /\ Links'
  BY DEF TypeOK, Labels, OneCombiner, Combining, CallAt, LocalAt, RunningAt, InHand, Serving,
     Links, Linked
<1> QED BY <1>1

\* The list that was pushed becomes the batch, or the combiner leaves.
LEMMA TakeBatchKeeps ==
  ASSUME IndInv, NEW f \in Fibers, TakeBatch(f)
  PROVE  IndInv'
<1> USE NilAssumption, CallsAssumption, HeadWords
    DEF IndInv, TakeBatch, Goto, LoadHead, CompareExchange, CompareExchangeFails, Return
<1>1. TypeOK'
  BY SMTT(30) DEF TypeOK, Labels, OneCombiner, Combining
<1>2. OneCombiner' /\ CallAt' /\ LocalAt'
  BY DEF OneCombiner, TypeOK, Combining, CallAt, LocalAt
<1>5. RunningAt' /\ InHand'
  BY DEF RunningAt, TypeOK, InHand, Serving
<1>7. Links'
  <2>0. pc[f] = "takeCas" /\ \A g \in Fibers : Combining(g) => g = f
    BY DEF OneCombiner, Combining
  <2>1. \A g \in Fibers : Linked(g)' <=> Linked(g)
    BY <2>0 DEF TypeOK, Linked
  <2>2. \A g \in Fibers : Combining(g)' => g = f
    BY <2>0 DEF TypeOK, Combining
  <2>3. CASE head' = Free /\ old[f] = Dummy /\ ~Combining(f)' /\ next' = next
    BY <2>1, <2>2, <2>3 DEF Links, TypeOK
  <2>4. CASE head' = Dummy /\ batch' = [batch EXCEPT ![f] = head.top] /\ next' = next
    BY <2>1, <2>2, <2>4 DEF Links, TypeOK
  <2>5. CASE head' = head /\ batch' = batch /\ pc' = pc /\ next' = next
    BY <2>0, <2>1, <2>2, <2>5 DEF Links, TypeOK, Combining
  <2>6. old[f] = Dummy /\ pc' = [pc EXCEPT ![f] = "idle"] => ~Combining(f)'
    BY DEF TypeOK, Combining
  <2> QED BY <2>3, <2>4, <2>5, <2>6
<1> QED BY <1>1, <1>2, <1>5, <1>7

\* The first waiter of the batch goes into the hands of the combiner.
LEMMA RunKeeps ==
  ASSUME IndInv, NEW f \in Fibers, Run(f)
  PROVE  IndInv'
<1> USE NilAssumption, CallsAssumption, HeadWords DEF IndInv, Run, Goto, EnterSection
<1>1. TypeOK' /\ OneCombiner' /\ CallAt' /\ LocalAt' /\ RunningAt' /\ InHand' /\ Links'
  BY SMTT(30) DEF TypeOK, Labels, OneCombiner, Combining, CallAt, LocalAt, RunningAt, InHand, Serving,
     Links, Linked
<1> QED BY <1>1

\* The section of the waiter has been run.
LEMMA RunEndKeeps ==
  ASSUME IndInv, NEW f \in Fibers, RunEnd(f)
  PROVE  IndInv'
<1> USE NilAssumption, CallsAssumption, HeadWords DEF IndInv, RunEnd, Goto, LoadHead, LeaveSection
<1>1. TypeOK' /\ OneCombiner' /\ CallAt' /\ LocalAt' /\ RunningAt' /\ InHand' /\ Links'
  BY SMTT(30) DEF TypeOK, Labels, InHand, Serving, OneCombiner, Combining, CallAt, LocalAt, RunningAt,
     Links, Linked
<1> QED BY <1>1

\* The combiner of a batch that is done clears the busy bit.
LEMMA HandOffKeeps ==
  ASSUME IndInv, NEW f \in Fibers, HandOff(f)
  PROVE  IndInv'
<1> USE NilAssumption, CallsAssumption, HeadWords
    DEF IndInv, HandOff, Goto, LoadHead, CompareExchange, CompareExchangeFails
<1>1. TypeOK'
  BY DEF TypeOK, Labels
<1>2. OneCombiner' /\ CallAt' /\ LocalAt' /\ RunningAt'
  BY DEF OneCombiner, TypeOK, Combining, LocalAt, CallAt, RunningAt
<1>6. InHand' /\ Links'
  BY DEF InHand, TypeOK, Serving, Links, Linked, Combining
<1> QED BY <1>1, <1>2, <1>6

\* The fiber of the waiter that was served runs again, and the waiter is gone.
LEMMA WakeKeeps ==
  ASSUME IndInv, NEW f \in Fibers, Wake(f)
  PROVE  IndInv'
<1> USE DEF IndInv
<1> DEFINE w == current[f]
<1>0. /\ pc[f] = "wake" /\ w \in Fibers /\ pc[w] = "parked" /\ w # f /\ call[w] = "served"
      /\ pc' \in [Fibers -> Labels] /\ pc'[w] = "resumed"
      /\ pc'[f] = IF batch[f] = Nil THEN "idle" ELSE "run"
      /\ \A g \in Fibers \ {f, w} : pc'[g] = pc[g]
      /\ call' \in [Fibers -> {"none", "pending", "served"}]
      /\ call'[f] = IF batch[f] = Nil THEN "none" ELSE call[f]
      /\ \A g \in Fibers \ {f} : call'[g] = call[g]
      /\ UNCHANGED <<head, next, old, batch, current, todo, running>>
  BY DEF TypeOK, Labels, InHand, Serving, Wake
<1>c. \A g \in Fibers : Combining(g)' <=> Combining(g)
  BY Zenon, <1>0 DEF Combining
<1>l. \A g \in Fibers : Linked(g)' <=> Linked(g)
  BY Zenon, <1>0 DEF Linked
<1>s. \A g \in Fibers : Serving(g)' => Serving(g) /\ g # f /\ pc'[g] = pc[g]
  BY <1>0 DEF Serving
<1>1. TypeOK' /\ OneCombiner' /\ CallAt' /\ LocalAt'
  BY <1>0, <1>c DEF TypeOK, OneCombiner, CallAt, LocalAt
<1>5. RunningAt'
  BY Zenon, <1>0 DEF RunningAt
<1>6. InHand'
  <2>1. \A g \in Fibers : Serving(g)' => current[g] # w /\ current[g] # f
    BY <1>0, <1>s DEF InHand, Serving
  <2> QED BY <1>0, <1>s, <2>1 DEF InHand
<1>7. Links'
  <2>1. head'.top # Nil => Linked(head.top)'
    BY <1>0, <1>l, HeadWords DEF Links, TypeOK
  <2>2. \A g \in Fibers : Combining(g)' /\ batch[g] # Nil => Linked(batch[g])' /\ batch[g] # head.top
    BY <1>0, <1>c, <1>l DEF Links, TypeOK
  <2>3. ASSUME NEW v \in Fibers, Linked(v)', next[v] # Nil
        PROVE  /\ Linked(next[v])' /\ next[v] # head.top
               /\ \A g \in Fibers : Combining(g)' => batch[g] # next[v]
               /\ \A u \in Fibers : Linked(u)' /\ next[u] = next[v] => u = v
    <3>1. Linked(v) /\ next[v] \in Fibers
      BY <1>l, <2>3 DEF TypeOK
    <3>2. /\ Linked(next[v]) /\ next[v] # head.top
          /\ \A g \in Fibers : Combining(g) => batch[g] # next[v]
          /\ \A u \in Fibers : Linked(u) /\ next[u] = next[v] => u = v
      BY <2>3, <3>1 DEF Links
    <3> QED BY <1>0, <1>c, <1>l, <3>1, <3>2
  <2> QED BY SMTT(30), <1>0, <2>1, <2>2, <2>3 DEF Links
<1> QED BY <1>1, <1>5, <1>6, <1>7

-----------------------------------------------------------------------------
(* The lists. *)

\* The waiters from w on are in any set that has w and is closed under next.
LEMMA WaitersWithin ==
  ASSUME NEW S \in SUBSET Fibers, Closed(S), NEW w \in S \union {Nil}
  PROVE  Waiters(w) \subseteq S
BY DEF Waiters

\* nullptr is the empty list.
LEMMA WaitersNil == Waiters(Nil) = {}
<1>1. Closed({})
  BY DEF Closed
<1> QED BY <1>1, WaitersWithin

\* A list has its first waiter and, with each of its waiters, the next one.
LEMMA WaitersClosed ==
  ASSUME TypeOK, NEW w \in Fibers \union {Nil}
  PROVE  Closed(Waiters(w)) /\ w \in Waiters(w) \union {Nil}
BY NilAssumption DEF Waiters, Closed, TypeOK

\* Every waiter of a list is its first one or the next of another one in it.
LEMMA WaitersPrevious ==
  ASSUME TypeOK, NEW w \in Fibers \union {Nil}, NEW v \in Waiters(w)
  PROVE  v = w \/ \E u \in Waiters(w) : next[u] = v
<1> DEFINE S == {x \in Waiters(w) : x = w \/ \E u \in Waiters(w) : next[u] = x}
<1>1. Waiters(w) \in SUBSET Fibers
  BY DEF Waiters
<1>2. Closed(Waiters(w)) /\ w \in Waiters(w) \union {Nil}
  BY WaitersClosed
<1>3. Closed(S) /\ w \in S \union {Nil}
  BY <1>1, <1>2 DEF Closed
<1>4. v \in S
  BY <1>1, <1>3, WaitersWithin
<1> QED BY <1>4

\* A list is its first waiter and the list from the next one on.
LEMMA WaitersNext ==
  ASSUME TypeOK, NEW w \in Fibers
  PROVE  Waiters(w) = {w} \union Waiters(next[w])
<1> DEFINE T == Waiters(next[w])
<1>1. next[w] \in Fibers \union {Nil} /\ T \in SUBSET Fibers /\ Waiters(w) \in SUBSET Fibers
  BY DEF TypeOK, Waiters
<1>2. Closed(T) /\ next[w] \in T \union {Nil}
  BY <1>1, WaitersClosed
<1>3. Closed({w} \union T)
  BY <1>2 DEF Closed
<1>4. Waiters(w) \subseteq {w} \union T
  BY <1>1, <1>3, WaitersWithin
<1>5. Closed(Waiters(w)) /\ w \in Waiters(w)
  BY NilAssumption, WaitersClosed
<1>6. next[w] \in Waiters(w) \union {Nil}
  BY <1>5 DEF Closed
<1>7. T \subseteq Waiters(w)
  BY <1>1, <1>5, <1>6, WaitersWithin
<1> QED BY <1>4, <1>5, <1>7

\* A step that changes no next changes no list.
LEMMA WaitersFrame ==
  ASSUME next' = next
  PROVE  \A v \in Fibers \union {Nil} : Waiters(v)' = Waiters(v)
BY DEF Waiters, Closed

\* The lists that a thread can get at hold linked waiters.
LEMMA WaitersLinked ==
  ASSUME IndInv
  PROVE  /\ \A w \in Waiters(head.top) : Linked(w)
         /\ \A f \in Fibers : Combining(f) => \A w \in Waiters(batch[f]) : Linked(w)
<1> DEFINE S == {w \in Fibers : Linked(w)}
<1>1. S \in SUBSET Fibers /\ Closed(S)
  BY DEF IndInv, Links, Closed, TypeOK
<1>2. head.top \in S \union {Nil}
  BY HeadWords DEF IndInv, Links, TypeOK
<1>3. \A f \in Fibers : Combining(f) => batch[f] \in S \union {Nil}
  BY DEF IndInv, Links, TypeOK
<1>4. Waiters(head.top) \subseteq S
  BY <1>1, <1>2, WaitersWithin
<1>5. \A f \in Fibers : Combining(f) => Waiters(batch[f]) \subseteq S
  BY <1>1, <1>3, WaitersWithin
<1> QED BY <1>4, <1>5

\* The list at the head and the batch of the combiner have no waiter in common.
LEMMA ListsDisjoint ==
  ASSUME IndInv, NEW f \in Fibers, Combining(f)
  PROVE  Waiters(head.top) \intersect Waiters(batch[f]) = {}
<1> DEFINE P == Waiters(head.top)
           B == Waiters(batch[f])
           S == P \ B
<1>0. /\ TypeOK /\ head.top \in Fibers \union {Nil} /\ batch[f] \in Fibers \union {Nil}
      /\ P \in SUBSET Fibers /\ B \in SUBSET Fibers
  BY HeadWords DEF IndInv, TypeOK, Waiters
<1>1. (\A w \in P : Linked(w)) /\ (\A w \in B : Linked(w))
  BY WaitersLinked
<1>2. Closed(P) /\ head.top \in P \union {Nil}
  BY <1>0, WaitersClosed
<1>3. \A v \in B : v = batch[f] \/ \E u \in B : next[u] = v
  BY <1>0, WaitersPrevious
<1> HIDE DEF P, B
<1>4. head.top \notin B
  BY <1>0, <1>1, <1>3, NilAssumption DEF IndInv, Links
<1>5. ASSUME NEW u \in S, next[u] # Nil
      PROVE  next[u] \in S
  <2>1. u \in Fibers /\ Linked(u) /\ u \in P /\ u \notin B /\ next[u] \in P
    BY <1>0, <1>1, <1>2, <1>5 DEF Closed
  <2>2. next[u] # batch[f]
    BY <1>5, <2>1 DEF IndInv, Links
  <2>3. \A x \in B : next[x] # next[u]
    BY <1>0, <1>1, <1>5, <2>1 DEF IndInv, Links
  <2> QED BY <1>3, <2>1, <2>2, <2>3
<1>6. S \in SUBSET Fibers /\ Closed(S) /\ head.top \in S \union {Nil}
  BY <1>0, <1>2, <1>4, <1>5 DEF Closed
<1>7. P \subseteq S
  BY <1>6, WaitersWithin DEF P
<1> QED BY <1>7 DEF P, B

-----------------------------------------------------------------------------
(* Every step keeps hold of the waiters. *)

\* A call begins: nobody is linked who was not.
LEMMA CombineKeepsLists ==
  ASSUME IndInv, ListInv, NEW f \in Fibers, Combine(f)
  PROVE  ListInv'
<1> USE NilAssumption, HeadWords DEF IndInv, ListInv, Combine, Goto, LoadHead
<1>0. \A v \in Fibers \union {Nil} : Waiters(v)' = Waiters(v)
  BY WaitersFrame
<1>1. Reached'
  BY <1>0, WaitersNil DEF Reached, TypeOK, Linked, Combining
<1>2. ServedInHand' /\ NoBatchLeft' /\ Adopted'
  BY DEF ServedInHand, Serving, NoBatchLeft, Adopted
<1> QED BY <1>1, <1>2

\* The first combiner finds no list.
LEMMA CombineCasKeepsLists ==
  ASSUME IndInv, ListInv, NEW f \in Fibers, CombineCas(f)
  PROVE  ListInv'
<1> USE NilAssumption, HeadWords DEF IndInv, ListInv, CombineCas, Goto, LoadHead, CompareExchange, CompareExchangeFails
<1>0. \A v \in Fibers \union {Nil} : Waiters(v)' = Waiters(v)
  BY WaitersFrame
<1>1. Reached'
  BY <1>0, WaitersNil DEF Reached, TypeOK, LocalAt, Linked, Combining
<1>2. ServedInHand' /\ NoBatchLeft' /\ Adopted'
  BY DEF ServedInHand, TypeOK, Serving, NoBatchLeft, Adopted
<1> QED BY <1>1, <1>2

\* Loading the head moves no waiter.
LEMMA AwaitKeepsLists ==
  ASSUME IndInv, ListInv, NEW f \in Fibers, Await(f)
  PROVE  ListInv'
<1> USE NilAssumption, HeadWords DEF IndInv, ListInv, Await, Goto, LoadHead
<1>0. \A v \in Fibers \union {Nil} : Waiters(v)' = Waiters(v)
  BY WaitersFrame
<1>1. Reached'
  BY <1>0, WaitersNil DEF Reached, TypeOK, Linked, Combining
<1>2. ServedInHand' /\ NoBatchLeft' /\ Adopted'
  BY DEF ServedInHand, Serving, NoBatchLeft, Adopted
<1> QED BY <1>1, <1>2

\* The list at the head becomes the batch of the new combiner.
LEMMA AwaitOwnKeepsLists ==
  ASSUME IndInv, ListInv, NEW f \in Fibers, AwaitOwn(f)
  PROVE  ListInv'
<1> USE NilAssumption, HeadWords DEF IndInv, ListInv, AwaitOwn, Goto, LoadHead, CompareExchange, CompareExchangeFails
<1>0. \A v \in Fibers \union {Nil} : Waiters(v)' = Waiters(v)
  BY WaitersFrame
<1>1. Reached'
  BY <1>0, WaitersNil DEF Reached, TypeOK, Linked, Combining
<1>2. ServedInHand' /\ NoBatchLeft'
  BY DEF ServedInHand, TypeOK, Serving, NoBatchLeft
<1>4. Adopted'
  BY DEF Adopted, TypeOK
<1> QED BY Zenon, <1>1, <1>2, <1>4

\* Who finds a list that nobody owns has seen it when it goes on to take it.
LEMMA ResumeKeepsLists ==
  ASSUME IndInv, ListInv, NEW f \in Fibers, Resume(f)
  PROVE  ListInv'
<1> USE NilAssumption, HeadWords DEF IndInv, ListInv, Resume, Goto, LoadHead, Return
<1>0. \A v \in Fibers \union {Nil} : Waiters(v)' = Waiters(v)
  BY WaitersFrame
<1>1. Reached'
  BY <1>0, WaitersNil DEF Reached, TypeOK, Linked, Combining
<1>2. ServedInHand'
  BY DEF ServedInHand, TypeOK, Serving
<1>3. NoBatchLeft' /\ Adopted'
  BY DEF NoBatchLeft, TypeOK, Adopted
<1> QED BY <1>1, <1>2, <1>3

\* The list at the head becomes the batch of the one who adopts it.
LEMMA AdoptCasKeepsLists ==
  ASSUME IndInv, ListInv, NEW f \in Fibers, AdoptCas(f)
  PROVE  ListInv'
<1> USE NilAssumption, HeadWords DEF IndInv, ListInv, AdoptCas, Goto, LoadHead, CompareExchange, CompareExchangeFails, Return
<1>0. \A v \in Fibers \union {Nil} : Waiters(v)' = Waiters(v)
  BY WaitersFrame
<1>1. Reached'
  BY SMTT(30), <1>0, WaitersNil DEF Reached, TypeOK, OneCombiner, Linked, Combining
<1>2. ServedInHand'
  BY DEF ServedInHand, TypeOK, Serving
<1>3. NoBatchLeft' /\ Adopted'
  BY DEF NoBatchLeft, TypeOK, Adopted
<1> QED BY <1>1, <1>2, <1>3

\* The section of the combiner itself.
LEMMA RunOwnKeepsLists ==
  ASSUME IndInv, ListInv, NEW f \in Fibers, RunOwn(f)
  PROVE  ListInv'
<1> USE NilAssumption, HeadWords DEF IndInv, ListInv, RunOwn, Goto, EnterSection
<1>0. \A v \in Fibers \union {Nil} : Waiters(v)' = Waiters(v)
  BY WaitersFrame
<1>1. Reached' /\ ServedInHand' /\ NoBatchLeft' /\ Adopted'
  BY SMTT(30), <1>0, WaitersNil DEF Reached, TypeOK, OneCombiner, Linked, Combining, RunningAt,
     ServedInHand, Serving, NoBatchLeft, Adopted
<1> QED BY <1>1

\* The section of the combiner itself ends.
LEMMA RunOwnEndKeepsLists ==
  ASSUME IndInv, ListInv, NEW f \in Fibers, RunOwnEnd(f)
  PROVE  ListInv'
<1> USE NilAssumption, HeadWords DEF IndInv, ListInv, RunOwnEnd, Goto, LoadHead, LeaveSection
<1>0. \A v \in Fibers \union {Nil} : Waiters(v)' = Waiters(v)
  BY WaitersFrame
<1>1. Reached' /\ ServedInHand' /\ NoBatchLeft' /\ Adopted'
  BY SMTT(30), <1>0, WaitersNil DEF Reached, TypeOK, Linked, Combining, RunningAt, ServedInHand, Serving,
     NoBatchLeft, Adopted
<1> QED BY <1>1

\* The list at the head becomes the batch, which was empty.
LEMMA TakeBatchKeepsLists ==
  ASSUME IndInv, ListInv, NEW f \in Fibers, TakeBatch(f)
  PROVE  ListInv'
<1> USE NilAssumption, HeadWords DEF IndInv, ListInv, TakeBatch, Goto, LoadHead, CompareExchange, CompareExchangeFails, Return
<1>0. \A v \in Fibers \union {Nil} : Waiters(v)' = Waiters(v)
  BY Zenon, WaitersFrame
<1>1. Reached'
  BY SMTT(30), <1>0, WaitersNil DEF Reached, TypeOK, NoBatchLeft, Linked, Combining
<1>2. ServedInHand'
  BY SMTT(30) DEF ServedInHand, TypeOK, Serving
<1>3. NoBatchLeft' /\ Adopted'
  BY DEF NoBatchLeft, TypeOK, Adopted
<1> QED BY <1>1, <1>2, <1>3

\* The waiter that was served stays in the hands of the combiner.
LEMMA RunEndKeepsLists ==
  ASSUME IndInv, ListInv, NEW f \in Fibers, RunEnd(f)
  PROVE  ListInv'
<1> USE NilAssumption, HeadWords DEF IndInv, ListInv, RunEnd, Goto, LoadHead, LeaveSection
<1>0. \A v \in Fibers \union {Nil} : Waiters(v)' = Waiters(v)
  BY Zenon, WaitersFrame
<1>1. Reached' /\ ServedInHand'
  BY SMTT(30), <1>0, WaitersNil DEF Reached, TypeOK, Linked, Combining, RunningAt, ServedInHand, Serving
<1>3. NoBatchLeft' /\ Adopted'
  BY DEF NoBatchLeft, Adopted
<1> QED BY <1>1, <1>3

\* The combiner that clears the busy bit has served its batch.
LEMMA HandOffKeepsLists ==
  ASSUME IndInv, ListInv, NEW f \in Fibers, HandOff(f)
  PROVE  ListInv'
<1> USE NilAssumption, HeadWords DEF IndInv, ListInv, HandOff, Goto, LoadHead, CompareExchange, CompareExchangeFails
<1>0. \A v \in Fibers \union {Nil} : Waiters(v)' = Waiters(v)
  BY WaitersFrame
<1>1. Reached'
  BY SMTT(30), <1>0, WaitersNil DEF Reached, TypeOK, Linked, Combining
<1>2. ServedInHand' /\ NoBatchLeft'
  BY DEF ServedInHand, TypeOK, Serving, NoBatchLeft
<1>4. Adopted'
  BY SMTT(30) DEF Adopted, TypeOK, LocalAt
<1> QED BY <1>1, <1>2, <1>4

\* Only the waiter in hand is let go; its fiber will look for a list.
LEMMA WakeKeepsLists ==
  ASSUME IndInv, ListInv, NEW f \in Fibers, Wake(f)
  PROVE  ListInv'
<1> USE NilAssumption, HeadWords DEF IndInv, ListInv, Wake
<1>0. \A v \in Fibers \union {Nil} : Waiters(v)' = Waiters(v)
  BY Zenon, WaitersFrame
<1>1. Reached'
  BY SMTT(30), <1>0, WaitersNil DEF Reached, TypeOK, OneCombiner, Linked, Combining, InHand, Serving
<1>2. ServedInHand'
  BY SMTT(30) DEF ServedInHand, TypeOK, Serving, InHand
<1>3. NoBatchLeft'
  BY Zenon DEF NoBatchLeft, TypeOK
<1>4. Adopted'
  BY SMTT(30) DEF Adopted, TypeOK, InHand, Serving
<1> QED BY <1>1, <1>2, <1>3, <1>4

\* The waiter that is pushed changes no list but becomes the first of the one at
\* the head.
LEMMA AwaitPushKeepsLists ==
  ASSUME IndInv, IndInv', ListInv, NEW f \in Fibers, AwaitPush(f)
  PROVE  ListInv'
<1> USE NilAssumption, HeadWords DEF IndInv, ListInv, AwaitPush, Goto, LoadHead, CompareExchange, CompareExchangeFails
<1>1. ~Linked(f) /\ \A u \in Fibers \ {f} : next'[u] = next[u] /\ (Linked(u)' <=> Linked(u))
  BY DEF TypeOK, Linked
<1>2. ASSUME NEW v \in Fibers \union {Nil}, v = Nil \/ Linked(v), NEW w \in Waiters(v)
      PROVE  w \in Waiters(v)'
  <2>1. ASSUME NEW S \in SUBSET Fibers, Closed(S)', v \in S \union {Nil}
        PROVE  w \in S
    <3> DEFINE T == {u \in S : Linked(u)}
    <3>1. Closed(T)
      <4> SUFFICES ASSUME NEW u \in T, next[u] # Nil
                   PROVE  next[u] \in T
        BY Zenon DEF Closed
      <4>1. u \in Fibers /\ u \in S /\ Linked(u) /\ u # f
        BY Zenon, <1>1
      <4>2. Linked(next[u])
        BY Zenon, <4>1 DEF Links
      <4>3. next'[u] \in S \union {Nil}
        BY <2>1, <4>1 DEF Closed
      <4> QED BY Zenon, <1>1, <4>1, <4>2, <4>3
    <3>2. T \in SUBSET Fibers /\ v \in T \union {Nil}
      BY Zenon, <1>2, <2>1
    <3> QED BY <1>2, <3>1, <3>2, WaitersWithin
  <2> QED BY Zenon, <1>2, <2>1 DEF Waiters
<1>3. head.top = Nil \/ Linked(head.top)
  BY Zenon DEF Links
<1>4. \A g \in Fibers : Combining(g) => batch[g] = Nil \/ Linked(batch[g])
  BY Zenon DEF Links
<1>5. \A g \in Fibers : Combining(g)' <=> Combining(g)
  BY SMTT(30) DEF Combining, TypeOK
<1>6. head.top \in Fibers \union {Nil} /\ \A g \in Fibers : batch[g] \in Fibers \union {Nil} /\ batch'[g] = batch[g]
  BY Zenon DEF TypeOK
<1>7. ASSUME NEW g \in Fibers, Combining(g), NEW w \in Waiters(batch[g])
      PROVE  \E h \in Fibers : Combining(h)' /\ w \in Waiters(batch[h])'
  BY Zenon, <1>2, <1>4, <1>5, <1>6, <1>7
<1>8. ASSUME NEW w \in Waiters(head.top)
      PROVE  w \in Waiters(head.top)'
  <2>1. CASE head' = head
    BY Zenon, <1>2, <1>3, <1>6, <1>8, <2>1
  <2>2. CASE head' # head
    <3>1. head'.top = f /\ next'[f] = head.top
      BY SMTT(30), <2>2 DEF TypeOK
    <3>2. w \in Fibers /\ \A S \in SUBSET Fibers : Closed(S)' /\ head.top \in S \union {Nil} => w \in S
      BY Zenon, <1>2, <1>3, <1>6, <1>8 DEF Waiters
    <3>3. \A S \in SUBSET Fibers : Closed(S)' /\ f \in S => head.top \in S \union {Nil}
      BY Zenon, <3>1 DEF Closed
    <3> QED BY <3>1, <3>2, <3>3 DEF Waiters
  <2> QED BY Zenon, <2>1, <2>2
<1>9. Reached'
  <2> SUFFICES ASSUME NEW w \in Fibers, Linked(w)'
               PROVE  \/ w \in Waiters(head.top)'
                      \/ \E h \in Fibers : Combining(h)' /\ w \in Waiters(batch[h])'
    BY Zenon DEF Reached
  <2>1. CASE w = f
    <3>1. head'.top = f
      BY SMTT(30), <1>1, <2>1 DEF TypeOK, Linked
    <3> QED BY Zenon, <2>1, <3>1 DEF Waiters
  <2>2. CASE w # f
    BY ZenonT(40), <1>1, <1>7, <1>8, <2>2 DEF Reached
  <2> QED BY Zenon, <2>1, <2>2
<1>10. ServedInHand' /\ NoBatchLeft' /\ Adopted'
  BY SMTT(30) DEF ServedInHand, TypeOK, Serving, CallAt, NoBatchLeft, Adopted
<1> QED BY <1>9, <1>10

\* The first waiter of the batch goes into the hands of the combiner; the others
\* are still in the batch.
LEMMA RunKeepsLists ==
  ASSUME IndInv, ListInv, NEW f \in Fibers, Run(f)
  PROVE  ListInv'
<1> USE NilAssumption, HeadWords DEF IndInv, ListInv, Run, Goto, EnterSection
<1>0. \A v \in Fibers \union {Nil} : Waiters(v)' = Waiters(v)
  BY Zenon, WaitersFrame
<1>1. Reached'
  <2>1. batch[f] \in Fibers /\ Waiters(batch[f]) = {batch[f]} \union Waiters(next[batch[f]])
    BY Zenon, WaitersNext DEF TypeOK
  <2>2. running' = batch[f] /\ running = Nil
    BY Zenon DEF RunningAt, OneCombiner, Combining
  <2>3. \A w \in Fibers : Linked(w)' => Linked(w) /\ w # batch[f]
    BY Zenon, <2>1, <2>2 DEF Linked, TypeOK
  <2>4. \A g \in Fibers : (Combining(g) <=> g = f) /\ (Combining(g)' <=> g = f)
    BY Zenon DEF OneCombiner, Combining, TypeOK
  <2>5. head'.top = head.top /\ head.top \in Fibers \union {Nil} /\ batch'[f] = next[batch[f]]
        /\ next[batch[f]] \in Fibers \union {Nil}
    BY Zenon, <2>1 DEF TypeOK
  <2>6. \A w \in Fibers : Linked(w)' => w \in Waiters(head.top) \/ w \in Waiters(next[batch[f]])
    <3> SUFFICES ASSUME NEW w \in Fibers, Linked(w)'
                 PROVE  w \in Waiters(head.top) \/ w \in Waiters(next[batch[f]])
      BY Zenon
    <3>1. Linked(w) /\ w # batch[f]
      BY Zenon, <2>3
    <3>2. w \in Waiters(head.top) \/ w \in Waiters(batch[f])
      BY Zenon, <2>4, <3>1 DEF Reached
    <3> QED BY Zenon, <2>1, <3>1, <3>2
  <2>7. Waiters(head.top)' = Waiters(head.top) /\ Waiters(batch[f])' = Waiters(next[batch[f]])
    BY Zenon, <1>0, <2>5
  <2> QED BY Zenon, <2>4, <2>6, <2>7 DEF Reached
<1>2. ServedInHand' /\ NoBatchLeft' /\ Adopted'
  BY SMTT(30) DEF ServedInHand, Serving, NoBatchLeft, Adopted
<1> QED BY Zenon, <1>1, <1>2

-----------------------------------------------------------------------------
(* The theorems. *)

\* The invariant is inductive.
LEMMA Inductive == IndInv /\ [Next]_vars => IndInv'
<1> SUFFICES ASSUME IndInv, [Next]_vars
             PROVE  IndInv'
  OBVIOUS
<1>1. ASSUME NEW f \in Fibers, Step(f)
      PROVE  IndInv'
  BY <1>1, CombineKeeps, CombineCasKeeps, AwaitKeeps, AwaitOwnKeeps, AwaitPushKeeps, ResumeKeeps,
     AdoptCasKeeps, RunOwnKeeps, RunOwnEndKeeps, TakeBatchKeeps, RunKeeps, RunEndKeeps,
     HandOffKeeps, WakeKeeps DEF Step
<1>2. ASSUME UNCHANGED vars
      PROVE  IndInv'
  <2> USE <1>2 DEF vars, IndInv
  <2>1. TypeOK' /\ CallAt' /\ LocalAt' /\ RunningAt'
    BY SMTT(40) DEF TypeOK, CallAt, LocalAt, RunningAt
  <2>2. OneCombiner'
    BY ZenonT(30) DEF OneCombiner, Combining
  <2>3. InHand'
    BY ZenonT(30) DEF InHand, Serving
  <2>4. Links'
    BY SMTT(60) DEF Links, Linked, Combining
  <2> QED BY <2>1, <2>2, <2>3, <2>4
<1> QED BY Zenon, <1>1, <1>2 DEF Next, Finished

\* The invariant holds always.
LEMMA Invariant == Spec => []IndInv
BY Initial, Inductive, PTL DEF Spec

\* There is at most one combiner (Combine and ProcessBatch of
\* fiber/sync/strand.hpp), and the busy bit of waiters_head_ is set exactly
\* while there is one.
THEOREM Exclusive == Spec => []OneCombiner
<1>1. IndInv => OneCombiner
  BY DEF IndInv
<1> QED BY <1>1, Invariant, PTL

\* What a fiber has in its hands is in no list.
LEMMA HandNotLinked ==
  ASSUME IndInv, NEW f \in Fibers, Serving(f)
  PROVE  current[f] \in Fibers /\ pc[current[f]] = "parked" /\ ~Linked(current[f])
BY DEF IndInv, InHand, Serving, Linked, RunningAt

\* ProcessBatch never touches the waiter of a fiber that runs again: whatever is
\* reachable from waiters_head_ or from a batch, and whatever is about to be
\* scheduled, is on the stack of a suspended fiber and in one place only.
THEOREM NoDangling == Spec => []NoDanglingWaiter
<1>1. IndInv => NoDanglingWaiter
  <2> SUFFICES ASSUME IndInv
               PROVE  NoDanglingWaiter
    OBVIOUS
  <2>1. \A w \in Waiters(head.top) : Linked(w)
    BY WaitersLinked
  <2>2. \A f \in Fibers : Combining(f) => \A w \in Waiters(batch[f]) : Linked(w)
    BY WaitersLinked
  <2>3. \A f \in Fibers : Combining(f) => Waiters(head.top) \intersect Waiters(batch[f]) = {}
    BY ListsDisjoint
  <2>4. \A f \in Fibers : Serving(f) => pc[current[f]] = "parked" /\ ~Linked(current[f])
    BY HandNotLinked
  <2>5. \A f, g \in Fibers : Serving(f) /\ Serving(g) /\ current[f] = current[g] => f = g
    BY DEF IndInv, InHand
  <2>6. \A w \in Fibers : Linked(w) => pc[w] = "parked"
    BY DEF Linked
  <2>7. TypeOK
    BY DEF IndInv
  <2>8. Waiters(head.top) \subseteq Fibers /\ \A f \in Fibers : Waiters(batch[f]) \subseteq Fibers
    BY DEF Waiters
  <2>9. \A f \in Fibers : Serving(f) <=> pc[f] \in {"running", "handOffCas", "wake"}
    BY DEF Serving
  <2> QED BY SMTT(80), <2>1, <2>2, <2>3, <2>4, <2>5, <2>6, <2>7, <2>8, <2>9 DEF NoDanglingWaiter
<1> QED BY <1>1, Invariant, PTL

\* The lists start empty.
LEMMA ListsInitial == Init => ListInv
BY Zenon, HeadWords DEF Init, ListInv, Reached, ServedInHand, NoBatchLeft, Adopted, Linked

\* No step loses a waiter.
LEMMA ListsInductive == IndInv /\ IndInv' /\ ListInv /\ [Next]_vars => ListInv'
<1> SUFFICES ASSUME IndInv, IndInv', ListInv, [Next]_vars
             PROVE  ListInv'
  OBVIOUS
<1>1. ASSUME NEW f \in Fibers, Step(f)
      PROVE  ListInv'
  BY <1>1, CombineKeepsLists, CombineCasKeepsLists, AwaitKeepsLists, AwaitOwnKeepsLists,
     AwaitPushKeepsLists, ResumeKeepsLists, AdoptCasKeepsLists, RunOwnKeepsLists,
     RunOwnEndKeepsLists, TakeBatchKeepsLists, RunKeepsLists, RunEndKeepsLists,
     HandOffKeepsLists, WakeKeepsLists DEF Step
<1>2. ASSUME UNCHANGED vars
      PROVE  ListInv'
  <2> USE <1>2 DEF vars, ListInv
  <2>1. Reached'
    BY Zenon, WaitersFrame DEF Reached, Waiters, Closed, Linked, Combining
  <2>2. ServedInHand' /\ NoBatchLeft' /\ Adopted'
    BY ZenonT(30) DEF ServedInHand, Serving, NoBatchLeft, Adopted
  <2> QED BY <2>1, <2>2
<1> QED BY <1>1, <1>2 DEF Next, Finished

\* No suspended fiber is forgotten: its waiter is on the stack of waiters_head_,
\* in the batch of a combiner or in the hands of the one who wakes it, and a
\* stack without a combiner has a fiber that will adopt it.
THEOREM NoAbandoned == Spec => []NoAbandonedWaiter
<1>1. IndInv /\ ListInv => NoAbandonedWaiter
  <2> SUFFICES ASSUME IndInv, ListInv
               PROVE  NoAbandonedWaiter
    OBVIOUS
  <2>1. ASSUME NEW w \in Fibers, pc[w] = "parked"
        PROVE  \/ w \in Waiters(head.top)
               \/ \E f \in Fibers : Combining(f) /\ w \in Waiters(batch[f])
               \/ \E f \in Fibers : pc[f] \in {"running", "handOffCas", "wake"} /\ current[f] = w
    <3>1. CASE Linked(w)
      BY <3>1 DEF ListInv, Reached
    <3>2. CASE call[w] = "pending" /\ running = w
      <4>1. PICK f \in Fibers : pc[f] \in {"ownRunning", "running"} /\ current[f] = w
        BY <3>2, NilAssumption DEF IndInv, RunningAt
      <4>2. pc[f] = "running"
        BY <2>1, <4>1 DEF IndInv, RunningAt
      <4> QED BY <4>1, <4>2
    <3>3. CASE call[w] = "served"
      BY <2>1, <3>3 DEF ListInv, ServedInHand, Serving
    <3>4. call[w] = "pending" \/ call[w] = "served"
      BY <2>1 DEF IndInv, CallAt, TypeOK
    <3> QED BY <2>1, <3>1, <3>2, <3>3, <3>4 DEF Linked
  <2> QED BY Zenon, <2>1 DEF NoAbandonedWaiter, ListInv, Adopted
<1> QED BY <1>1, ListsInitial, ListsInductive, Invariant, PTL DEF Spec

\* A step of the strand is a step of CriticalSections, or changes neither the
\* calls nor the section that runs.
LEMMA StepRefines ==
  ASSUME IndInv, NEW f \in Fibers, Step(f)
  PROVE  [Sections!Next]_<<call, running>>
<1> USE NilAssumption DEF Sections!Next
<1>1. running # Nil => \E g \in Fibers : Combining(g) /\ pc[g] \in {"ownRunning", "running"}
  BY Zenon DEF IndInv, RunningAt, Combining
<1>2. Combining(f) /\ pc[f] \notin {"ownRunning", "running"} => running = Nil
  BY <1>1 DEF IndInv, OneCombiner
<1>3. CASE Combine(f)
  BY Zenon, <1>3 DEF IndInv, CallAt, Combine, Sections!Invoke
<1>4. CASE RunOwn(f)
  BY Zenon, <1>2, <1>4 DEF IndInv, CallAt, Combining, RunOwn, EnterSection, Sections!Enter
<1>5. CASE RunOwnEnd(f)
  BY ZenonT(40), <1>5 DEF IndInv, RunningAt, RunOwnEnd, LeaveSection, Sections!Leave
<1>6. CASE Run(f)
  <2>1. batch[f] \in Fibers /\ Linked(batch[f]) /\ running = Nil
    BY <1>2, <1>6 DEF IndInv, TypeOK, Links, Combining, Run
  <2> QED BY Zenon, <1>6, <2>1 DEF Linked, Run, EnterSection, Sections!Enter
<1>7. CASE RunEnd(f)
  BY ZenonT(40), <1>7 DEF IndInv, RunningAt, InHand, Serving, RunEnd, LeaveSection, Sections!Leave
<1>8. CASE TakeBatch(f) \/ Resume(f) \/ AdoptCas(f) \/ Wake(f)
  BY ZenonT(40), <1>8 DEF IndInv, CallAt, TakeBatch, Resume, AdoptCas, Wake, Return, Sections!Return
<1>9. CASE \/ CombineCas(f) \/ Await(f) \/ AwaitOwn(f) \/ AwaitPush(f) \/ HandOff(f)
  BY Zenon, <1>9 DEF CombineCas, Await, AwaitOwn, AwaitPush, HandOff
<1> QED BY <1>3, <1>4, <1>5, <1>6, <1>7, <1>8, <1>9 DEF Step

\* Each call of Combine has its critical section run exactly once, by whomever,
\* before it returns, and no two sections overlap.
THEOREM Refinement == Spec => ImplementsSections
<1>1. Init => Sections!Init
  BY DEF Init, Sections!Init
<1>2. IndInv /\ [Next]_vars => [Sections!Next]_<<call, running>>
  BY Zenon, StepRefines DEF Next, Finished, vars
<1> QED BY <1>1, <1>2, Invariant, PTL DEF Spec, ImplementsSections, Sections!Spec

=============================================================================
