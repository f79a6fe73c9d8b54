------------------------ MODULE MutexRuntimeProofs ------------------------
(***************************************************************************)
(* Proofs about the mutex, about the threads that run fibers, and about the *)
(* mutex among the threads, for any fibers, threads and numbers of calls.   *)
(*                                                                          *)
(* FifoMutex: mutual exclusion is inductive only together with              *)
(* WaitersAreParked (the fiber that Unlock makes the owner must not own the *)
(* mutex already) and GuardInv (whoever is between its step under lock_ and *)
(* the release of lock_ holds it, so that no second one gets there).        *)
(*                                                                          *)
(* FiberRuntime: FiberInOnePlace is nearly inductive.  What has to be added *)
(* is that a completed fiber is neither submitted nor kept by others, so    *)
(* that it is with the thread that saw it complete, and that only a fiber   *)
(* that is alive is run: Delete then leaves no other place, and Complete    *)
(* finds a fiber that has not completed before.  The mutex is not looked    *)
(* at: Parked, the parameter of FiberRuntime, is any set of fibers there.   *)
(*                                                                          *)
(* MutexRuntime: every step is a step of FifoMutex and a step of            *)
(* FiberRuntime, or leaves one of them alone.  What is proved of either     *)
(* holds of both together.                                                  *)
(***************************************************************************)
EXTENDS MutexRuntime, SequenceTheorems, TLAPS

\* lock_ is held to the end of TryLock and Unlock, and by nobody who is
\* outside of the mutex or on the way in.
GuardInv ==
  /\ \A f \in Fibers : pc[f] \in {"acquired", "failed", "unlocked"} => guard = f
  /\ \A f \in Fibers : guard = f => pc[f] \notin {"idle", "suspending"}

IndInv == TypeOK /\ MutualExclusion /\ WaitersAreParked /\ GuardInv

-----------------------------------------------------------------------------
(* The list of waiters. *)

\* Appending a fiber that was not listed keeps the list free of duplicates.
LEMMA AppendKeepsOnce ==
  ASSUME NEW s \in Seq(Fibers), NEW f \in Fibers,
         \A i \in 1 .. Len(s) : s[i] # f,
         \A i, j \in 1 .. Len(s) : s[i] = s[j] => i = j
  PROVE  /\ Append(s, f) \in Seq(Fibers)
         /\ \A g \in Fibers : (\E i \in 1 .. Len(Append(s, f)) : Append(s, f)[i] = g)
                                <=> g = f \/ \E i \in 1 .. Len(s) : s[i] = g
         /\ \A i, j \in 1 .. Len(Append(s, f)) : Append(s, f)[i] = Append(s, f)[j] => i = j
<1> DEFINE t == Append(s, f)
<1>1. t \in Seq(Fibers) /\ Len(t) = Len(s) + 1 /\ Len(s) \in Nat
  BY AppendProperties, LenProperties
<1>2. \A i \in 1 .. Len(s) : t[i] = s[i]
  BY AppendProperties
<1>3. t[Len(s) + 1] = f
  BY AppendProperties
<1> HIDE DEF t
<1>4. \A g \in Fibers : (\E i \in 1 .. Len(t) : t[i] = g) <=> g = f \/ \E i \in 1 .. Len(s) : s[i] = g
  <2> TAKE g \in Fibers
  <2>1. ASSUME NEW i \in 1 .. Len(t), t[i] = g
        PROVE  g = f \/ \E k \in 1 .. Len(s) : s[k] = g
    BY <1>1, <1>2, <1>3, <2>1
  <2>2. ASSUME NEW i \in 1 .. Len(s), s[i] = g
        PROVE  \E k \in 1 .. Len(t) : t[k] = g
    BY <1>1, <1>2, <2>2
  <2>3. ASSUME g = f
        PROVE  \E k \in 1 .. Len(t) : t[k] = g
    BY <1>1, <1>3, <2>3
  <2> QED BY <2>1, <2>2, <2>3
<1>5. \A i, j \in 1 .. Len(t) : t[i] = t[j] => i = j
  BY <1>1, <1>2, <1>3
<1> QED BY <1>1, <1>4, <1>5 DEF t

\* Taking the first waiter removes it from the list and nobody else.
LEMMA TailKeepsOnce ==
  ASSUME NEW s \in Seq(Fibers), s # <<>>,
         \A i, j \in 1 .. Len(s) : s[i] = s[j] => i = j
  PROVE  /\ Head(s) \in Fibers /\ \E i \in 1 .. Len(s) : s[i] = Head(s)
         /\ Tail(s) \in Seq(Fibers)
         /\ \A g \in Fibers : (\E i \in 1 .. Len(Tail(s)) : Tail(s)[i] = g)
                                <=> g # Head(s) /\ \E i \in 1 .. Len(s) : s[i] = g
         /\ \A i, j \in 1 .. Len(Tail(s)) : Tail(s)[i] = Tail(s)[j] => i = j
<1> DEFINE t == Tail(s)
           h == Head(s)
<1>1. /\ t \in Seq(Fibers) /\ h \in Fibers
      /\ Len(s) \in Nat \ {0} /\ Len(t) = Len(s) - 1
      /\ \A i \in 1 .. Len(t) : t[i] = s[i + 1]
  BY HeadTailProperties, LenProperties, EmptySeq
<1>2. h = s[1]
  OBVIOUS
<1> HIDE DEF t, h
<1>3. \A g \in Fibers : (\E i \in 1 .. Len(t) : t[i] = g) <=> g # h /\ \E i \in 1 .. Len(s) : s[i] = g
  <2> TAKE g \in Fibers
  <2>1. ASSUME NEW i \in 1 .. Len(t), t[i] = g
        PROVE  g # h /\ \E k \in 1 .. Len(s) : s[k] = g
    <3>1. i + 1 \in 1 .. Len(s) /\ i + 1 # 1 /\ 1 \in 1 .. Len(s) /\ s[i + 1] = g
      BY <1>1, <2>1
    <3> QED BY <3>1, <1>2
  <2>2. ASSUME NEW i \in 1 .. Len(s), s[i] = g, g # h
        PROVE  \E k \in 1 .. Len(t) : t[k] = g
    <3>1. i - 1 \in 1 .. Len(t) /\ (i - 1) + 1 = i
      BY <1>1, <1>2, <2>2
    <3>2. t[i - 1] = g
      BY <3>1, <1>1, <2>2
    <3> QED BY <3>1, <3>2
  <2> QED BY <2>1, <2>2
<1>4. \A i, j \in 1 .. Len(t) : t[i] = t[j] => i = j
  BY <1>1
<1>5. \E i \in 1 .. Len(s) : s[i] = h
  BY <1>1, <1>2
<1> QED BY <1>1, <1>3, <1>4, <1>5 DEF t, h

-----------------------------------------------------------------------------
(* The invariant. *)

\* The mutex that nobody has used.
LEMMA InitInv == Init => IndInv
<1> SUFFICES ASSUME Init PROVE IndInv
  OBVIOUS
<1>1. waiters = <<>> /\ Len(waiters) = 0 /\ waiters \in Seq(Fibers)
  BY EmptySeq DEF Init
<1>2. TypeOK
  BY Zenon, <1>1, MutexAssumption DEF Init, TypeOK
<1>3. MutualExclusion
  BY DEF Init, MutualExclusion, Owns
<1>4. WaitersAreParked
  BY <1>1 DEF Init, WaitersAreParked
<1>5. GuardInv
  BY MutexAssumption DEF Init, GuardInv
<1> QED BY <1>2, <1>3, <1>4, <1>5 DEF IndInv

\* A step that leaves locked_, the waiters and who owns and who is parked
\* alone preserves the first two invariants.
LEMMA FrameInv ==
  ASSUME MutualExclusion, WaitersAreParked, UNCHANGED <<locked, waiters>>,
         \A f \in Fibers : Owns(f)' <=> Owns(f),
         \A f \in Fibers : (pc[f] = "parked")' <=> pc[f] = "parked"
  PROVE  MutualExclusion' /\ WaitersAreParked'
<1>1. MutualExclusion'
  BY DEF MutualExclusion
<1>2. WaitersAreParked'
  BY DEF WaitersAreParked
<1> QED BY <1>1, <1>2

\* Lock of a fiber that is about to suspend itself.
LEMMA LockInv ==
  ASSUME IndInv, NEW f \in Fibers, Lock(f)
  PROVE  IndInv'
<1> USE DEF IndInv
<1>1. TypeOK'
  BY DEF TypeOK, Lock
<1>2. MutualExclusion' /\ WaitersAreParked'
  <2>1. \A g \in Fibers : (Owns(g)' <=> Owns(g)) /\ ((pc[g] = "parked")' <=> pc[g] = "parked")
    BY DEF TypeOK, Lock, Owns
  <2> QED BY <2>1, FrameInv DEF Lock
<1>3. GuardInv'
  BY DEF TypeOK, Lock, GuardInv
<1> QED BY <1>1, <1>2, <1>3

\* The awaiter of Lock takes the mutex or adds the fiber to the waiters.
LEMMA AwaitInv ==
  ASSUME IndInv, NEW f \in Fibers, Await(f)
  PROVE  IndInv'
<1> USE DEF IndInv
<1>1. GuardInv'
  BY MutexAssumption DEF TypeOK, Await, TakeOrPark, GuardInv
<1>2. \A i \in 1 .. Len(waiters) : waiters[i] # f
  BY DEF WaitersAreParked, Await, TakeOrPark
<1>3. CASE ~locked
  <2>1. pc' = [pc EXCEPT ![f] = "scheduled"] /\ waiters' = waiters /\ locked' = TRUE
    BY <1>3 DEF Await, TakeOrPark
  <2>2. TypeOK'
    BY <2>1 DEF TypeOK, Await, TakeOrPark
  <2>3. MutualExclusion'
    BY <1>3, <2>1 DEF TypeOK, MutualExclusion, Owns
  <2>4. WaitersAreParked'
    BY <1>2, <2>1 DEF TypeOK, WaitersAreParked, Await, TakeOrPark
  <2> QED BY <1>1, <2>2, <2>3, <2>4
<1>4. CASE locked
  <2>1. pc' = [pc EXCEPT ![f] = "parked"] /\ waiters' = Append(waiters, f) /\ locked'
    BY <1>4 DEF Await, TakeOrPark
  <2>2. waiters \in Seq(Fibers) /\ \A i, j \in 1 .. Len(waiters) : waiters[i] = waiters[j] => i = j
    BY DEF TypeOK, WaitersAreParked
  <2>3. /\ waiters' \in Seq(Fibers)
        /\ \A g \in Fibers : (\E i \in 1 .. Len(waiters') : waiters'[i] = g)
                               <=> g = f \/ \E i \in 1 .. Len(waiters) : waiters[i] = g
        /\ \A i, j \in 1 .. Len(waiters') : waiters'[i] = waiters'[j] => i = j
    BY <1>2, <2>1, <2>2, AppendKeepsOnce
  <2>4. TypeOK'
    BY <2>1, <2>3 DEF TypeOK, Await, TakeOrPark
  <2>5. MutualExclusion'
    <3>1. \A g \in Fibers : Owns(g)' <=> Owns(g)
      BY <2>1 DEF TypeOK, Owns, Await, TakeOrPark
    <3> QED BY <3>1, <2>1, <1>4 DEF MutualExclusion
  <2>6. WaitersAreParked'
    <3>1. \A g \in Fibers : pc'[g] = "parked" <=> g = f \/ pc[g] = "parked"
      BY <2>1 DEF TypeOK
    <3> QED BY <3>1, <2>3 DEF WaitersAreParked
  <2> QED BY <1>1, <2>4, <2>5, <2>6
<1> QED BY <1>3, <1>4

\* The fiber that was given the mutex runs again.
LEMMA ResumeInv ==
  ASSUME IndInv, NEW f \in Fibers, Resume(f)
  PROVE  IndInv'
<1> USE DEF IndInv
<1>1. TypeOK'
  BY DEF TypeOK, Resume
<1>2. MutualExclusion' /\ WaitersAreParked'
  <2>1. \A g \in Fibers : (Owns(g)' <=> Owns(g)) /\ ((pc[g] = "parked")' <=> pc[g] = "parked")
    BY DEF TypeOK, Resume, Owns
  <2> QED BY <2>1, FrameInv DEF Resume
<1>3. GuardInv'
  BY DEF TypeOK, Resume, GuardInv
<1> QED BY <1>1, <1>2, <1>3

\* TryLock takes a free mutex and fails otherwise.
LEMMA TryLockInv ==
  ASSUME IndInv, NEW f \in Fibers, TryLock(f)
  PROVE  IndInv'
<1> USE DEF IndInv
<1>1. TypeOK'
  BY DEF TypeOK, TryLock
<1>2. GuardInv'
  BY MutexAssumption DEF TypeOK, TryLock, GuardInv
<1>3. WaitersAreParked'
  <2>1. \A g \in Fibers : (pc[g] = "parked")' <=> pc[g] = "parked"
    BY DEF TypeOK, TryLock
  <2> QED BY <2>1 DEF WaitersAreParked, TryLock
<1>4. MutualExclusion'
  <2>1. CASE locked
    <3>1. \A g \in Fibers : Owns(g)' <=> Owns(g)
      BY <2>1 DEF TypeOK, Owns, TryLock
    <3> QED BY <3>1, <2>1 DEF MutualExclusion, TryLock
  <2>2. CASE ~locked
    <3>1. \A g \in Fibers : Owns(g)' <=> g = f
      BY <2>2 DEF TypeOK, Owns, TryLock, MutualExclusion
    <3> QED BY <3>1, <2>2 DEF MutualExclusion, TryLock
  <2> QED BY <2>1, <2>2
<1> QED BY <1>1, <1>2, <1>3, <1>4

\* A coroutine takes the mutex or suspends itself under lock_.
LEMMA CoroLockInv ==
  ASSUME IndInv, NEW f \in Fibers, CoroLock(f)
  PROVE  IndInv'
<1> USE DEF IndInv
<1>1. GuardInv'
  BY MutexAssumption DEF TypeOK, CoroLock, TakeOrPark, GuardInv
<1>2. \A i \in 1 .. Len(waiters) : waiters[i] # f
  BY DEF WaitersAreParked, CoroLock, TakeOrPark
<1>3. CASE ~locked
  <2>1. pc' = [pc EXCEPT ![f] = "acquired"] /\ waiters' = waiters /\ locked' = TRUE
    BY <1>3 DEF CoroLock, TakeOrPark
  <2>2. TypeOK'
    BY <2>1 DEF TypeOK, CoroLock, TakeOrPark
  <2>3. MutualExclusion'
    BY <1>3, <2>1 DEF TypeOK, MutualExclusion, Owns
  <2>4. WaitersAreParked'
    BY <1>2, <2>1 DEF TypeOK, WaitersAreParked, CoroLock, TakeOrPark
  <2> QED BY <1>1, <2>2, <2>3, <2>4
<1>4. CASE locked
  <2>1. pc' = [pc EXCEPT ![f] = "parked"] /\ waiters' = Append(waiters, f) /\ locked'
    BY <1>4 DEF CoroLock, TakeOrPark
  <2>2. waiters \in Seq(Fibers) /\ \A i, j \in 1 .. Len(waiters) : waiters[i] = waiters[j] => i = j
    BY DEF TypeOK, WaitersAreParked
  <2>3. /\ waiters' \in Seq(Fibers)
        /\ \A g \in Fibers : (\E i \in 1 .. Len(waiters') : waiters'[i] = g)
                               <=> g = f \/ \E i \in 1 .. Len(waiters) : waiters[i] = g
        /\ \A i, j \in 1 .. Len(waiters') : waiters'[i] = waiters'[j] => i = j
    BY <1>2, <2>1, <2>2, AppendKeepsOnce
  <2>4. TypeOK'
    BY <2>1, <2>3 DEF TypeOK, CoroLock, TakeOrPark
  <2>5. MutualExclusion'
    <3>1. \A g \in Fibers : Owns(g)' <=> Owns(g)
      BY <2>1 DEF TypeOK, Owns, CoroLock, TakeOrPark
    <3> QED BY <3>1, <2>1, <1>4 DEF MutualExclusion
  <2>6. WaitersAreParked'
    <3>1. \A g \in Fibers : pc'[g] = "parked" <=> g = f \/ pc[g] = "parked"
      BY <2>1 DEF TypeOK
    <3> QED BY <3>1, <2>3 DEF WaitersAreParked
  <2> QED BY <1>1, <2>4, <2>5, <2>6
<1> QED BY <1>3, <1>4

\* Unlock frees the mutex or makes the first waiter its owner.
LEMMA UnlockInv ==
  ASSUME IndInv, NEW f \in Fibers, Unlock(f)
  PROVE  IndInv'
<1> USE DEF IndInv
<1>1. Owns(f) /\ locked /\ \A g \in Fibers : Owns(g) => g = f
  BY DEF Unlock, PassOn, Owns, MutualExclusion
<1>2. CASE waiters = <<>>
  <2>1. pc' = [pc EXCEPT ![f] = "unlocked"] /\ waiters' = waiters /\ locked' = FALSE /\ guard' = f
    BY <1>2 DEF Unlock, PassOn
  <2>2. TypeOK'
    BY Zenon, <2>1 DEF TypeOK, Unlock, PassOn
  <2>3. MutualExclusion'
    <3>1. \A g \in Fibers : ~ Owns(g)'
      BY <1>1, <2>1 DEF TypeOK, Owns
    <3> QED BY <3>1, <2>1 DEF MutualExclusion
  <2>4. WaitersAreParked'
    <3>1. \A g \in Fibers : (pc[g] = "parked")' <=> pc[g] = "parked"
      BY <2>1 DEF TypeOK, Unlock, PassOn
    <3> QED BY <3>1, <2>1 DEF WaitersAreParked
  <2>5. GuardInv'
    BY <2>1, MutexAssumption DEF TypeOK, Unlock, PassOn, GuardInv
  <2> QED BY <2>2, <2>3, <2>4, <2>5
<1>3. CASE waiters # <<>>
  <2> DEFINE h == Head(waiters)
  <2>1. /\ pc' = [pc EXCEPT ![f] = "unlocked", ![h] = "scheduled"]
        /\ waiters' = Tail(waiters) /\ locked' = locked /\ guard' = f
    BY <1>3 DEF Unlock, PassOn
  <2>2. waiters \in Seq(Fibers) /\ \A i, j \in 1 .. Len(waiters) : waiters[i] = waiters[j] => i = j
    BY DEF TypeOK, WaitersAreParked
  <2>3. /\ h \in Fibers /\ \E i \in 1 .. Len(waiters) : waiters[i] = h
        /\ waiters' \in Seq(Fibers)
        /\ \A g \in Fibers : (\E i \in 1 .. Len(waiters') : waiters'[i] = g)
                               <=> g # h /\ \E i \in 1 .. Len(waiters) : waiters[i] = g
        /\ \A i, j \in 1 .. Len(waiters') : waiters'[i] = waiters'[j] => i = j
    BY <1>3, <2>1, <2>2, TailKeepsOnce
  <2> HIDE DEF h
  <2>4. pc[h] = "parked" /\ h # f
    BY <2>3 DEF WaitersAreParked, Unlock, PassOn
  <2>5. \A g \in Fibers : pc'[g] = IF g = h THEN "scheduled" ELSE IF g = f THEN "unlocked" ELSE pc[g]
    BY <2>1, <2>3, <2>4 DEF TypeOK
  <2>6. TypeOK'
    BY <2>1, <2>3 DEF TypeOK, Unlock, PassOn
  <2>7. MutualExclusion'
    <3>1. \A g \in Fibers : Owns(g)' <=> g = h
      BY <1>1, <2>5 DEF Owns
    <3> QED BY <3>1, <2>1, <2>3, <1>1 DEF MutualExclusion
  <2>8. WaitersAreParked'
    <3>1. \A g \in Fibers : pc'[g] = "parked" <=> g # h /\ pc[g] = "parked"
      BY <2>5 DEF Unlock, PassOn
    <3> QED BY <3>1, <2>3 DEF WaitersAreParked
  <2>9. GuardInv'
    BY <2>1, <2>5, MutexAssumption DEF TypeOK, Unlock, PassOn, GuardInv
  <2> QED BY <2>6, <2>7, <2>8, <2>9
<1> QED BY <1>2, <1>3

\* lock_ is released.
LEMMA ReleaseInv ==
  ASSUME IndInv, NEW f \in Fibers, Release(f)
  PROVE  IndInv'
<1> USE DEF IndInv
<1>1. \A g \in Fibers : pc'[g] = IF g # f THEN pc[g]
                                 ELSE IF pc[f] = "acquired" THEN "critical"
                                 ELSE IF pc[f] \in {"failed", "unlocked"} THEN "idle" ELSE pc[f]
  BY DEF TypeOK, Release
<1>2. TypeOK'
  <2>1. pc' \in [Fibers -> {"idle", "suspending", "parked", "scheduled", "critical",
                            "acquired", "failed", "unlocked"}]
    BY DEF TypeOK, Release
  <2> QED BY <2>1 DEF TypeOK, Release
<1>3. MutualExclusion' /\ WaitersAreParked'
  <2>1. \A g \in Fibers : (Owns(g)' <=> Owns(g)) /\ ((pc[g] = "parked")' <=> pc[g] = "parked")
    BY <1>1 DEF Owns
  <2> QED BY <2>1, FrameInv DEF Release
<1>4. GuardInv'
  <2>1. guard = f /\ guard' = Nobody
    BY DEF Release
  <2> QED BY <1>1, <2>1, MutexAssumption DEF GuardInv
<1> QED BY <1>2, <1>3, <1>4

\* Nothing happens.
LEMMA StutterInv == IndInv /\ UNCHANGED vars => IndInv'
BY DEF IndInv, TypeOK, MutualExclusion, Owns, WaitersAreParked, GuardInv, vars

\* The invariant holds in every reachable state.
THEOREM Invariance == Spec => []IndInv
<1>1. IndInv /\ [Next]_vars => IndInv'
  BY LockInv, AwaitInv, ResumeInv, TryLockInv, CoroLockInv, UnlockInv, ReleaseInv, StutterInv
     DEF Next, Continue, Finished
<1> QED BY <1>1, InitInv, PTL DEF Spec

\* The mutex has at most one owner, and is locked exactly while it has one.
THEOREM Exclusion == Spec => []MutualExclusion
<1>1. IndInv => MutualExclusion
  BY DEF IndInv
<1> QED BY <1>1, Invariance, PTL

\* The list of waiters holds the suspended fibers, each of them once.
THEOREM WaitersKept == Spec => []WaitersAreParked
<1>1. IndInv => WaitersAreParked
  BY DEF IndInv
<1> QED BY <1>1, Invariance, PTL

\* When all fibers have left the mutex nothing of it is in use any more.
THEOREM Destroyable == Spec => []SafeToDestroy
<1>1. IndInv => SafeToDestroy
  <2> SUFFICES ASSUME IndInv, \A f \in Fibers : pc[f] = "idle"
               PROVE  guard = Nobody /\ ~locked /\ waiters = <<>>
    BY DEF SafeToDestroy
  <2>1. guard = Nobody
    BY DEF IndInv, TypeOK, GuardInv
  <2>2. ~locked
    BY DEF IndInv, MutualExclusion, Owns
  <2>3. \A i \in 1 .. Len(waiters) : waiters[i] \in Fibers
    BY ElementOfSeq DEF IndInv, TypeOK
  <2>4. \A i \in 1 .. Len(waiters) : FALSE
    BY <2>3 DEF IndInv, WaitersAreParked
  <2>5. waiters \in Seq(Fibers) /\ Len(waiters) = 0
    BY <2>4, LenProperties DEF IndInv, TypeOK
  <2> QED BY <2>1, <2>2, <2>5, EmptySeq
<1> QED BY <1>1, Invariance, PTL

-----------------------------------------------------------------------------
(* The refinement. *)

\* The owner that the refinement mapping shows.
LEMMA OwnerIs ==
  ASSUME MutualExclusion
  PROVE  /\ \A f \in Fibers : Owns(f) => Owner = f
         /\ ~locked => Owner = Nobody
         /\ locked => Owner \in Fibers /\ Owns(Owner)
BY DEF MutualExclusion, Owner

\* A step of the mutex is a step of the FIFO lock, or none.
LEMMA RefinesStep == IndInv /\ IndInv' /\ [Next]_vars => [Fifo!Next]_<<Owner, waiters>>
<1> SUFFICES ASSUME IndInv, IndInv', [Next]_vars
             PROVE  [Fifo!Next]_<<Owner, waiters>>
  OBVIOUS
<1> USE DEF IndInv
<1>0. MutualExclusion /\ MutualExclusion'
  OBVIOUS
<1>a. (\A f \in Fibers : Owns(f) => Owner = f) /\ (~locked => Owner = Nobody)
      /\ (locked => Owner \in Fibers /\ Owns(Owner))
  BY <1>0, OwnerIs
<1>b. (\A f \in Fibers : Owns(f)' => Owner' = f) /\ (~locked' => Owner' = Nobody)
  BY <1>0 DEF MutualExclusion, Owner
<1>1. ASSUME UNCHANGED <<locked, waiters>>, \A f \in Fibers : Owns(f) => Owns(f)'
      PROVE  UNCHANGED <<Owner, waiters>>
  BY <1>a, <1>b, <1>1
<1>2. ASSUME NEW f \in Fibers, Lock(f) \/ Resume(f) \/ Release(f)
      PROVE  UNCHANGED <<Owner, waiters>>
  <2>1. \A g \in Fibers : Owns(g) => Owns(g)'
    BY <1>2 DEF Lock, Resume, Release, Owns, TypeOK
  <2> QED BY <2>1, <1>1, <1>2 DEF Lock, Resume, Release
<1>3. ASSUME NEW f \in Fibers, Await(f) \/ CoroLock(f)
      PROVE  Fifo!Acquire(f) \/ Fifo!Enqueue(f)
  <2>1. CASE ~locked
    <3>1. Owns(f)' /\ waiters' = waiters
      BY <1>3, <2>1 DEF Await, CoroLock, TakeOrPark, Owns, TypeOK
    <3> QED BY <3>1, <2>1, <1>a, <1>b DEF Fifo!Acquire
  <2>2. CASE locked
    <3>1. waiters' = Append(waiters, f) /\ pc' = [pc EXCEPT ![f] = "parked"] /\ ~Owns(f)
      BY <1>3, <2>2 DEF Await, CoroLock, TakeOrPark, Owns
    <3>2. \A g \in Fibers : Owns(g) => Owns(g)'
      BY <3>1 DEF Owns, TypeOK
    <3>3. Owner \in Fibers /\ Owner' = Owner
      BY <3>2, <2>2, <1>a, <1>b
    <3> QED BY <3>1, <3>3, MutexAssumption DEF Fifo!Enqueue
  <2> QED BY <2>1, <2>2
<1>4. ASSUME NEW f \in Fibers, TryLock(f)
      PROVE  Fifo!Acquire(f) \/ UNCHANGED <<Owner, waiters>>
  <2>1. CASE ~locked
    <3>1. Owns(f)' /\ waiters' = waiters
      BY <1>4, <2>1 DEF TryLock, Owns, TypeOK
    <3> QED BY <3>1, <2>1, <1>a, <1>b DEF Fifo!Acquire
  <2>2. CASE locked
    <3>1. \A g \in Fibers : Owns(g) => Owns(g)'
      BY <1>4 DEF TryLock, Owns, TypeOK
    <3> QED BY <3>1, <2>2, <1>1, <1>4 DEF TryLock, TypeOK
  <2> QED BY <2>1, <2>2
<1>5. ASSUME NEW f \in Fibers, Unlock(f)
      PROVE  Fifo!Release
  <2>1. Owner = f /\ f # Nobody
    BY <1>5, <1>a, MutexAssumption DEF Unlock, PassOn, Owns
  <2>2. CASE waiters = <<>>
    <3>1. ~locked' /\ waiters' = waiters
      BY <1>5, <2>2 DEF Unlock, PassOn
    <3> QED BY <3>1, <2>1, <2>2, <1>b DEF Fifo!Release
  <2>3. CASE waiters # <<>>
    <3>1. PICK h \in Fibers : h = Head(waiters)
      BY <2>3, HeadTailProperties DEF TypeOK
    <3>2. waiters' = Tail(waiters) /\ pc' = [pc EXCEPT ![f] = "unlocked", ![h] = "scheduled"]
      BY <1>5, <2>3, <3>1 DEF Unlock, PassOn
    <3>3. Owns(h)'
      BY <3>2 DEF Owns, TypeOK
    <3>4. Owner' = h
      BY <3>3, <1>b
    <3> QED BY <3>1, <3>2, <3>4, <2>1, <2>3 DEF Fifo!Release
  <2> QED BY <2>2, <2>3
<1>6. CASE UNCHANGED vars
  BY <1>6, <1>1 DEF vars, Owns
<1> QED BY <1>2, <1>3, <1>4, <1>5, <1>6 DEF Next, Continue, Finished, Fifo!Next

\* The mutex implements the FIFO lock.
THEOREM Refinement == Spec => ImplementsFifoLock
<1>1. Init => Fifo!Init
  BY DEF Init, Fifo!Init, Owner, Owns
<1> QED BY <1>1, RefinesStep, Invariance, PTL DEF Spec, ImplementsFifoLock, Fifo!Spec

-----------------------------------------------------------------------------
(* The threads and their fibers. *)

\* Types.
RuntimeTypeOK ==
  /\ flavour \in {"fiber", "coroutine"}
  /\ life \in [Fibers -> {"none", "alive", "completed", "deleted"}]
  /\ queued \in [Fibers -> Nat]
  /\ Parked \subseteq Fibers
  /\ phase \in [Hosts -> {"idle", "running", "switched", "awaiting", "returning"}]
  /\ this \in [Hosts -> Fibers \union {Nobody}]
  /\ \A h \in Hosts : phase[h] \notin {"idle", "returning"} => this[h] \in Fibers

Dead(f) == life[f] \in {"none", "deleted"}

\* The places of one fiber.
OnePlace(f) ==
  /\ Dead(f) => queued[f] = 0 /\ f \notin Parked
  /\ queued[f] = 0 \/ queued[f] = 1
  /\ f \in Parked => queued[f] = 0
  /\ \A h \in Hosts : Has(h, f) => ~Dead(f) /\ queued[f] = 0 /\ f \notin Parked
  /\ ~Dead(f) => queued[f] = 1 \/ f \in Parked \/ \E h \in Hosts : Has(h, f)
  /\ \A h, g \in Hosts : Has(h, f) /\ Has(g, f) => h = g
  /\ life[f] = "completed" => queued[f] = 0 /\ f \notin Parked
  /\ \A h \in Hosts : Has(h, f) /\ phase[h] = "running" => life[f] = "alive"

Inv == RuntimeTypeOK /\ \A f \in Fibers : OnePlace(f)

\* The strengthened places imply the stated ones.
LEMMA PlacesSuffice == Inv => FiberInOnePlace
BY DEF Inv, OnePlace, FiberInOnePlace, Dead, RuntimeTypeOK

\* Before the first Go there are no fibers.
LEMMA InitPlaces == RuntimeInit /\ flavour \in {"fiber", "coroutine"} => Inv
BY DEF RuntimeInit, Inv, RuntimeTypeOK, OnePlace, Dead, Has

\* Every step of the runtime, and of its users, keeps fibers in one place.
LEMMA StepPlaces == Inv /\ [RuntimeNext]_<<flavour, runtime>> => Inv'
<1> USE DEF Hosts
<1> SUFFICES ASSUME Inv, [RuntimeNext]_<<flavour, runtime>> PROVE Inv'
  OBVIOUS
<1> USE DEF Inv, RuntimeTypeOK, OnePlace, Dead, Has, NewFiber, Submit, Enter, Leave
<1>1. ASSUME NEW h \in Hosts, NEW f \in Fibers, GoFiber(h, f) PROVE Inv'
  BY <1>1 DEF GoFiber
<1>2. ASSUME NEW h \in Hosts, NEW f \in Fibers, Take(h, f) PROVE Inv'
  BY SMTT(30), <1>2 DEF Take
<1>3. ASSUME NEW h \in Hosts, SwitchOut(h) PROVE Inv'
  BY <1>3 DEF SwitchOut
<1>4. ASSUME NEW h \in Hosts, Complete(h) PROVE Inv'
  BY <1>4 DEF Complete
<1>5. ASSUME NEW h \in Hosts, Delete(h) PROVE Inv'
  BY <1>5 DEF Delete
<1>6. ASSUME NEW f \in Fibers, GoCoroutine(f) PROVE Inv'
  BY <1>6 DEF GoCoroutine
<1>7. ASSUME NEW h \in Hosts, JumpTo(h) PROVE Inv'
  <2>1. this[h] \in Fibers /\ Has(h, this[h])
    BY <1>7 DEF JumpTo
  <2> QED BY <1>7, <2>1 DEF JumpTo, SubmitLast
<1>8. ASSUME NEW h \in Hosts, CoroYield(h) PROVE Inv'
  <2>1. CASE ~sched[this[h]]
    BY <1>8, <2>1 DEF CoroYield
  <2>2. CASE sched[this[h]]
    <3>1. this[h] \in Fibers /\ Has(h, this[h])
      BY <1>8 DEF CoroYield
    <3> QED BY <1>8, <2>2, <3>1 DEF CoroYield, SubmitLast
  <2> QED BY Zenon, <2>1, <2>2
<1>9. ASSUME NEW h \in Hosts, Destroy(h) PROVE Inv'
  BY <1>9 DEF Destroy
<1>10. ASSUME NEW h \in Hosts, AwaitSchedules(h) PROVE Inv'
  BY SMTT(30), <1>10 DEF AwaitSchedules, CanAwait
<1>11. ASSUME NEW h \in Hosts, AwaitParks(h) PROVE Inv'
  BY <1>11 DEF AwaitParks, CanAwait
<1>12. ASSUME NEW h \in Hosts, AwaitReturns(h) PROVE Inv'
  BY <1>12 DEF AwaitReturns
<1>13. ASSUME NEW h \in Hosts, YieldAwait(h) PROVE Inv'
  <2>1. this[h] \in Fibers /\ Has(h, this[h]) /\ life[this[h]] = "alive"
    BY <1>13 DEF YieldAwait, CanAwait
  <2> QED BY <1>13, <2>1 DEF YieldAwait, SubmitLast
<1>14. ASSUME NEW f \in Fibers, Wake(f) PROVE Inv'
  BY <1>14 DEF Wake
<1>15. ASSUME NEW h \in Hosts, Returns(h) PROVE Inv'
  BY <1>15 DEF Returns
<1>16. ASSUME UNCHANGED <<flavour, runtime>> PROVE Inv'
  BY <1>16 DEF runtime
<1> QED
  BY Zenon, <1>1, <1>2, <1>3, <1>4, <1>5, <1>6, <1>7, <1>8, <1>9, <1>10, <1>11, <1>12, <1>13,
     <1>14, <1>15, <1>16 DEF RuntimeNext, RuntimeStep

\* Fibers are never run by two threads, forgotten, or used after their end.
THEOREM RuntimePlaces == RuntimeSpec => []FiberInOnePlace
<1> QED BY InitPlaces, StepPlaces, PlacesSuffice, PTL DEF RuntimeSpec

-----------------------------------------------------------------------------
(* The mutex among the threads. *)

\* Nothing that threads do with the fibers is a step the mutex does not have.
THEOREM ImplementsMutex == SystemSpec => Spec
<1>1. SystemInit => Init
  BY DEF SystemInit
<1>2. [SystemNext]_allVars => [Next]_vars
  <2> SUFFICES ASSUME [SystemNext]_allVars PROVE [Next]_vars
    OBVIOUS
  <2> USE DEF mutex, vars
  <2>1. ASSUME NEW h \in Hosts, NEW f \in Fibers, RunGo(h, f) PROVE UNCHANGED vars
    BY <2>1 DEF RunGo, GoFiber, GoCoroutine
  <2>2. ASSUME NEW h \in Hosts, NEW f \in Fibers, RunTake(h, f) PROVE [Next]_vars
    BY <2>2 DEF RunTake, Take, Next, Continue
  <2>3. ASSUME NEW h \in Hosts, NEW f \in Fibers, RunYield(h, f) PROVE UNCHANGED vars
    BY Zenon, <2>3 DEF RunYield, SwitchOut, CoroYield
  <2>4. ASSUME NEW h \in Hosts, NEW f \in Fibers, RunJumpTo(h, f) PROVE UNCHANGED vars
    BY Zenon, <2>4 DEF RunJumpTo, JumpTo
  <2>5. ASSUME NEW h \in Hosts, NEW f \in Fibers, RunEnd(h, f) PROVE UNCHANGED vars
    BY <2>5 DEF RunEnd, Complete, Delete, Destroy
  <2>6. ASSUME NEW h \in Hosts, NEW f \in Fibers, RunYieldAwait(h, f) \/ RunReturns(h)
        PROVE  UNCHANGED vars
    BY <2>6 DEF RunYieldAwait, YieldAwait, RunReturns, Returns
  <2>7. ASSUME NEW h \in Hosts, NEW f \in Fibers,
               \/ RunLock(h, f) \/ RunAwait(h, f) \/ RunTryLock(h, f) \/ RunCoroLock(h, f)
               \/ RunUnlock(h, f) \/ RunRelease(h, f)
        PROVE  Next
    BY Zenon, <2>7 DEF RunLock, RunAwait, RunTryLock, RunCoroLock, RunUnlock, RunRelease, Next, Continue
  <2>8. ASSUME AllEnded \/ UNCHANGED allVars PROVE UNCHANGED vars
    BY <2>8 DEF AllEnded, allVars
  <2> QED
    BY <2>1, <2>2, <2>3, <2>4, <2>5, <2>6, <2>7, <2>8 DEF SystemNext, HostStep
<1> QED BY <1>1, <1>2, PTL DEF SystemSpec, Spec

\* The mutex uses the runtime as it may be used: it gives a handle away once,
\* from the awaiter, and wakes only whose handle it has.
LEMMA ImplementsRuntime == SystemSpec => RuntimeSpec
<1>1. SystemInit => RuntimeInit /\ flavour \in {"fiber", "coroutine"}
  BY DEF SystemInit, Init
<1>2. TypeOK /\ WaitersAreParked /\ [SystemNext]_allVars => [RuntimeNext]_<<flavour, runtime>>
  <2> SUFFICES ASSUME TypeOK, WaitersAreParked, [SystemNext]_allVars
               PROVE  [RuntimeNext]_<<flavour, runtime>>
    OBVIOUS
  <2> USE DEF mutex, threads, runtime
  <2>1. ASSUME NEW h \in Hosts, NEW f \in Fibers, RunGo(h, f) PROVE RuntimeNext
    BY <2>1 DEF RunGo, RuntimeNext, RuntimeStep
  <2>2. ASSUME NEW h \in Hosts, NEW f \in Fibers, RunTake(h, f) PROVE RuntimeNext
    BY <2>2 DEF RunTake, RuntimeNext, RuntimeStep
  <2>3. ASSUME NEW h \in Hosts, NEW f \in Fibers,
               \/ RunYield(h, f) \/ RunJumpTo(h, f) \/ RunEnd(h, f) \/ RunYieldAwait(h, f)
               \/ RunReturns(h) \/ RunLock(h, f)
        PROVE  RuntimeNext
    BY Zenon, <2>3 DEF RunYield, RunJumpTo, RunEnd, RunYieldAwait, RunReturns, RunLock,
                       RuntimeNext, RuntimeStep
  <2>4. ASSUME NEW h \in Hosts, NEW f \in Fibers, RunAwait(h, f) PROVE RuntimeNext
    BY Zenon, <2>4 DEF RunAwait, RuntimeNext, RuntimeStep
  <2>5. ASSUME NEW h \in Hosts, NEW f \in Fibers, RunTryLock(h, f)
        PROVE  UNCHANGED <<flavour, runtime>>
    BY <2>5 DEF RunTryLock, TryLock, Parked, TypeOK
  <2>6. ASSUME NEW h \in Hosts, NEW f \in Fibers, RunCoroLock(h, f)
        PROVE  [RuntimeNext]_<<flavour, runtime>>
    <3>1. CASE pc'[f] = "parked"
      BY Zenon, <2>6, <3>1 DEF RunCoroLock, RuntimeNext, RuntimeStep
    <3>2. CASE pc'[f] # "parked"
      BY <2>6, <3>2 DEF RunCoroLock, CoroLock, TakeOrPark, Parked, TypeOK
    <3> QED BY <3>1, <3>2
  <2>7. ASSUME NEW h \in Hosts, NEW f \in Fibers, RunUnlock(h, f)
        PROVE  [RuntimeNext]_<<flavour, runtime>>
    <3>1. CASE waiters = <<>>
      BY <2>7, <3>1 DEF RunUnlock, Unlock, PassOn, Parked, TypeOK
    <3>2. CASE waiters # <<>>
      <4>1. Head(waiters) \in Fibers
        BY <3>2 DEF TypeOK
      <4> QED BY <2>7, <3>2, <4>1 DEF RunUnlock, RuntimeNext
    <3> QED BY <3>1, <3>2
  <2>8. ASSUME NEW h \in Hosts, NEW f \in Fibers, RunRelease(h, f)
        PROVE  [RuntimeNext]_<<flavour, runtime>>
    <3>1. CASE AwaitReturns(h)
      BY <3>1 DEF RuntimeNext, RuntimeStep
    <3>2. CASE UNCHANGED threads
      BY <2>8, <3>2 DEF RunRelease, Release, Parked, TypeOK
    <3> QED BY Zenon, <2>8, <3>1, <3>2 DEF RunRelease
  <2>9. ASSUME AllEnded \/ UNCHANGED allVars PROVE UNCHANGED <<flavour, runtime>>
    BY <2>9 DEF AllEnded, allVars, Parked
  <2> QED
    BY <2>1, <2>2, <2>3, <2>4, <2>5, <2>6, <2>7, <2>8, <2>9 DEF SystemNext, HostStep
<1>3. SystemSpec => [](TypeOK /\ WaitersAreParked)
  BY ImplementsMutex, Invariance, PTL DEF IndInv
<1> QED BY <1>1, <1>2, <1>3, PTL DEF SystemSpec, RuntimeSpec

\* No fiber that uses the mutex is run by two threads, forgotten in waiters_ or
\* in the scheduler, or looked at after it was deleted.
THEOREM PlacesAmongThreads == SystemSpec => []FiberInOnePlace
BY ImplementsRuntime, RuntimePlaces, PTL

\* The mutex keeps its promises among the threads.
THEOREM MutexAmongThreads == SystemSpec => [](MutualExclusion /\ SafeToDestroy) /\ ImplementsFifoLock
BY ImplementsMutex, Exclusion, Destroyable, Refinement, PTL

=============================================================================
