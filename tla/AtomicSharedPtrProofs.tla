----------------------- MODULE AtomicSharedPtrProofs -----------------------
(***************************************************************************)
(* Proofs about AtomicSharedPtr, for every number of threads, blocks and    *)
(* operations, every Threshold and every MaxStamp: a block is deleted when  *)
(* the last reference to it goes, never earlier and never twice.            *)
(*                                                                          *)
(* The references are counted by cardinalities of sets of threads and of    *)
(* loads.  A step is one of one thread, so that it changes each of these    *)
(* sets at that thread only (StrongMoves, TransientMoves); what is left of  *)
(* a step is then arithmetic about one thread and one block (Balance).      *)
(***************************************************************************)
EXTENDS AtomicSharedPtr, FiniteSetTheorems, TLAPS

One(p) == IF p THEN 1 ELSE 0

\* What the word and all threads add to strong and to transient of b.
StrongCount(b) == One(block = b) + Cardinality(Adding(b)) + Cardinality(Removing(b))
Owned(b) == Cardinality(Mine(b)) + Cardinality(Args(b)) + Cardinality(Loaded(b))
Stamped(b) ==
  Cardinality(Twice(b)) - Cardinality(Missing(b)) - (IF block = b THEN stamp ELSE 0)
TransientCount(b) == Owned(b) + Stamped(b)

\* The part of the word and of thread t.
StampsOf(t, b, labels) == IF old[t] = b /\ pc[t] \in labels THEN oldStamp[t] ELSE 0
StrongOf(t, b) == One(block = b) + One(t \in Adding(b)) + One(t \in Removing(b))
OwnedOf(t, b) == One(t \in Mine(b)) + One(t \in Args(b)) + One(t \in Loaded(b))
StampedOf(t, b) ==
  StampsOf(t, b, {"updateCas", "notUpdated"}) - StampsOf(t, b, {"cleanup"})
    - (IF block = b THEN stamp ELSE 0)
TransientOf(t, b) == OwnedOf(t, b) + StampedOf(t, b)

Agree(b) == strong[b] = StrongCount(b) /\ transient[b] = TransientCount(b)
Referred(b) == block = b \/ \E t \in Threads : ReferredBy(t, b)

\* Between two calls a thread has no argument, and TryUpdateTransient is
\* called with a block.
Passing ==
  \A t \in Threads :
    /\ pc[t] = "idle" => arg[t] = Null
    /\ pc[t] \in Updating => old[t] \in Blocks

\* The inductive invariant.
IndInv ==
  /\ TypeOK /\ Passing
  /\ \A b \in Blocks : b \in alive <=> Referred(b)
  /\ \A b \in alive : Agree(b)

\* A step of thread t.
Others(t) ==
  \A u \in Threads \ {t} :
    /\ pc'[u] = pc[u] /\ mine'[u] = mine[u] /\ arg'[u] = arg[u]
    /\ old'[u] = old[u] /\ oldStamp'[u] = oldStamp[u]

-----------------------------------------------------------------------------
(* Steps. *)

\* Thread t changes the counters of b by as much as its own part.
Changes(t, b) ==
  /\ strong'[b] - strong[b] = StrongOf(t, b)' - StrongOf(t, b)
  /\ transient'[b] - transient[b] = TransientOf(t, b)' - TransientOf(t, b)

\* The word and thread t together refer to b if they did before.
Same(t, b) == (block = b \/ ReferredBy(t, b))' <=> (block = b \/ ReferredBy(t, b))

\* c is deleted if both its counters have become zero, and nothing else is.
Deletes(c) ==
  /\ c \notin Blocks => alive' = alive
  /\ c \in Blocks =>
       /\ c \in alive
       /\ alive' = IF transient'[c] = 0 /\ strong'[c] = 0 THEN alive \ {c} ELSE alive

\* A step of thread t that may take its reference to c away.
Steps(t, c) ==
  /\ TypeOK' /\ Passing' /\ Others(t)
  /\ \A b \in alive : Changes(t, b)
  /\ \A b \in Blocks \ {c} : Same(t, b)
  /\ Deletes(c)

\* MakeShared: thread t allocates c, to which nobody refers, and gets the only
\* reference to it.
Makes(t, c) ==
  /\ TypeOK' /\ Passing' /\ Others(t)
  /\ ~Referred(c) /\ ReferredBy(t, c)'
  /\ alive' = alive \union {c} /\ strong'[c] = 0 /\ transient'[c] = 1
  /\ StrongOf(t, c)' - StrongOf(t, c) = 0 /\ TransientOf(t, c)' - TransientOf(t, c) = 1
  /\ \A b \in alive : Changes(t, b)
  /\ \A b \in Blocks \ {c} : Same(t, b)

\* strong of a block is positive while some thread has still to subtract from it.
StrongPositive ==
  \A t \in Threads, b \in Blocks : t \in Adding(b) \/ t \in Removing(b) => strong[b] >= 1

\* p.Reset().
LEMMA DropSteps ==
  ASSUME IndInv, NEW t \in Threads, Drop(t)
  PROVE  Steps(t, mine[t])
<1> USE SharedPtrAssumption DEF Drop, Goto, Begin, Reset, AddAndDelete, FetchAdd, word
<1>a. mine[t] \in Blocks /\ mine[t] \in alive
  BY DEF IndInv, TypeOK, Passing, Referred, ReferredBy, Updating
<1> USE <1>a
<1>1. TypeOK' /\ Passing' /\ Others(t) /\ \A b \in Blocks \ {mine[t]} : Same(t, b)
  BY DEF IndInv, TypeOK, Passing, Others, Same, ReferredBy, Updating
<1>2. \A b \in alive : Changes(t, b)
  BY DEF IndInv, TypeOK, Changes, StrongOf, TransientOf, OwnedOf, StampedOf, StampsOf, One,
      Adding, Removing, Mine, Args, Loaded, Updating
<1>3. Deletes(mine[t])
  BY DEF IndInv, TypeOK, Referred, ReferredBy, Deletes
<1> HIDE DEF Drop, Goto, Begin, Reset, AddAndDelete, FetchAdd, word
<1> QED BY <1>1, <1>2, <1>3 DEF Steps

\* The argument of Store gets ready for the word.
LEMMA StoreStrongSteps ==
  ASSUME IndInv, NEW t \in Threads, StoreStrong(t)
  PROVE  Steps(t, Null)
<1> USE SharedPtrAssumption DEF StoreStrong, Goto, FetchAdd, word, counters, locals
<1>a. arg[t] # Null => arg[t] \in Blocks
  BY DEF IndInv, TypeOK, Passing, Referred, ReferredBy, Updating
<1> USE <1>a
<1>1. TypeOK' /\ Passing' /\ Others(t) /\ \A b \in Blocks \ {Null} : Same(t, b)
  BY DEF IndInv, TypeOK, Passing, Others, Same, ReferredBy, Updating
<1>2. \A b \in alive : Changes(t, b)
  BY DEF IndInv, TypeOK, Changes, StrongOf, TransientOf, OwnedOf, StampedOf, StampsOf, One,
      Adding, Removing, Mine, Args, Loaded, Updating
<1> HIDE DEF Goto, FetchAdd, word, locals
<1>3. Deletes(Null)
  BY DEF Deletes
<1> HIDE DEF StoreStrong, counters
<1> QED BY <1>1, <1>2, <1>3 DEF Steps

\* The word takes over what was added for the argument; the old block and its
\* stamp are the thread's.
LEMMA ExchangeSteps ==
  ASSUME IndInv, NEW t \in Threads, Exchange(t)
  PROVE  Steps(t, Null)
<1> USE SharedPtrAssumption DEF Exchange, Goto, word, counters, locals
<1>1. TypeOK' /\ Passing' /\ Others(t) /\ \A b \in Blocks \ {Null} : Same(t, b)
  BY DEF IndInv, TypeOK, Passing, Others, Same, ReferredBy, Updating
<1>2. \A b \in alive : Changes(t, b)
  BY DEF IndInv, TypeOK, Changes, StrongOf, TransientOf, OwnedOf, StampedOf, StampsOf, One,
      Adding, Removing, Mine, Args, Loaded, Updating
<1> HIDE DEF Goto, word, locals
<1>3. Deletes(Null)
  BY DEF Deletes
<1> HIDE DEF Exchange, counters
<1> QED BY <1>1, <1>2, <1>3 DEF Steps

\* The stamp is added to the counter, and the word's part of strong is taken
\* back.
LEMMA CleanupSteps ==
  ASSUME IndInv, StrongPositive, NEW t \in Threads, Cleanup(t)
  PROVE  Steps(t, old[t])
<1> USE SharedPtrAssumption DEF Cleanup, Goto, AddAndDelete, FetchAdd, word, counters, locals
<1>a. old[t] # Null => old[t] \in Blocks /\ old[t] \in alive
  BY DEF IndInv, TypeOK, Passing, Referred, ReferredBy, Updating
<1>b. old[t] \in Blocks => strong[old[t]] >= 1
  BY <1>a DEF StrongPositive, Removing
<1> USE <1>a, <1>b
<1>1. TypeOK' /\ Passing' /\ Others(t) /\ \A b \in Blocks \ {old[t]} : Same(t, b)
  BY DEF IndInv, TypeOK, Passing, Others, Same, ReferredBy, Updating
<1>2. \A b \in alive : Changes(t, b)
  BY DEF IndInv, TypeOK, Changes, StrongOf, TransientOf, OwnedOf, StampedOf, StampsOf, One,
      Adding, Removing, Mine, Args, Loaded, Updating
<1>3. Deletes(old[t])
  BY DEF IndInv, TypeOK, Referred, ReferredBy, Deletes
<1> HIDE DEF Cleanup, Goto, AddAndDelete, FetchAdd, word, counters, locals
<1> QED BY <1>1, <1>2, <1>3 DEF Steps

\* The argument is destroyed.
LEMMA ReturnSteps ==
  ASSUME IndInv, NEW t \in Threads, Return(t)
  PROVE  Steps(t, arg[t])
<1> USE SharedPtrAssumption DEF Return, Goto, Reset, AddAndDelete, FetchAdd, word, counters,
    locals
<1>a. arg[t] # Null => arg[t] \in Blocks /\ arg[t] \in alive
  BY DEF IndInv, TypeOK, Passing, Referred, ReferredBy, Updating
<1> USE <1>a
<1>1. TypeOK' /\ Passing' /\ Others(t) /\ \A b \in Blocks \ {arg[t]} : Same(t, b)
  BY DEF IndInv, TypeOK, Passing, Others, Same, ReferredBy, Updating
<1>2. \A b \in alive : Changes(t, b)
  BY DEF IndInv, TypeOK, Changes, StrongOf, TransientOf, OwnedOf, StampedOf, StampsOf, One,
      Adding, Removing, Mine, Args, Loaded, Updating
<1>3. Deletes(arg[t])
  BY DEF IndInv, TypeOK, Referred, ReferredBy, Deletes
<1> HIDE DEF Return, Goto, Reset, AddAndDelete, FetchAdd, word, counters, locals
<1> QED BY <1>1, <1>2, <1>3 DEF Steps

\* Nothing is counted.
LEMMA CompareStampSteps ==
  ASSUME IndInv, NEW t \in Threads, CompareStamp(t)
  PROVE  Steps(t, Null)
<1> USE SharedPtrAssumption DEF CompareStamp, Goto, word, counters, locals
<1>1. TypeOK' /\ Passing' /\ Others(t) /\ \A b \in Blocks \ {Null} : Same(t, b)
  BY DEF IndInv, TypeOK, Passing, Others, Same, ReferredBy, Updating
<1>2. \A b \in alive : Changes(t, b)
  BY DEF IndInv, TypeOK, Changes, StrongOf, TransientOf, OwnedOf, StampedOf, StampsOf, One,
      Adding, Removing, Mine, Args, Loaded, Updating
<1> HIDE DEF Goto, word, locals
<1>3. Deletes(Null)
  BY DEF Deletes
<1> HIDE DEF CompareStamp, counters
<1> QED BY <1>1, <1>2, <1>3 DEF Steps

\* The argument of CompareExchangeWeak gets ready for the word.
LEMMA CompareStrongSteps ==
  ASSUME IndInv, NEW t \in Threads, CompareStrong(t)
  PROVE  Steps(t, Null)
<1> USE SharedPtrAssumption DEF CompareStrong, Goto, FetchAdd, word, counters, locals
<1>a. arg[t] # Null => arg[t] \in Blocks
  BY DEF IndInv, TypeOK, Passing, Referred, ReferredBy, Updating
<1> USE <1>a
<1>1. TypeOK' /\ Passing' /\ Others(t) /\ \A b \in Blocks \ {Null} : Same(t, b)
  BY DEF IndInv, TypeOK, Passing, Others, Same, ReferredBy, Updating
<1>2. \A b \in alive : Changes(t, b)
  BY DEF IndInv, TypeOK, Changes, StrongOf, TransientOf, OwnedOf, StampedOf, StampsOf, One,
      Adding, Removing, Mine, Args, Loaded, Updating
<1> HIDE DEF Goto, FetchAdd, word, locals
<1>3. Deletes(Null)
  BY DEF Deletes
<1> HIDE DEF CompareStrong, counters
<1> QED BY <1>1, <1>2, <1>3 DEF Steps

\* The word takes over what was added for the argument, if the CAS succeeds.
LEMMA CasSteps ==
  ASSUME IndInv, NEW t \in Threads, Cas(t)
  PROVE  Steps(t, Null)
<1> USE SharedPtrAssumption DEF Cas, Goto, word, counters, locals
<1>1. TypeOK' /\ Passing' /\ Others(t) /\ \A b \in Blocks \ {Null} : Same(t, b)
  BY DEF IndInv, TypeOK, Passing, Others, Same, ReferredBy, Updating
<1>2. \A b \in alive : Changes(t, b)
  <2> TAKE b \in alive
  <2>1. CASE pc'[t] = "cleanup"
    BY <2>1 DEF IndInv, TypeOK, Changes, StrongOf, TransientOf, OwnedOf, StampedOf,
        StampsOf, One, Adding, Removing, Mine, Args, Loaded, Updating
  <2>2. CASE pc'[t] = "undo"
    BY <2>2 DEF IndInv, TypeOK, Changes, StrongOf, TransientOf, OwnedOf, StampedOf,
        StampsOf, One, Adding, Removing, Mine, Args, Loaded, Updating
  <2> QED BY <2>1, <2>2 DEF IndInv, TypeOK
<1> HIDE DEF Goto, word, locals
<1>3. Deletes(Null)
  BY DEF Deletes
<1> HIDE DEF Cas, counters
<1> QED BY <1>1, <1>2, <1>3 DEF Steps

\* The CAS has failed, and what was added is taken back.
LEMMA CasUndoSteps ==
  ASSUME IndInv, StrongPositive, NEW t \in Threads, CasUndo(t)
  PROVE  Steps(t, Null)
<1> USE SharedPtrAssumption DEF CasUndo, Goto, FetchAdd, word, counters, locals
<1>a. arg[t] # Null => arg[t] \in Blocks /\ arg[t] \in alive
  BY DEF IndInv, TypeOK, Passing, Referred, ReferredBy, Updating
<1>b. arg[t] \in Blocks => strong[arg[t]] >= 1
  BY <1>a DEF StrongPositive, Adding
<1> USE <1>a, <1>b
<1>1. TypeOK' /\ Passing' /\ Others(t) /\ \A b \in Blocks \ {Null} : Same(t, b)
  BY DEF IndInv, TypeOK, Passing, Others, Same, ReferredBy, Updating
<1>2. \A b \in alive : Changes(t, b)
  BY DEF IndInv, TypeOK, Changes, StrongOf, TransientOf, OwnedOf, StampedOf, StampsOf, One,
      Adding, Removing, Mine, Args, Loaded, Updating
<1> HIDE DEF Goto, FetchAdd, word, locals
<1>3. Deletes(Null)
  BY DEF Deletes
<1> HIDE DEF CasUndo, counters
<1> QED BY <1>1, <1>2, <1>3 DEF Steps

\* Nothing is counted.
LEMMA LoadSteps ==
  ASSUME IndInv, NEW t \in Threads, Load(t)
  PROVE  Steps(t, Null)
<1> USE SharedPtrAssumption DEF Load, Goto, Begin, word, counters, locals
<1>1. TypeOK' /\ Passing' /\ Others(t) /\ \A b \in Blocks \ {Null} : Same(t, b)
  BY DEF IndInv, TypeOK, Passing, Others, Same, ReferredBy, Updating
<1>2. \A b \in alive : Changes(t, b)
  BY DEF IndInv, TypeOK, Changes, StrongOf, TransientOf, OwnedOf, StampedOf, StampsOf, One,
      Adding, Removing, Mine, Args, Loaded, Updating
<1> HIDE DEF Goto, Begin, word, locals
<1>3. Deletes(Null)
  BY DEF Deletes
<1> HIDE DEF Load, counters
<1> QED BY <1>1, <1>2, <1>3 DEF Steps

\* The reference is counted in the stamp.
LEMMA FetchIncrementSteps ==
  ASSUME IndInv, NEW t \in Threads, FetchIncrement(t)
  PROVE  Steps(t, Null)
<1> USE SharedPtrAssumption DEF FetchIncrement, Goto, word, counters, locals
<1>1. TypeOK' /\ Passing' /\ Others(t) /\ \A b \in Blocks \ {Null} : Same(t, b)
  BY DEF IndInv, TypeOK, Passing, Others, Same, ReferredBy, Updating
<1>2. \A b \in alive : Changes(t, b)
  BY DEF IndInv, TypeOK, Changes, StrongOf, TransientOf, OwnedOf, StampedOf, StampsOf, One,
      Adding, Removing, Mine, Args, Loaded, Updating
<1> HIDE DEF Goto, word, locals
<1>3. Deletes(Null)
  BY DEF Deletes
<1> HIDE DEF FetchIncrement, counters
<1> QED BY <1>1, <1>2, <1>3 DEF Steps

\* The loads of the stamp are counted twice until the CAS.
LEMMA UpdateSteps ==
  ASSUME IndInv, NEW t \in Threads, Update(t)
  PROVE  Steps(t, Null)
<1> USE SharedPtrAssumption DEF Update, Goto, FetchAdd, word, counters, locals
<1>a. old[t] \in Blocks /\ old[t] \in alive
  BY DEF IndInv, TypeOK, Passing, Referred, ReferredBy, Updating
<1> USE <1>a
<1>1. TypeOK' /\ Passing' /\ Others(t) /\ \A b \in Blocks \ {Null} : Same(t, b)
  BY DEF IndInv, TypeOK, Passing, Others, Same, ReferredBy, Updating
<1>2. \A b \in alive : Changes(t, b)
  BY DEF IndInv, TypeOK, Changes, StrongOf, TransientOf, OwnedOf, StampedOf, StampsOf, One,
      Adding, Removing, Mine, Args, Loaded, Updating
<1> HIDE DEF Goto, FetchAdd, word, locals
<1>3. Deletes(Null)
  BY DEF Deletes
<1> HIDE DEF Update, counters
<1> QED BY <1>1, <1>2, <1>3 DEF Steps

\* They are counted in the block only, if the CAS succeeds.
LEMMA UpdateCasSteps ==
  ASSUME IndInv, NEW t \in Threads, UpdateCas(t)
  PROVE  Steps(t, Null)
<1> USE SharedPtrAssumption DEF UpdateCas, Goto, word, counters, locals
<1>a. old[t] \in Blocks /\ old[t] \in alive
  BY DEF IndInv, TypeOK, Passing, Referred, ReferredBy, Updating
<1> USE <1>a
<1>1. TypeOK' /\ Passing' /\ Others(t) /\ \A b \in Blocks \ {Null} : Same(t, b)
  BY DEF IndInv, TypeOK, Passing, Others, Same, ReferredBy, Updating
<1>2. \A b \in alive : Changes(t, b)
  BY DEF IndInv, TypeOK, Changes, StrongOf, TransientOf, OwnedOf, StampedOf, StampsOf, One,
      Adding, Removing, Mine, Args, Loaded, Updating
<1> HIDE DEF Goto, word, locals
<1>3. Deletes(Null)
  BY DEF Deletes
<1> HIDE DEF UpdateCas, counters
<1> QED BY <1>1, <1>2, <1>3 DEF Steps

\* Else they are taken back.
LEMMA UpdateEndSteps ==
  ASSUME IndInv, StrongPositive, NEW t \in Threads, UpdateEnd(t)
  PROVE  Steps(t, Null)
<1> USE SharedPtrAssumption DEF UpdateEnd, Goto, FetchAdd, word, counters, locals
<1>a. old[t] \in Blocks /\ old[t] \in alive
  BY DEF IndInv, TypeOK, Passing, Referred, ReferredBy, Updating
<1>b. old[t] \in Blocks => strong[old[t]] >= 1
  BY <1>a DEF StrongPositive, Removing
<1> USE <1>a, <1>b
<1>1. TypeOK' /\ Passing' /\ Others(t) /\ \A b \in Blocks \ {Null} : Same(t, b)
  BY DEF IndInv, TypeOK, Passing, Others, Same, ReferredBy, Updating
<1>2. \A b \in alive : Changes(t, b)
  <2> TAKE b \in alive
  <2>1. CASE pc[t] = "updated"
    BY <2>1 DEF IndInv, TypeOK, Changes, StrongOf, TransientOf, OwnedOf, StampedOf,
        StampsOf, One, Adding, Removing, Mine, Args, Loaded, Updating
  <2>2. CASE pc[t] = "notUpdated"
    BY <2>2 DEF IndInv, TypeOK, Changes, StrongOf, TransientOf, OwnedOf, StampedOf,
        StampsOf, One, Adding, Removing, Mine, Args, Loaded, Updating
  <2> QED BY <2>1, <2>2 DEF IndInv, TypeOK
<1> HIDE DEF Goto, FetchAdd, word, locals
<1>3. Deletes(Null)
  BY DEF Deletes
<1> HIDE DEF UpdateEnd, counters
<1> QED BY <1>1, <1>2, <1>3 DEF Steps

\* The result of Load replaces the thread's own SharedPtr.
LEMMA AssignSteps ==
  ASSUME IndInv, NEW t \in Threads, Assign(t)
  PROVE  Steps(t, mine[t])
<1> USE SharedPtrAssumption DEF Assign, Goto, Reset, AddAndDelete, FetchAdd, word, counters,
    locals
<1>a. mine[t] # Null => mine[t] \in Blocks /\ mine[t] \in alive
  BY DEF IndInv, TypeOK, Passing, Referred, ReferredBy, Updating
<1> USE <1>a
<1>1. TypeOK' /\ Passing' /\ Others(t) /\ \A b \in Blocks \ {mine[t]} : Same(t, b)
  BY DEF IndInv, TypeOK, Passing, Others, Same, ReferredBy, Updating
<1>2. \A b \in alive : Changes(t, b)
  BY DEF IndInv, TypeOK, Changes, StrongOf, TransientOf, OwnedOf, StampedOf, StampsOf, One,
      Adding, Removing, Mine, Args, Loaded, Updating
<1>3. Deletes(mine[t])
  BY DEF IndInv, TypeOK, Referred, ReferredBy, Deletes
<1> HIDE DEF Assign, Goto, Reset, AddAndDelete, FetchAdd, word, counters, locals
<1> QED BY <1>1, <1>2, <1>3 DEF Steps

\* Thread t calls Store or CompareExchangeWeak and passes a new block, nothing,
\* a copy of its SharedPtr, or the SharedPtr itself.
Calls(t, label) == Begin(t) /\ Goto(t, label) /\ UNCHANGED <<word, old, oldStamp>>
PassesNew(t, c) == MakeShared(c) /\ arg' = [arg EXCEPT ![t] = c] /\ UNCHANGED mine
PassesNothing == UNCHANGED <<counters, arg, mine>>
PassesCopy(t) ==
  /\ mine[t] # Null /\ FetchAdd(mine[t], 1, 0)
  /\ arg' = [arg EXCEPT ![t] = mine[t]] /\ UNCHANGED <<alive, mine>>
PassesMine(t) ==
  /\ mine[t] # Null /\ arg' = [arg EXCEPT ![t] = mine[t]]
  /\ mine' = [mine EXCEPT ![t] = Null] /\ UNCHANGED counters

\* A new block.
LEMMA NewMakes ==
  ASSUME IndInv, NEW t \in Threads, NEW c \in Blocks, NEW label \in {"store", "stamp"},
         Calls(t, label), PassesNew(t, c)
  PROVE  Makes(t, c)
<1> USE DEF Calls, PassesNew, MakeShared, Begin, Goto, word
<1>1. TypeOK' /\ pc[t] = "idle" /\ pc'[t] \in {"store", "stamp"}
  BY SharedPtrAssumption DEF IndInv, TypeOK
<1>2. Passing' /\ Others(t)
  BY SMTT(20) DEF IndInv, TypeOK, Passing, Others, Updating
<1>3. TypeOK /\ ~Referred(c) /\ arg[t] = Null
  BY <1>1 DEF IndInv, Passing
<1>4. /\ StrongOf(t, c)' - StrongOf(t, c) = 0
      /\ TransientOf(t, c)' - TransientOf(t, c) = 1
  BY <1>1, <1>3 DEF TypeOK, Referred, ReferredBy, StrongOf, TransientOf, OwnedOf, StampedOf,
      StampsOf, One, Adding, Removing, Mine, Args, Loaded, Updating
<1>5. ReferredBy(t, c)' /\ strong'[c] = 0 /\ transient'[c] = 1
  BY <1>3 DEF ReferredBy, TypeOK
<1>6. \A b \in alive : Changes(t, b)
  <2> TAKE b \in alive
  <2>1. b \in Blocks /\ b # c /\ b # Null /\ arg[t] = Null
    BY <1>3, SharedPtrAssumption DEF TypeOK
  <2>2. /\ t \notin Adding(b) /\ t \notin Removing(b) /\ t \notin Args(b) /\ t \notin Loaded(b)
        /\ t \notin Adding(b)' /\ t \notin Removing(b)' /\ t \notin Args(b)' /\ t \notin Loaded(b)'
        /\ t \in Mine(b)' <=> t \in Mine(b)
    BY <1>1, <1>3, <2>1 DEF TypeOK, Adding, Removing, Mine, Args, Loaded, Updating
  <2>3. \A labels \in {{"updateCas", "notUpdated"}, {"cleanup"}} :
          StampsOf(t, b, labels) = 0 /\ StampsOf(t, b, labels)' = 0
    BY <1>1 DEF StampsOf
  <2>4. strong'[b] = strong[b] /\ transient'[b] = transient[b] /\ strong[b] \in Int /\ transient[b] \in Int
    BY <1>3, <2>1 DEF TypeOK
  <2>5. StrongOf(t, b)' = StrongOf(t, b) /\ TransientOf(t, b)' = TransientOf(t, b)
    BY <2>2, <2>3 DEF StrongOf, TransientOf, OwnedOf, StampedOf, One
  <2>6. StrongOf(t, b) \in Int /\ TransientOf(t, b) \in Int
    BY <1>3, <2>2, <2>3, SharedPtrAssumption DEF StrongOf, TransientOf, OwnedOf, StampedOf,
        One, TypeOK
  <2> QED BY <2>4, <2>5, <2>6 DEF Changes
<1>7. \A b \in Blocks \ {c} : Same(t, b)
  BY <1>1, <1>3, SharedPtrAssumption DEF IndInv, TypeOK, Passing, Same, ReferredBy, Updating
<1>8. alive' = alive \union {c}
  OBVIOUS
<1> HIDE DEF Calls, PassesNew, MakeShared, Begin, Goto, word
<1> QED BY <1>1, <1>2, <1>3, <1>4, <1>5, <1>6, <1>7, <1>8 DEF Makes

\* An empty SharedPtr.
LEMMA EmptySteps ==
  ASSUME IndInv, NEW t \in Threads, NEW label \in {"store", "stamp"}, Calls(t, label), PassesNothing
  PROVE  Steps(t, Null)
<1> USE SharedPtrAssumption DEF Calls, PassesNothing, Begin, Goto, word, counters
<1>1. TypeOK' /\ Passing' /\ Others(t) /\ \A b \in Blocks \ {Null} : Same(t, b)
  BY DEF IndInv, TypeOK, Passing, Others, Same, ReferredBy, Updating
<1>2. \A b \in alive : Changes(t, b)
  BY DEF IndInv, TypeOK, Passing, Changes, StrongOf, TransientOf, OwnedOf, StampedOf,
      StampsOf, One, Adding, Removing, Mine, Args, Loaded, Updating
<1> HIDE DEF Begin, Goto, word
<1>3. Deletes(Null)
  BY DEF Deletes
<1> HIDE DEF Calls, PassesNothing, counters
<1> QED BY <1>1, <1>2, <1>3 DEF Steps

\* A copy.
LEMMA CopySteps ==
  ASSUME IndInv, NEW t \in Threads, NEW label \in {"store", "stamp"}, Calls(t, label), PassesCopy(t)
  PROVE  Steps(t, Null)
<1> USE SharedPtrAssumption DEF Calls, PassesCopy, Begin, Goto, word, counters, FetchAdd
<1>1. TypeOK' /\ Passing' /\ Others(t) /\ \A b \in Blocks \ {Null} : Same(t, b)
  BY DEF IndInv, TypeOK, Passing, Others, Same, ReferredBy, Updating
<1>2. \A b \in alive : Changes(t, b)
  BY DEF IndInv, TypeOK, Passing, Changes, StrongOf, TransientOf, OwnedOf, StampedOf,
      StampsOf, One, Adding, Removing, Mine, Args, Loaded, Updating
<1> HIDE DEF Begin, Goto, word, FetchAdd
<1>3. Deletes(Null)
  BY DEF Deletes
<1> HIDE DEF Calls, PassesCopy, counters
<1> QED BY <1>1, <1>2, <1>3 DEF Steps

\* The SharedPtr itself.
LEMMA MoveSteps ==
  ASSUME IndInv, NEW t \in Threads, NEW label \in {"store", "stamp"}, Calls(t, label), PassesMine(t)
  PROVE  Steps(t, Null)
<1> USE SharedPtrAssumption DEF Calls, PassesMine, Begin, Goto, word, counters
<1>1. TypeOK' /\ Passing' /\ Others(t) /\ \A b \in Blocks \ {Null} : Same(t, b)
  BY DEF IndInv, TypeOK, Passing, Others, Same, ReferredBy, Updating
<1>2. \A b \in alive : Changes(t, b)
  BY DEF IndInv, TypeOK, Passing, Changes, StrongOf, TransientOf, OwnedOf, StampedOf,
      StampsOf, One, Adding, Removing, Mine, Args, Loaded, Updating
<1> HIDE DEF Begin, Goto, word
<1>3. Deletes(Null)
  BY DEF Deletes
<1> HIDE DEF Calls, PassesMine, counters
<1> QED BY <1>1, <1>2, <1>3 DEF Steps

\* Nobody refers to a block at first.
LEMMA Initial == Init => IndInv
<1> SUFFICES ASSUME Init PROVE IndInv
  OBVIOUS
<1>1. TypeOK
  BY SharedPtrAssumption DEF Init, TypeOK
<1>2. Passing /\ alive = {}
  BY DEF Init, Passing, Updating
<1>3. \A b \in Blocks : ~Referred(b)
  BY SharedPtrAssumption DEF Init, Referred, ReferredBy, Updating
<1> QED BY <1>1, <1>2, <1>3 DEF IndInv

\* No step.
LEMMA Stutters ==
  ASSUME IndInv, UNCHANGED vars
  PROVE  IndInv'
<1> USE DEF vars
<1>1. TypeOK' /\ Passing' /\ alive' = alive
  BY SMTT(20) DEF IndInv, TypeOK, Passing
<1>2. ASSUME NEW b \in Blocks PROVE Referred(b)' <=> Referred(b)
  BY Zenon DEF Referred, ReferredBy
<1>3. ASSUME NEW b \in alive PROVE Agree(b)'
  <2>1. /\ Adding(b)' = Adding(b) /\ Removing(b)' = Removing(b) /\ Mine(b)' = Mine(b) /\ Args(b)' = Args(b)
        /\ Loaded(b)' = Loaded(b) /\ Twice(b)' = Twice(b) /\ Missing(b)' = Missing(b)
    BY Zenon DEF Adding, Removing, Mine, Args, Loaded, Twice, Missing, Stamps
  <2>2. StrongCount(b)' = StrongCount(b) /\ TransientCount(b)' = TransientCount(b)
    BY <2>1, Zenon DEF StrongCount, TransientCount, Owned, Stamped
  <2> QED BY <2>2, <1>3, Zenon DEF IndInv, Agree
<1> QED BY <1>1, <1>2, <1>3 DEF IndInv

-----------------------------------------------------------------------------
(* Counting. *)

\* A set that changes at one element.
LEMMA OneMoves ==
  ASSUME NEW S, NEW T, NEW x, IsFiniteSet(S), S \ {x} = T \ {x}
  PROVE  /\ IsFiniteSet(T)
         /\ Cardinality(S) \in Nat /\ Cardinality(T) \in Nat
         /\ Cardinality(T) = Cardinality(S) - One(x \in S) + One(x \in T)
<1> DEFINE U == S \ {x}
<1>a. Cardinality(S) \in Nat
  BY FS_CardinalityType
<1>1. IsFiniteSet(U) /\ Cardinality(U) = Cardinality(S) - One(x \in S)
  BY <1>a, FS_RemoveElement DEF One
<1>2. x \notin U /\ T = IF x \in T THEN U \union {x} ELSE U
  OBVIOUS
<1> HIDE DEF U
<1>3. IsFiniteSet(U \union {x}) /\ Cardinality(U \union {x}) = Cardinality(U) + 1
  BY <1>1, <1>2, FS_AddElement
<1>4. Cardinality(S) \in Nat /\ Cardinality(U) \in Nat
  BY <1>1, FS_CardinalityType
<1>5. CASE x \in T
  <2>1. T = U \union {x}
    BY <1>2, <1>5
  <2>2. IsFiniteSet(T) /\ Cardinality(T) = Cardinality(U) + 1
    BY <2>1, <1>3, Zenon
  <2> QED BY <2>2, <1>1, <1>4, <1>5 DEF One
<1>6. CASE x \notin T
  <2>1. T = U
    BY <1>2, <1>6
  <2> QED BY <2>1, <1>1, <1>4, <1>6 DEF One
<1> QED BY <1>5, <1>6

\* Disjoint sets.
LEMMA Disjoint ==
  ASSUME NEW S, NEW T, IsFiniteSet(S), IsFiniteSet(T), S \intersect T = {}
  PROVE  /\ IsFiniteSet(S \union T)
         /\ Cardinality(S) \in Nat /\ Cardinality(T) \in Nat
         /\ Cardinality(S \union T) = Cardinality(S) + Cardinality(T)
<1>1. Cardinality({}) = 0
  BY FS_EmptySet
<1>2. /\ IsFiniteSet(S \union T)
      /\ Cardinality(S \union T) = Cardinality(S) + Cardinality(T) - Cardinality(S \intersect T)
  BY FS_Union, Zenon
<1>3. Cardinality(S \union T) = Cardinality(S) + Cardinality(T) - 0
  BY <1>1, <1>2, Zenon
<1>4. Cardinality(S) \in Nat /\ Cardinality(T) \in Nat
  BY FS_CardinalityType
<1> QED BY <1>2, <1>3, <1>4

Pairs(t, n) == {t} \X (1 .. n)

\* n loads of thread t.
LEMMA PairsCount ==
  ASSUME NEW t, NEW n \in Nat
  PROVE  IsFiniteSet(Pairs(t, n)) /\ Cardinality(Pairs(t, n)) = n
<1>1. IsFiniteSet({t}) /\ Cardinality({t}) = 1
  BY FS_Singleton, Zenon
<1>2. IsFiniteSet(1 .. n) /\ Cardinality(1 .. n) = n
  BY FS_Interval
<1> DEFINE X == {t}
           Y == 1 .. n
<1> HIDE DEF X, Y
<1>3. IsFiniteSet(X) /\ IsFiniteSet(Y) /\ Cardinality(X) = 1 /\ Cardinality(Y) = n
  BY <1>1, <1>2 DEF X, Y
<1>4. IsFiniteSet(X \X Y) /\ Cardinality(X \X Y) = 1 * n
  BY <1>3, FS_Product
<1>5. 1 * n = n
  OBVIOUS
<1> QED BY <1>4, <1>5, Zenon DEF Pairs, X, Y

\* The sets are finite.
LEMMA Finite ==
  ASSUME TypeOK, NEW b
  PROVE  /\ IsFiniteSet(Adding(b)) /\ IsFiniteSet(Removing(b)) /\ IsFiniteSet(Mine(b))
         /\ IsFiniteSet(Args(b)) /\ IsFiniteSet(Loaded(b))
         /\ IsFiniteSet(Twice(b)) /\ IsFiniteSet(Missing(b))
<1>1. IsFiniteSet(Threads)
  BY SharedPtrAssumption
<1>a. MaxStamp \in Nat
  BY SharedPtrAssumption
<1>b. IsFiniteSet(1 .. MaxStamp)
  BY <1>a, FS_Interval
<1>2. IsFiniteSet(Threads \X (1 .. MaxStamp))
  BY <1>1, <1>b, FS_Product, Zenon
<1>3. \A S \in SUBSET Threads : IsFiniteSet(S)
  BY <1>1, FS_Subset
<1>4. \A S \in SUBSET (Threads \X (1 .. MaxStamp)) : IsFiniteSet(S)
  BY <1>2, FS_Subset
<1> QED BY <1>3, <1>4 DEF Adding, Removing, Mine, Args, Loaded, Twice, Missing, Stamps

\* strong of b, when thread t steps.
LEMMA StrongMoves ==
  ASSUME TypeOK, TypeOK', NEW t \in Threads, NEW b \in Blocks, Others(t)
  PROVE  /\ StrongCount(b) \in Nat /\ StrongCount(b)' \in Nat
         /\ StrongCount(b)' - StrongCount(b) = StrongOf(t, b)' - StrongOf(t, b)
<1>1. Adding(b) \ {t} = Adding(b)' \ {t} /\ Removing(b) \ {t} = Removing(b)' \ {t}
  BY Zenon DEF Adding, Removing, Others
<1>2. IsFiniteSet(Adding(b)) /\ IsFiniteSet(Removing(b))
  BY Finite
<1>3. /\ Cardinality(Adding(b)) \in Nat /\ Cardinality(Adding(b)') \in Nat
      /\ Cardinality(Adding(b)')
           = Cardinality(Adding(b)) - One(t \in Adding(b)) + One(t \in Adding(b)')
  BY <1>1, <1>2, OneMoves
<1>4. /\ Cardinality(Removing(b)) \in Nat /\ Cardinality(Removing(b)') \in Nat
      /\ Cardinality(Removing(b)')
           = Cardinality(Removing(b)) - One(t \in Removing(b)) + One(t \in Removing(b)')
  BY <1>1, <1>2, OneMoves
<1>5. /\ One(block = b) \in {0, 1} /\ One((block = b)') \in {0, 1}
      /\ One(t \in Adding(b)) \in {0, 1} /\ One(t \in Adding(b)') \in {0, 1}
      /\ One(t \in Removing(b)) \in {0, 1} /\ One(t \in Removing(b)') \in {0, 1}
  BY DEF One
<1> QED BY <1>3, <1>4, <1>5 DEF StrongCount, StrongOf

\* The same for the loads in the stamps that threads have seen.
LEMMA StampSetMoves ==
  ASSUME TypeOK, TypeOK', NEW t \in Threads, NEW b \in Blocks, Others(t), NEW labels,
         IsFiniteSet(Stamps(b, labels))
  PROVE  /\ Cardinality(Stamps(b, labels)) \in Nat /\ Cardinality(Stamps(b, labels)') \in Nat
         /\ Cardinality(Stamps(b, labels)')
              = Cardinality(Stamps(b, labels)) - StampsOf(t, b, labels) + StampsOf(t, b, labels)'
<1> DEFINE m == StampsOf(t, b, labels)
           n == StampsOf(t, b, labels)'
           S == Stamps(b, labels)
           T == Stamps(b, labels)'
<1>1. m \in 0 .. MaxStamp /\ n \in 0 .. MaxStamp /\ MaxStamp \in Nat
  BY SharedPtrAssumption DEF StampsOf, TypeOK
<1>2. \A u \in Threads, k \in 1 .. MaxStamp :
        /\ <<u, k>> \in Stamps(b, labels) <=> k <= StampsOf(u, b, labels)
        /\ <<u, k>> \in Stamps(b, labels)' <=> k <= StampsOf(u, b, labels)'
  BY <1>1 DEF StampsOf, Stamps, TypeOK
<1>3. \A u \in Threads \ {t} : StampsOf(u, b, labels)' = StampsOf(u, b, labels)
  BY Zenon DEF StampsOf, Others
<1>4. /\ Stamps(b, labels) \subseteq Threads \X (1 .. MaxStamp)
      /\ Stamps(b, labels)' \subseteq Threads \X (1 .. MaxStamp)
  BY Zenon DEF Stamps
<1> DEFINE A == Pairs(t, m)
           B == Pairs(t, n)
<1>5. A \subseteq S /\ B \subseteq T
  BY <1>1, <1>2 DEF Pairs
<1>6. S \ A = T \ B
  BY <1>1, <1>2, <1>3, <1>4 DEF Pairs
<1> DEFINE U == S \ A
<1>7. S = U \union A /\ T = U \union B /\ U \intersect A = {} /\ U \intersect B = {}
  BY <1>5, <1>6
<1>8. m \in Nat /\ n \in Nat /\ IsFiniteSet(S)
  BY <1>1
<1>9. IsFiniteSet(U)
  BY <1>8, FS_Difference, Zenon
<1> HIDE DEF m, n, S, T, U
<1>10. IsFiniteSet(A) /\ Cardinality(A) = m /\ IsFiniteSet(B) /\ Cardinality(B) = n
  BY <1>8, PairsCount
<1> HIDE DEF A, B
<1>11. /\ Cardinality(U) \in Nat
       /\ Cardinality(U \union A) = Cardinality(U) + m /\ Cardinality(U \union B) = Cardinality(U) + n
  BY <1>7, <1>9, <1>10, Disjoint, Zenon
<1>12. Cardinality(S) = Cardinality(U) + m /\ Cardinality(T) = Cardinality(U) + n
  BY <1>7, <1>11, Zenon
<1>13. Cardinality(S) \in Nat /\ Cardinality(T) \in Nat /\ Cardinality(T) = Cardinality(S) - m + n
  BY <1>8, <1>11, <1>12
<1> QED BY <1>13 DEF m, n, S, T

\* transient of b, when thread t steps.
LEMMA TransientMoves ==
  ASSUME TypeOK, TypeOK', NEW t \in Threads, NEW b \in Blocks, Others(t)
  PROVE  /\ TransientCount(b) \in Int /\ TransientCount(b)' \in Int
         /\ TransientCount(b)' - TransientCount(b) = TransientOf(t, b)' - TransientOf(t, b)
<1>1. /\ Mine(b) \ {t} = Mine(b)' \ {t} /\ Args(b) \ {t} = Args(b)' \ {t}
      /\ Loaded(b) \ {t} = Loaded(b)' \ {t}
  BY Zenon DEF Mine, Args, Loaded, Others
<1>2. /\ IsFiniteSet(Mine(b)) /\ IsFiniteSet(Args(b)) /\ IsFiniteSet(Loaded(b))
      /\ IsFiniteSet(Twice(b)) /\ IsFiniteSet(Missing(b))
  BY Finite
<1>3. /\ Cardinality(Mine(b)) \in Nat /\ Cardinality(Mine(b)') \in Nat
      /\ Cardinality(Mine(b)') = Cardinality(Mine(b)) - One(t \in Mine(b)) + One(t \in Mine(b)')
  BY <1>1, <1>2, OneMoves
<1>4. /\ Cardinality(Args(b)) \in Nat /\ Cardinality(Args(b)') \in Nat
      /\ Cardinality(Args(b)') = Cardinality(Args(b)) - One(t \in Args(b)) + One(t \in Args(b)')
  BY <1>1, <1>2, OneMoves
<1>5. /\ Cardinality(Loaded(b)) \in Nat /\ Cardinality(Loaded(b)') \in Nat
      /\ Cardinality(Loaded(b)') = Cardinality(Loaded(b)) - One(t \in Loaded(b)) + One(t \in Loaded(b)')
  BY <1>1, <1>2, OneMoves
<1>6. /\ Cardinality(Twice(b)) \in Nat /\ Cardinality(Twice(b)') \in Nat
      /\ Cardinality(Twice(b)') = Cardinality(Twice(b)) - StampsOf(t, b, {"updateCas", "notUpdated"})
                                   + StampsOf(t, b, {"updateCas", "notUpdated"})'
  BY <1>2, StampSetMoves DEF Twice
<1>7. /\ Cardinality(Missing(b)) \in Nat /\ Cardinality(Missing(b)') \in Nat
      /\ Cardinality(Missing(b)') = Cardinality(Missing(b)) - StampsOf(t, b, {"cleanup"})
                                     + StampsOf(t, b, {"cleanup"})'
  BY <1>2, StampSetMoves DEF Missing
<1>8. /\ One(t \in Mine(b)) \in {0, 1} /\ One(t \in Mine(b)') \in {0, 1}
      /\ One(t \in Args(b)) \in {0, 1} /\ One(t \in Args(b)') \in {0, 1}
      /\ One(t \in Loaded(b)) \in {0, 1} /\ One(t \in Loaded(b)') \in {0, 1}
  BY DEF One
<1>9. /\ StampsOf(t, b, {"updateCas", "notUpdated"}) \in Nat
      /\ StampsOf(t, b, {"updateCas", "notUpdated"})' \in Nat
      /\ StampsOf(t, b, {"cleanup"}) \in Nat /\ StampsOf(t, b, {"cleanup"})' \in Nat
      /\ stamp \in Nat /\ stamp' \in Nat
  BY SharedPtrAssumption DEF StampsOf, TypeOK
<1>10. /\ Owned(b) \in Int /\ Owned(b)' \in Int
       /\ Owned(b)' - Owned(b) = OwnedOf(t, b)' - OwnedOf(t, b)
  BY <1>3, <1>4, <1>5, <1>8 DEF Owned, OwnedOf
<1>11. /\ Stamped(b) \in Int /\ Stamped(b)' \in Int
       /\ Stamped(b)' - Stamped(b) = StampedOf(t, b)' - StampedOf(t, b)
  BY <1>6, <1>7, <1>9 DEF Stamped, StampedOf
<1>12. /\ OwnedOf(t, b) \in Int /\ OwnedOf(t, b)' \in Int
       /\ StampedOf(t, b) \in Int /\ StampedOf(t, b)' \in Int
  BY <1>8, <1>9 DEF OwnedOf, StampedOf
<1> QED BY <1>10, <1>11, <1>12 DEF TransientCount, TransientOf

\* The counters of b agree with the references after a step of thread t that
\* changes them by as much as it changes the part of the word and of t.
LEMMA Balance ==
  ASSUME TypeOK, TypeOK', NEW t \in Threads, Others(t), NEW b \in Blocks, Agree(b),
         strong'[b] - strong[b] = StrongOf(t, b)' - StrongOf(t, b),
         transient'[b] - transient[b] = TransientOf(t, b)' - TransientOf(t, b)
  PROVE  Agree(b)'
<1>1. strong[b] \in Int /\ strong'[b] \in Int /\ transient[b] \in Int /\ transient'[b] \in Int
  BY DEF TypeOK
<1>2. /\ StrongCount(b) \in Nat /\ StrongCount(b)' \in Nat
      /\ StrongCount(b)' - StrongCount(b) = StrongOf(t, b)' - StrongOf(t, b)
  BY StrongMoves, Zenon
<1>3. /\ TransientCount(b) \in Int /\ TransientCount(b)' \in Int
      /\ TransientCount(b)' - TransientCount(b) = TransientOf(t, b)' - TransientOf(t, b)
  BY TransientMoves, Zenon
<1> QED BY <1>1, <1>2, <1>3 DEF Agree

\* Both counters are zero when nobody refers to the block, and only then.
ZeroWhenUnreferred ==
  TypeOK => \A b \in Blocks : (StrongCount(b) = 0 /\ TransientCount(b) = 0) <=> ~Referred(b)

\* From the emptiness of the sets that are counted.
LEMMA Zero == ZeroWhenUnreferred
<1> SUFFICES ASSUME TypeOK, NEW b \in Blocks
             PROVE  (StrongCount(b) = 0 /\ TransientCount(b) = 0) <=> ~Referred(b)
  BY DEF ZeroWhenUnreferred
<1>1. /\ IsFiniteSet(Adding(b)) /\ IsFiniteSet(Removing(b)) /\ IsFiniteSet(Mine(b))
      /\ IsFiniteSet(Args(b)) /\ IsFiniteSet(Loaded(b))
      /\ IsFiniteSet(Twice(b)) /\ IsFiniteSet(Missing(b))
  BY Finite
<1>2. /\ Cardinality(Adding(b)) \in Nat /\ Cardinality(Removing(b)) \in Nat
      /\ Cardinality(Mine(b)) \in Nat /\ Cardinality(Args(b)) \in Nat /\ Cardinality(Loaded(b)) \in Nat
      /\ Cardinality(Twice(b)) \in Nat /\ Cardinality(Missing(b)) \in Nat
  BY <1>1, FS_CardinalityType
<1>3. /\ Cardinality(Adding(b)) = 0 <=> Adding(b) = {}
      /\ Cardinality(Removing(b)) = 0 <=> Removing(b) = {}
      /\ Cardinality(Mine(b)) = 0 <=> Mine(b) = {}
      /\ Cardinality(Args(b)) = 0 <=> Args(b) = {}
      /\ Cardinality(Loaded(b)) = 0 <=> Loaded(b) = {}
      /\ Cardinality(Twice(b)) = 0 <=> Twice(b) = {}
      /\ Cardinality(Missing(b)) = 0 <=> Missing(b) = {}
  BY <1>1, FS_EmptySet, Zenon
<1>4. ~Referred(b) <=> block # b /\ Mine(b) = {} /\ Args(b) = {} /\ Loaded(b) = {} /\ Removing(b) = {}
  BY DEF Referred, ReferredBy, Mine, Args, Loaded, Removing, Updating
<1>5. Removing(b) = {} => Missing(b) = {} /\ Twice(b) = {}
  BY DEF Removing, Missing, Twice, Stamps
<1>6. Args(b) = {} => Adding(b) = {}
  BY DEF Args, Adding
<1>7. ASSUME ~Referred(b) PROVE StrongCount(b) = 0 /\ TransientCount(b) = 0
  BY <1>2, <1>3, <1>4, <1>5, <1>6, <1>7 DEF StrongCount, TransientCount, Owned, Stamped, One
<1>8. ASSUME StrongCount(b) = 0, TransientCount(b) = 0 PROVE ~Referred(b)
  <2>1. block # b /\ Cardinality(Removing(b)) = 0
    BY <1>2, <1>8 DEF StrongCount, One
  <2>2. Cardinality(Missing(b)) = 0 /\ Cardinality(Twice(b)) = 0
    BY <2>1, <1>3, <1>5
  <2>3. Cardinality(Mine(b)) = 0 /\ Cardinality(Args(b)) = 0 /\ Cardinality(Loaded(b)) = 0
    <3>1. Cardinality(Mine(b)) + Cardinality(Args(b)) + Cardinality(Loaded(b)) + 0 - 0 - 0 = 0
      BY <2>1, <2>2, <1>8 DEF TransientCount, Owned, Stamped
    <3> QED BY <3>1, <1>2
  <2> QED BY <2>1, <2>3, <1>3, <1>4
<1> QED BY <1>7, <1>8

\* The same in the next state.
LEMMA ZeroNext == ZeroWhenUnreferred'
BY Zero, PTL

\* What thread t has added to strong of b is in it.
LEMMA StrongAtLeast ==
  ASSUME TypeOK, NEW t \in Threads, NEW b \in Blocks
  PROVE  StrongCount(b) \in Nat /\ StrongCount(b) >= StrongOf(t, b)
<1>1. IsFiniteSet(Adding(b)) /\ IsFiniteSet(Removing(b))
  BY Finite
<1>2. /\ Cardinality(Adding(b)) \in Nat /\ Cardinality(Removing(b)) \in Nat
      /\ t \in Adding(b) => Cardinality(Adding(b)) # 0
      /\ t \in Removing(b) => Cardinality(Removing(b)) # 0
  BY <1>1, FS_CardinalityType, FS_EmptySet
<1> QED BY <1>2 DEF StrongCount, StrongOf, One

\* So strong is positive.
LEMMA Positive == IndInv => StrongPositive
<1> SUFFICES ASSUME IndInv, NEW t \in Threads, NEW b \in Blocks, t \in Adding(b) \/ t \in Removing(b)
             PROVE  strong[b] >= 1
  BY DEF StrongPositive
<1>1. Referred(b)
  BY DEF Referred, ReferredBy, Adding, Removing, Updating
<1>2. TypeOK /\ Agree(b)
  BY <1>1 DEF IndInv
<1>3. StrongCount(b) \in Nat /\ StrongCount(b) >= StrongOf(t, b)
  BY <1>2, StrongAtLeast
<1>4. StrongOf(t, b) \in Nat /\ StrongOf(t, b) >= 1
  BY DEF StrongOf, One
<1>5. strong[b] = StrongCount(b)
  BY <1>2 DEF Agree
<1> QED BY <1>3, <1>4, <1>5

-----------------------------------------------------------------------------
(* The invariant is inductive. *)

\* A step of thread t keeps the counters right.
LEMMA AgreeKept ==
  ASSUME IndInv, TypeOK', NEW t \in Threads, Others(t), NEW b \in alive, Changes(t, b)
  PROVE  b \in Blocks /\ Agree(b)'
<1>1. b \in Blocks /\ Agree(b) /\ TypeOK
  BY DEF IndInv, TypeOK
<1> QED BY <1>1, Balance DEF Changes

\* It changes who refers to b only where thread t does.
LEMMA ReferredKept ==
  ASSUME NEW t \in Threads, Others(t), NEW b, Same(t, b)
  PROVE  Referred(b)' <=> Referred(b)
<1>1. \A u \in Threads \ {t} : ReferredBy(u, b)' <=> ReferredBy(u, b)
  BY Zenon DEF Others, ReferredBy
<1> QED BY <1>1 DEF Same, Referred

\* A step that may take a reference away keeps the invariant.
LEMMA StepKeeps ==
  ASSUME IndInv, NEW t \in Threads, NEW c, Steps(t, c)
  PROVE  IndInv'
<1>0. /\ TypeOK' /\ Passing' /\ Others(t) /\ Deletes(c)
      /\ \A b \in alive : Changes(t, b)
      /\ \A b \in Blocks \ {c} : Same(t, b)
  BY DEF Steps
<1>1. \A b \in alive : b \in Blocks /\ Agree(b)'
  BY <1>0, AgreeKept, Zenon
<1>2. \A b \in Blocks \ {c} : Referred(b)' <=> Referred(b)
  BY <1>0, ReferredKept, Zenon
<1>3. /\ alive' \subseteq alive
      /\ \A b \in Blocks \ {c} : b \in alive' <=> b \in alive
      /\ c \in Blocks =>
           /\ c \in alive
           /\ c \in alive' <=> ~(transient'[c] = 0 /\ strong'[c] = 0)
  <2>1. Deletes(c)
    BY <1>0, Zenon
  <2> QED BY <2>1 DEF Deletes
<1>4. \A b \in Blocks \ {c} : b \in alive' <=> Referred(b)'
  BY <1>2, <1>3, Zenon DEF IndInv
<1>5. ASSUME c \in Blocks PROVE c \in alive' <=> Referred(c)'
  <2>1. Agree(c)' /\ c \in alive
    BY <1>1, <1>3, <1>5, Zenon
  <2>2. (transient'[c] = 0 /\ strong'[c] = 0) <=> ~Referred(c)'
    <3>1. (StrongCount(c)' = 0 /\ TransientCount(c)' = 0) <=> ~Referred(c)'
      BY <1>0, <1>5, ZeroNext, Zenon DEF ZeroWhenUnreferred
    <3> QED BY <2>1, <3>1, Zenon DEF Agree
  <2> QED BY <1>3, <2>2, <1>5, Zenon
<1>6. \A b \in Blocks : b \in alive' <=> Referred(b)'
  BY <1>4, <1>5
<1>7. \A b \in alive' : Agree(b)'
  BY <1>1, <1>3, Zenon
<1> QED BY <1>0, <1>6, <1>7, Zenon DEF IndInv

\* So does one that allocates a block.
LEMMA MakeKeeps ==
  ASSUME IndInv, NEW t \in Threads, NEW c \in Blocks, Makes(t, c)
  PROVE  IndInv'
<1>0. /\ TypeOK /\ TypeOK' /\ Passing' /\ Others(t) /\ ~Referred(c)
      /\ \A b \in alive : Changes(t, b)
      /\ \A b \in Blocks \ {c} : Same(t, b)
  BY DEF IndInv, Makes
<1>1. StrongCount(c) = 0 /\ TransientCount(c) = 0
  BY <1>0, Zero, Zenon DEF ZeroWhenUnreferred
<1>2. /\ StrongCount(c)' \in Nat /\ TransientCount(c)' \in Int
      /\ StrongCount(c)' - StrongCount(c) = StrongOf(t, c)' - StrongOf(t, c)
      /\ TransientCount(c)' - TransientCount(c) = TransientOf(t, c)' - TransientOf(t, c)
  BY <1>0, StrongMoves, TransientMoves, Zenon
<1>3. Agree(c)'
  <2>1. /\ strong'[c] = 0 /\ StrongOf(t, c)' - StrongOf(t, c) = 0
        /\ transient'[c] = 1 /\ TransientOf(t, c)' - TransientOf(t, c) = 1
    BY Zenon DEF Makes
  <2> QED BY <1>1, <1>2, <2>1 DEF Agree
<1>4. \A b \in alive : b \in Blocks /\ Agree(b)'
  BY <1>0, AgreeKept, Zenon
<1>5. \A b \in Blocks \ {c} : Referred(b)' <=> Referred(b)
  BY <1>0, ReferredKept, Zenon
<1>6. Referred(c)' /\ alive' = alive \union {c}
  BY Zenon DEF Makes, Referred
<1> QED BY <1>0, <1>3, <1>4, <1>5, <1>6 DEF IndInv

\* Store and CompareExchangeWeak are called.
LEMMA PassKeeps ==
  ASSUME IndInv, NEW t \in Threads, NEW op, NEW label \in {"store", "stamp"},
         Pass(t, op), Calls(t, label)
  PROVE  IndInv'
<1>1. CASE \E c \in Blocks : PassesNew(t, c)
  BY <1>1, NewMakes, MakeKeeps, Zenon
<1>2. CASE PassesNothing
  BY <1>2, EmptySteps, StepKeeps, Zenon
<1>3. CASE PassesCopy(t)
  BY <1>3, CopySteps, StepKeeps, Zenon
<1>4. CASE PassesMine(t)
  BY <1>4, MoveSteps, StepKeeps, Zenon
<1> QED BY <1>1, <1>2, <1>3, <1>4, Zenon DEF Pass, PassesNew, PassesNothing, PassesCopy,
    PassesMine

\* Both operations start with their argument.
LEMMA CallKeeps ==
  ASSUME IndInv, NEW t \in Threads, Store(t) \/ CompareExchange(t)
  PROVE  IndInv'
BY PassKeeps, Zenon DEF Store, CompareExchange, Calls

\* Every step keeps the invariant.
LEMMA Inductive == IndInv /\ [Next]_vars => IndInv'
<1> SUFFICES ASSUME IndInv, [Next]_vars PROVE IndInv'
  OBVIOUS
<1>1. CASE UNCHANGED vars
  BY <1>1, Stutters
<1>2. ASSUME NEW t \in Threads,
             \/ Drop(t) \/ Return(t)
             \/ Store(t) \/ StoreStrong(t) \/ Exchange(t) \/ Cleanup(t)
             \/ CompareExchange(t) \/ CompareStamp(t) \/ CompareStrong(t) \/ Cas(t) \/ CasUndo(t)
             \/ Load(t) \/ FetchIncrement(t) \/ Update(t) \/ UpdateCas(t) \/ UpdateEnd(t) \/ Assign(t)
      PROVE  IndInv'
  <2>1. StrongPositive
    BY Positive
  <2>2. CASE Store(t) \/ CompareExchange(t)
    BY <2>2, CallKeeps
  <2>3. CASE ~(Store(t) \/ CompareExchange(t))
    <3>1. \E c : Steps(t, c)
      BY <1>2, <2>1, <2>3, DropSteps, ReturnSteps, StoreStrongSteps, ExchangeSteps, CleanupSteps,
         CompareStampSteps, CompareStrongSteps, CasSteps, CasUndoSteps, LoadSteps, FetchIncrementSteps,
         UpdateSteps, UpdateCasSteps, UpdateEndSteps, AssignSteps, Zenon
    <3> QED BY <3>1, StepKeeps
  <2> QED BY <2>2, <2>3
<1> QED BY <1>1, <1>2, Zenon DEF Next, Finished

-----------------------------------------------------------------------------
(* The results. *)

\* The types, the references and the counters, in every reachable state.
THEOREM Invariance == Spec => []IndInv
BY Initial, Inductive, PTL DEF Spec

\* A block is allocated exactly as long as the word or a SharedPtr refers to
\* it: Reset and CleanupStampedBlock delete it when, and only when, they take
\* the last reference away.
THEOREM Alive == Spec => []AliveWhileReferred
<1>1. IndInv => AliveWhileReferred
  BY DEF IndInv, TypeOK, AliveWhileReferred, Referred
<1> QED BY <1>1, Invariance, PTL

\* SplitCount and the stamp of the word count every reference, whatever loads,
\* stores and flushes are under way.
THEOREM Counts == Spec => []CountsAgree
<1>1. ASSUME IndInv PROVE CountsAgree
  <2> SUFFICES ASSUME NEW b \in alive
               PROVE  /\ strong[b] = (IF block = b THEN 1 ELSE 0)
                                      + Cardinality(Adding(b)) + Cardinality(Removing(b))
                      /\ transient[b] + (IF block = b THEN stamp ELSE 0) + Cardinality(Missing(b))
                           = Cardinality(Mine(b)) + Cardinality(Args(b)) + Cardinality(Loaded(b))
                               + Cardinality(Twice(b))
    BY <1>1 DEF IndInv, CountsAgree
  <2>1. TypeOK /\ Agree(b)
    BY <1>1 DEF IndInv
  <2>2. /\ IsFiniteSet(Mine(b)) /\ IsFiniteSet(Args(b)) /\ IsFiniteSet(Loaded(b))
        /\ IsFiniteSet(Twice(b)) /\ IsFiniteSet(Missing(b))
    BY <2>1, Finite
  <2>3. /\ Cardinality(Mine(b)) \in Nat /\ Cardinality(Args(b)) \in Nat /\ Cardinality(Loaded(b)) \in Nat
        /\ Cardinality(Twice(b)) \in Nat /\ Cardinality(Missing(b)) \in Nat /\ stamp \in Nat
    BY <2>1, <2>2, FS_CardinalityType, SharedPtrAssumption DEF TypeOK
  <2>4. strong[b] = StrongCount(b) /\ transient[b] = TransientCount(b)
    BY <2>1 DEF Agree
  <2> QED BY <2>3, <2>4 DEF StrongCount, TransientCount, Owned, Stamped, One
<1> QED BY <1>1, Invariance, PTL

=============================================================================
