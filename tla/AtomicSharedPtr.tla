-------------------------- MODULE AtomicSharedPtr --------------------------
(***************************************************************************)
(* AtomicSharedPtr and SharedPtr (lf/memory/atomic_shared_ptr.hpp).  Load   *)
(* counts its reference in the stamp of the word block_; whoever takes a    *)
(* block out of block_ adds that stamp to the counter of the block, so that *)
(* transient and strong are each other's missing half until then.  A block  *)
(* is deleted by whoever finds both zero.                                   *)
(*                                                                          *)
(* Each thread has a SharedPtr of its own, and passes a copy of it, the     *)
(* pointer itself or a new one to the operations.  The loops around a CAS   *)
(* (FetchIncrement, FetchAdd...) are one step each: an attempt that fails   *)
(* changes nothing.                                                         *)
(***************************************************************************)
EXTENDS Integers, FiniteSets

CONSTANTS
  Threads,
  Blocks,      \* heap cells for blocks
  Null,        \* nullptr
  Threshold,   \* 10000: Load flushes a larger stamp
  MaxStamp,    \* kMaxStamp; bound: no more loads of a block between two flushes
  MaxOps       \* bound: operations of a thread

ASSUME SharedPtrAssumption ==
  /\ IsFiniteSet(Threads) /\ Null \notin Blocks
  /\ Threshold \in Nat /\ MaxOps \in Nat /\ MaxStamp \in Nat /\ MaxStamp < 65536

VARIABLES
  block, stamp,          \* block_
  transient, strong,     \* counter of a block
  alive,                 \* the blocks that are allocated
  pc,                    \* where a thread is
  mine,                  \* the SharedPtr of a thread (expected)
  arg,                   \* target, desired
  old, oldStamp,         \* old_block, block_old, was_expected_sptr
  ops                    \* operations of a thread so far

vars == <<block, stamp, transient, strong, alive, pc, mine, arg, old, oldStamp, ops>>
word == <<block, stamp>>
counters == <<transient, strong, alive>>
locals == <<mine, arg, old, oldStamp>>

Init ==
  /\ block = Null /\ stamp = 0
  /\ transient = [b \in Blocks |-> 0] /\ strong = [b \in Blocks |-> 0] /\ alive = {}
  /\ pc = [t \in Threads |-> "idle"]
  /\ mine = [t \in Threads |-> Null] /\ arg = [t \in Threads |-> Null]
  /\ old = [t \in Threads |-> Null] /\ oldStamp = [t \in Threads |-> 0]
  /\ ops = [t \in Threads |-> 0]

Goto(t, label) == pc' = [pc EXCEPT ![t] = label]
Begin(t) == pc[t] = "idle" /\ ops[t] < MaxOps /\ ops' = [ops EXCEPT ![t] = @ + 1]

\* FetchAddTransientAndStrong, FetchAddTransient, FetchAddStrong.
FetchAdd(b, tr, st) ==
  /\ transient' = [transient EXCEPT ![b] = @ + tr]
  /\ strong' = [strong EXCEPT ![b] = @ + st]

\* The same, and the test of Reset and of CleanupStampedBlock.
AddAndDeleteStrong(b, tr, st) ==                            \* mutant
  /\ FetchAdd(b, tr, st)
  /\ alive' = IF strong[b] + st = 0 THEN alive \ {b} ELSE alive
AddAndDelete(b, tr, st) ==
  /\ FetchAdd(b, tr, st)
  /\ alive' = IF transient[b] + tr = 0 /\ strong[b] + st = 0 THEN alive \ {b} ELSE alive

\* Reset, also by a destructor.
Reset(b) == IF b = Null THEN UNCHANGED counters ELSE AddAndDelete(b, -1, 0)

\* MakeShared into a block b.
MakeShared(b) ==
  /\ b \notin alive
  /\ alive' = alive \union {b}
  /\ transient' = [transient EXCEPT ![b] = 1]
  /\ strong' = [strong EXCEPT ![b] = 0]

\* p.Reset().
Drop(t) ==
  /\ Begin(t) /\ mine[t] # Null
  /\ Reset(mine[t])
  /\ mine' = [mine EXCEPT ![t] = Null]
  /\ UNCHANGED <<word, pc, arg, old, oldStamp>>

\* The argument of Store or CompareExchangeWeak: a new SharedPtr, an empty
\* one, a copy of the thread's, or (for Store) that one itself.
Pass(t, op) ==
  \/ \E b \in Blocks :
       MakeShared(b) /\ arg' = [arg EXCEPT ![t] = b] /\ UNCHANGED mine
  \/ UNCHANGED <<counters, arg, mine>>
  \/ /\ mine[t] # Null
     /\ FetchAdd(mine[t], 1, 0)
     /\ arg' = [arg EXCEPT ![t] = mine[t]]
     /\ UNCHANGED <<alive, mine>>
  \/ /\ op = "store" /\ mine[t] # Null
     /\ arg' = [arg EXCEPT ![t] = mine[t]]
     /\ mine' = [mine EXCEPT ![t] = Null]
     /\ UNCHANGED counters

Store(t) ==
  /\ Begin(t)
  /\ Pass(t, "store")
  /\ Goto(t, "store")
  /\ UNCHANGED <<word, old, oldStamp>>

\* FetchAddStrong of target.
StoreStrong(t) ==
  /\ pc[t] = "store"
  /\ IF arg[t] = Null THEN UNCHANGED <<transient, strong>> ELSE FetchAdd(arg[t], 0, 1)
  /\ Goto(t, "exchange")
  /\ UNCHANGED <<word, alive, locals, ops>>

Exchange(t) ==
  /\ pc[t] = "exchange"
  /\ old' = [old EXCEPT ![t] = block] /\ oldStamp' = [oldStamp EXCEPT ![t] = stamp]
  /\ block' = arg[t] /\ stamp' = 0
  /\ Goto(t, "cleanup")
  /\ UNCHANGED <<counters, mine, arg, ops>>

Cleanup(t) ==
  /\ pc[t] = "cleanup"
  /\ IF old[t] = Null THEN UNCHANGED counters ELSE AddAndDelete(old[t], oldStamp[t], -1)
  /\ Goto(t, "return")
  /\ UNCHANGED <<word, locals, ops>>

\* The argument is destroyed.
Return(t) ==
  /\ pc[t] = "return"
  /\ Reset(arg[t])
  /\ arg' = [arg EXCEPT ![t] = Null]
  /\ Goto(t, "idle")
  /\ UNCHANGED <<word, mine, old, oldStamp, ops>>

CompareExchange(t) ==
  /\ Begin(t)
  /\ Pass(t, "compareExchange")
  /\ Goto(t, "stamp")
  /\ UNCHANGED <<word, old, oldStamp>>

\* The stamp of block_, whatever block it is of.
CompareStamp(t) ==
  /\ pc[t] = "stamp"
  /\ oldStamp' = [oldStamp EXCEPT ![t] = stamp]
  /\ Goto(t, "compare")
  /\ UNCHANGED <<word, counters, mine, arg, old, ops>>

CompareStrong(t) ==
  /\ pc[t] = "compare"
  /\ IF arg[t] = Null THEN UNCHANGED <<transient, strong>> ELSE FetchAdd(arg[t], 0, 1)
  /\ Goto(t, "cas")
  /\ UNCHANGED <<word, alive, locals, ops>>

\* The weak CAS of the word.
Cas(t) ==
  /\ pc[t] = "cas"
  /\ \/ /\ block = mine[t] /\ stamp = oldStamp[t]
        /\ old' = [old EXCEPT ![t] = mine[t]]
        /\ block' = arg[t] /\ stamp' = 0
        /\ Goto(t, "cleanup")
     \/ Goto(t, "undo") /\ UNCHANGED <<word, old>>
  /\ UNCHANGED <<counters, mine, arg, oldStamp, ops>>

CasUndo(t) ==
  /\ pc[t] = "undo"
  /\ IF arg[t] = Null THEN UNCHANGED <<transient, strong>> ELSE FetchAdd(arg[t], 0, -1)
  /\ Goto(t, "load")
  /\ UNCHANGED <<word, alive, locals, ops>>

Load(t) ==
  /\ Begin(t)
  /\ Goto(t, "load")
  /\ UNCHANGED <<word, counters, locals>>

\* FetchIncrement; the stamp of an empty word, which counts nothing, wraps.
FetchIncrement(t) ==
  /\ pc[t] = "load" /\ (stamp < MaxStamp \/ block = Null)
  /\ stamp' = IF stamp < MaxStamp THEN stamp + 1 ELSE 0
  /\ old' = [old EXCEPT ![t] = block] /\ oldStamp' = [oldStamp EXCEPT ![t] = stamp']
  /\ Goto(t, IF stamp' > Threshold /\ block # Null THEN "update" ELSE "assign")
  /\ UNCHANGED <<block, counters, mine, arg, ops>>

\* TryUpdateTransient: first the counter, ...
Update(t) ==
  /\ pc[t] = "update"
  /\ FetchAdd(old[t], oldStamp[t], 1)
  /\ Goto(t, "updateCas")
  /\ UNCHANGED <<word, alive, locals, ops>>

\* ... then the word, ...
UpdateCas(t) ==
  /\ pc[t] = "updateCas"
  /\ \/ /\ block = old[t] /\ stamp = oldStamp[t]
        /\ stamp' = 0
        /\ Goto(t, "updated")
     \/ Goto(t, "notUpdated") /\ UNCHANGED stamp
  /\ UNCHANGED <<block, counters, locals, ops>>

\* ... and what was added for the time in between is taken back.
UpdateEndStrong(t) ==                                       \* mutant
  /\ pc[t] \in {"updated", "notUpdated"} /\ FetchAdd(old[t], 0, -1)
  /\ Goto(t, "assign")
  /\ UNCHANGED <<word, alive, locals, ops>>
UpdateEnd(t) ==
  /\ \/ pc[t] = "updated" /\ FetchAdd(old[t], 0, -1)
     \/ pc[t] = "notUpdated" /\ FetchAdd(old[t], -oldStamp[t], -1)
  /\ Goto(t, "assign")
  /\ UNCHANGED <<word, alive, locals, ops>>

\* The result is moved to the thread's own SharedPtr, which is Reset.
Assign(t) ==
  /\ pc[t] = "assign"
  /\ Reset(mine[t])
  /\ mine' = [mine EXCEPT ![t] = old[t]]
  /\ Goto(t, "return")
  /\ UNCHANGED <<word, arg, old, oldStamp, ops>>

Finished ==
  /\ \A t \in Threads : (pc[t] = "idle" /\ ops[t] = MaxOps) \/ (pc[t] = "load" /\ stamp = MaxStamp /\ block # Null)
  /\ UNCHANGED vars

Next ==
  \/ \E t \in Threads :
       \/ Drop(t) \/ Return(t)
       \/ Store(t) \/ StoreStrong(t) \/ Exchange(t) \/ Cleanup(t)
       \/ CompareExchange(t) \/ CompareStamp(t) \/ CompareStrong(t) \/ Cas(t) \/ CasUndo(t)
       \/ Load(t) \/ FetchIncrement(t) \/ Update(t) \/ UpdateCas(t) \/ UpdateEnd(t) \/ Assign(t)
  \/ Finished

Spec == Init /\ [][Next]_vars

-----------------------------------------------------------------------------
(* Properties. *)

\* Types.
TypeOK ==
  /\ block \in Blocks \union {Null} /\ stamp \in 0 .. MaxStamp
  /\ transient \in [Blocks -> Int] /\ strong \in [Blocks -> Nat]
  /\ alive \subseteq Blocks
  /\ pc \in [Threads -> {"idle", "store", "exchange", "cleanup", "return", "stamp", "compare", "cas",
                         "undo", "load", "update", "updateCas", "updated", "notUpdated", "assign"}]
  /\ mine \in [Threads -> Blocks \union {Null}] /\ arg \in [Threads -> Blocks \union {Null}]
  /\ old \in [Threads -> Blocks \union {Null}] /\ oldStamp \in [Threads -> 0 .. MaxStamp]
  /\ ops \in [Threads -> 0 .. MaxOps]

Updating == {"update", "updateCas", "updated", "notUpdated"}

\* The SharedPtrs of threads to block b: their own, their arguments, and what
\* Load is about to return.
Mine(b) == {t \in Threads : mine[t] = b}
Args(b) == {t \in Threads : arg[t] = b}
Loaded(b) == {t \in Threads : old[t] = b /\ pc[t] \in Updating \union {"assign"}}

\* Who refers to block b: block_, and the pointers of the threads.
ReferredBy(t, b) ==
  mine[t] = b \/ arg[t] = b \/ (old[t] = b /\ pc[t] \in Updating \union {"cleanup", "assign"})

\* A block is allocated exactly as long as something refers to it: none is
\* used after it was deleted, and the last one to let it go deletes it,
\* although the references are counted in two places at a time.
AliveWhileReferred ==
  alive = {b \in Blocks : block = b \/ \E t \in Threads : ReferredBy(t, b)}

\* The threads that have added one to strong of b and not yet stored b in the
\* word, or taken it back, and those that have still to subtract one.
Adding(b) == {t \in Threads : arg[t] = b /\ pc[t] \in {"exchange", "cas", "undo"}}
Removing(b) ==
  {t \in Threads : old[t] = b /\ pc[t] \in {"cleanup", "updateCas", "updated", "notUpdated"}}

\* The loads in a stamp of b that transient lacks, as the word is no longer b's
\* and Cleanup is to come, and those that it has twice, as an update has added
\* them and they are still in the word or to be subtracted.
Stamps(b, labels) ==
  {l \in Threads \X (1 .. MaxStamp) :
     old[l[1]] = b /\ pc[l[1]] \in labels /\ l[2] <= oldStamp[l[1]]}
Missing(b) == Stamps(b, {"cleanup"})
Twice(b) == Stamps(b, {"updateCas", "notUpdated"})

\* The two counters and the stamp agree with the references at every moment:
\* strong with the word and the operations under way on it, transient and the
\* stamp together with the SharedPtrs.
CountsAgree ==
  TypeOK /\ \A b \in alive :
    /\ strong[b] = (IF block = b THEN 1 ELSE 0) + Cardinality(Adding(b)) + Cardinality(Removing(b))
    /\ transient[b] + (IF block = b THEN stamp ELSE 0) + Cardinality(Missing(b))
         = Cardinality(Mine(b)) + Cardinality(Args(b)) + Cardinality(Loaded(b)) + Cardinality(Twice(b))

=============================================================================
