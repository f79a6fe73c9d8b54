---------------------------- MODULE LatchProofs ----------------------------
(***************************************************************************)
(* Proofs about Latch, for any waiters and jobs and any number of rounds,   *)
(* of all five classes.                                                     *)
(*                                                                          *)
(* The argument turns on the one who wakes.  From the moment it has made    *)
(* the counter zero until it has scheduled its last waiter, it holds lock_  *)
(* or somebody is still suspended, so that no Add comes: the counter stays  *)
(* zero, nobody else counts down, and nobody is added to the list.  That is *)
(* why the list may be walked without lock_, and why whoever is scheduled   *)
(* has seen the counter at zero.                                            *)
(***************************************************************************)
EXTENDS Latch, TLAPS

\* Where a waiter or a job may be.
Labels ==
  {"idle", "suspending", "ready", "parked", "woken", "scheduled", "working",
   "unlock", "pop", "fired", "walk", "last", "schedule"}

\* Who is where, in which class.
PlaceAt ==
  /\ \A w \in Waiters :
       /\ pc[w] \in {"idle", "suspending", "ready", "parked", "woken", "scheduled"}
       /\ pc[w] = "suspending" => kind \in FiberKinds
       /\ pc[w] = "woken" => kind = "threadGroup"
  /\ \A j \in Jobs :
       /\ pc[j] \in {"idle", "working", "unlock", "pop", "fired", "walk", "last", "schedule"}
       /\ pc[j] = "pop" => kind \in FiberKinds
       /\ pc[j] = "fired" => kind = "coroEvent"
       /\ pc[j] \in {"walk", "last"} => kind \in CoroKinds
       /\ pc[j] = "schedule" => kind # "threadGroup"
  /\ kind = "threadGroup" => waiters = <<>>
  /\ kind \in Events => count <= 1 /\ \A j \in Jobs : todo[j] = 0

\* lock_ is held in the blocks under it and nowhere else.
UnderLock(j) ==
  \/ pc[j] \in {"unlock", "pop", "fired"}
  \/ pc[j] = "walk" /\ kind = "coroGroup"
  \/ pc[j] = "schedule" /\ ~last[j] /\ kind # "coroEvent"
GuardAt ==
  /\ \A w \in Waiters :
       /\ pc[w] = "ready" => guard = w
       /\ guard = w => pc[w] = "ready" \/ (pc[w] = "parked" /\ count # 0)
  /\ \A j \in Jobs : guard = j <=> UnderLock(j)

\* Job j has made the counter zero and has still somebody to wake.
Wakes(j) ==
  \/ pc[j] \in {"pop", "fired", "walk", "last"}
  \/ pc[j] = "schedule" /\ (~last[j] \/ waiter[j] # Nobody)
OneWaker ==
  /\ \A j \in Jobs : Wakes(j) => count = 0
  /\ \A j, k \in Jobs : Wakes(j) /\ Wakes(k) => j = k

\* The list holds suspended waiters, each once, and not the one that was popped.
Listed(w) == \E i \in 1 .. Len(waiters) : waiters[i] = w
Once == \A i, k \in 1 .. Len(waiters) : waiters[i] = waiters[k] => i = k
ListAt == \A w \in Waiters : Listed(w) => pc[w] = "parked"
PoppedAt ==
  \A j \in Jobs, w \in Waiters :
    pc[j] = "schedule" /\ waiter[j] = w => pc[w] = "parked" /\ ~Listed(w)
WalkAt ==
  \A j \in Jobs :
    /\ pc[j] = "walk" \/ (pc[j] = "schedule" /\ ~last[j]) => waiters # <<>>
    /\ pc[j] = "last" => Len(waiters) = 1

\* Whoever is let out of Wait leaves it while the counter is zero.
ZeroAt ==
  \A w \in Waiters :
    /\ pc[w] # "idle" /\ count = 0 => sawZero[w]
    /\ pc[w] \in {"ready", "scheduled"} => count = 0

\* Before the first waiter of the round is scheduled nobody has returned.
Quiet == ~synced /\ \A w \in Waiters : pc[w] # "scheduled"
SyncAt ==
  /\ synced => count = 0
  /\ \A j \in Jobs :
       /\ pc[j] \in {"unlock", "fired"} => Quiet
       /\ pc[j] = "pop" => waiters # <<>> \/ Quiet
       /\ pc[j] = "unlock" => \A k \in Jobs : ~Wakes(k)

\* A job that has yet to call Fire or Done is counted.
WorkAt == \A j \in Jobs : pc[j] = "working" => count # 0

\* The invariant of the calls; with the counter, below, it is inductive.
CallInv ==
  /\ TypeOK /\ PlaceAt /\ GuardAt /\ OneWaker
  /\ Once /\ ListAt /\ PoppedAt /\ WalkAt /\ ZeroAt /\ SyncAt


-----------------------------------------------------------------------------
(* The list. *)

\* PopFront takes the first waiter from the list, and nobody else.
LEMMA PopFront ==
  ASSUME waiters \in Seq(Waiters), waiters # <<>>, Once, waiters' = Tail(waiters)
  PROVE  /\ Head(waiters) \in Waiters /\ Listed(Head(waiters))
         /\ waiters' \in Seq(Waiters)
         /\ \A w \in Waiters : Listed(w)' <=> Listed(w) /\ w # Head(waiters)
         /\ Once'
<1> DEFINE h == Head(waiters)
<1>1. /\ waiters' \in Seq(Waiters) /\ h \in Waiters /\ h = waiters[1]
      /\ Len(waiters) \in Nat \ {0} /\ Len(waiters') = Len(waiters) - 1
      /\ \A i \in 1 .. Len(waiters') : waiters'[i] = waiters[i + 1]
  OBVIOUS
<1> HIDE DEF h
<1>2. 1 \in 1 .. Len(waiters) /\ \A i \in 1 .. Len(waiters') : i + 1 \in 1 .. Len(waiters) /\ i + 1 # 1
  BY <1>1
<1>3. Listed(h)
  BY <1>1, <1>2 DEF Listed
<1>4. ASSUME NEW w \in Waiters, NEW i \in 1 .. Len(waiters'), waiters'[i] = w
      PROVE  Listed(w) /\ w # h
  <2>1. waiters[i + 1] = w /\ i + 1 \in 1 .. Len(waiters) /\ i + 1 # 1
    BY <1>1, <1>2, <1>4
  <2> QED BY <1>1, <1>2, <2>1 DEF Listed, Once
<1>5. ASSUME NEW w \in Waiters, w # h, NEW i \in 1 .. Len(waiters), waiters[i] = w
      PROVE  \E k \in 1 .. Len(waiters') : waiters'[k] = w
  <2>1. i # 1
    BY <1>1, <1>5
  <2>2. i - 1 \in 1 .. Len(waiters') /\ (i - 1) + 1 = i
    BY <1>1, <2>1
  <2>3. waiters'[i - 1] = w
    BY <1>1, <1>5, <2>2
  <2> QED BY <2>2, <2>3
<1>6. \A w \in Waiters : Listed(w)' <=> Listed(w) /\ w # h
  BY <1>4, <1>5 DEF Listed
<1>7. Once'
  <2> SUFFICES ASSUME NEW i \in 1 .. Len(waiters'), NEW k \in 1 .. Len(waiters'), waiters'[i] = waiters'[k]
               PROVE  i = k
    BY DEF Once
  <2>1. waiters[i + 1] = waiters[k + 1] /\ i + 1 \in 1 .. Len(waiters) /\ k + 1 \in 1 .. Len(waiters)
    BY <1>1, <1>2
  <2>2. i + 1 = k + 1
    BY <2>1 DEF Once
  <2> QED BY <1>1, <2>2
<1> QED BY <1>1, <1>3, <1>6, <1>7 DEF h

\* PushBack adds a waiter that is not in the list.
LEMMA PushBack ==
  ASSUME waiters \in Seq(Waiters), Once, NEW w \in Waiters, ~Listed(w), waiters' = Append(waiters, w)
  PROVE  /\ waiters' \in Seq(Waiters) /\ waiters' # <<>>
         /\ \A v \in Waiters : Listed(v)' <=> Listed(v) \/ v = w
         /\ Once'
<1>1. /\ waiters' \in Seq(Waiters) /\ Len(waiters') = Len(waiters) + 1 /\ Len(waiters) \in Nat
      /\ \A i \in 1 .. Len(waiters) : waiters'[i] = waiters[i]
      /\ waiters'[Len(waiters) + 1] = w
  OBVIOUS
<1>2. waiters' # <<>>
  BY <1>1
<1>3. /\ \A i \in 1 .. Len(waiters) : i \in 1 .. Len(waiters')
      /\ Len(waiters) + 1 \in 1 .. Len(waiters')
      /\ \A i \in 1 .. Len(waiters') : i \in 1 .. Len(waiters) \/ i = Len(waiters) + 1
  BY <1>1
<1>4. ASSUME NEW v \in Waiters
      PROVE  Listed(v)' <=> Listed(v) \/ v = w
  BY <1>1, <1>3 DEF Listed
<1>5. Once'
  <2> SUFFICES ASSUME NEW i \in 1 .. Len(waiters'), NEW k \in 1 .. Len(waiters'), waiters'[i] = waiters'[k]
               PROVE  i = k
    BY DEF Once
  <2>1. CASE i \in 1 .. Len(waiters) /\ k \in 1 .. Len(waiters)
    BY <1>1, <2>1 DEF Once
  <2>2. ~(i \in 1 .. Len(waiters) /\ k = Len(waiters) + 1) /\ ~(k \in 1 .. Len(waiters) /\ i = Len(waiters) + 1)
    BY <1>1 DEF Listed
  <2> QED BY <1>3, <2>1, <2>2
<1> QED BY <1>1, <1>2, <1>4, <1>5

\* Whoever is first in the list is suspended.
LEMMA SomebodyParked ==
  ASSUME CallInv, waiters # <<>>
  PROVE  \E w \in Waiters : Listed(w) /\ pc[w] = "parked"
<1>1. waiters[1] \in Waiters /\ 1 \in 1 .. Len(waiters)
  BY DEF CallInv, TypeOK
<1>2. Listed(waiters[1])
  BY <1>1 DEF Listed
<1> QED BY <1>1, <1>2 DEF CallInv, ListAt

-----------------------------------------------------------------------------
(* What the counter says. *)

\* Who is about to call Fire or Done is counted: nobody has seen zero yet, and
\* nobody wakes.
LEMMA WorkingCounts ==
  ASSUME CallInv, WorkAt, NEW j \in Jobs, pc[j] = "working"
  PROVE  /\ count \in Nat \ {0} /\ ~synced
         /\ kind \in Events => count = 1
         /\ \A k \in Jobs : ~Wakes(k)
         /\ \A w \in Waiters : pc[w] # "ready" /\ pc[w] # "scheduled"
BY DEF CallInv, WorkAt, TypeOK, PlaceAt, OneWaker, ZeroAt, SyncAt

\* Add is called only when nobody wakes and nobody was let out of Wait.
LEMMA AddAlone ==
  ASSUME CallInv, NEW j \in Jobs, Add(j)
  PROVE  /\ \A k \in Jobs : ~Wakes(k) /\ pc[k] # "unlock"
         /\ \A w \in Waiters : pc[w] # "ready" /\ pc[w] # "scheduled"
<1>1. guard = Nobody /\ todo[j] # 0 /\ (count # 0 \/ \A w \in Waiters : pc[w] = "idle")
  BY DEF Add, CallInv, TypeOK
<1>2. kind \notin Events
  BY <1>1 DEF CallInv, TypeOK, PlaceAt
<1>3. \A k \in Jobs : ~UnderLock(k)
  BY <1>1, LatchAssumption DEF CallInv, GuardAt
<1>4. ASSUME NEW k \in Jobs, Wakes(k)
      PROVE  FALSE
  <2>1. \A w \in Waiters : pc[w] = "idle"
    BY Zenon, <1>1, <1>4 DEF CallInv, TypeOK, OneWaker
  <2>2. waiters = <<>>
    BY <2>1, SomebodyParked
  <2>3. Len(waiters) = 0
    BY <2>2
  <2>4. pc[k] = "schedule" => waiter[k] = Nobody
    BY <2>1 DEF CallInv, PoppedAt, TypeOK
  <2>5. pc[k] # "walk" /\ pc[k] # "last" /\ ~(pc[k] = "schedule" /\ ~last[k])
    BY <2>2, <2>3 DEF CallInv, WalkAt
  <2> QED BY <1>3, <1>4, <2>4, <2>5 DEF UnderLock, Wakes
<1>5. \A w \in Waiters : pc[w] # "ready" /\ pc[w] # "scheduled"
  BY Zenon, <1>1 DEF CallInv, TypeOK, ZeroAt
<1> QED BY <1>3, <1>4, <1>5 DEF UnderLock

\* One round less is to go.
LEMMA OneRoundLess ==
  ASSUME TypeOK, NEW p \in Waiters \union Jobs, todo[p] > 0, todo' = [todo EXCEPT ![p] = @ - 1]
  PROVE  /\ todo[p] # 0 /\ todo' \in [Waiters \union Jobs -> Nat]
         /\ \A q \in Waiters \union Jobs : q # p => todo'[q] = todo[q]
<1>1. todo \in [Waiters \union Jobs -> Nat]
  BY DEF TypeOK
<1>2. todo[p] # 0 /\ todo[p] - 1 \in Nat
  BY <1>1
<1> QED BY <1>1, <1>2

-----------------------------------------------------------------------------
(* Every step keeps the invariant. *)

\* The invariant holds at the beginning.
LEMMA Initial == Init => CallInv
<1> SUFFICES ASSUME Init PROVE CallInv
  OBVIOUS
<1> USE LatchAssumption DEF Init
<1>0. /\ waiters = <<>> /\ waiters \in Seq(Waiters) /\ Len(waiters) = 0
      /\ \A w \in Waiters : pc[w] = "idle"
      /\ \A j \in Jobs : pc[j] \in {"idle", "working"}
      /\ pc \in [Waiters \union Jobs -> {"idle", "working"}]
  OBVIOUS
<1>1. TypeOK
  BY Zenon, <1>0 DEF TypeOK
<1>3. PlaceAt
  BY <1>0 DEF PlaceAt
<1>4. GuardAt
  BY <1>0 DEF GuardAt, UnderLock
<1>5. OneWaker
  BY <1>0 DEF OneWaker, Wakes
<1>6. Once /\ ListAt /\ PoppedAt /\ WalkAt
  BY <1>0 DEF Once, ListAt, PoppedAt, WalkAt, Listed
<1>7. ZeroAt /\ SyncAt
  BY <1>0 DEF ZeroAt, SyncAt
<1> QED BY <1>1, <1>3, <1>4, <1>5, <1>6, <1>7 DEF CallInv

\* The next waiter of fibers is taken from the list, under lock_.
LEMMA FiberPopKeeps ==
  ASSUME CallInv, WorkAt, NEW j \in Jobs, FiberPop(j)
  PROVE  CallInv'
<1> USE LatchAssumption DEF CallInv
<1>1. /\ pc[j] = "pop" /\ pc'[j] = "schedule"
      /\ (\A w \in Waiters : pc'[w] = pc[w]) /\ (\A k \in Jobs : k # j => pc'[k] = pc[k])
      /\ \A k \in Jobs : k # j => waiter'[k] = waiter[k] /\ last'[k] = last[k]
      /\ kind' = kind /\ count' = count /\ todo' = todo /\ sawZero' = sawZero /\ synced' = synced
      /\ kind \in FiberKinds
  BY DEF FiberPop, Goto, history, TypeOK, PlaceAt
<1>2. /\ waiter'[j] = IF waiters = <<>> THEN Nobody ELSE Head(waiters)
      /\ guard' = IF waiters' = <<>> THEN Nobody ELSE guard
      /\ waiters' = IF waiters = <<>> THEN waiters ELSE Tail(waiters)
  BY DEF FiberPop, TypeOK
<1>3. last'[j] <=> waiters' = <<>>
  BY Zenon DEF FiberPop, TypeOK
<1>4. /\ waiters' \in Seq(Waiters) /\ Once'
      /\ waiter'[j] \in Waiters \union {Nobody}
      /\ waiter'[j] = Nobody <=> waiters = <<>>
      /\ \A w \in Waiters : Listed(w)' <=> Listed(w) /\ waiter'[j] # w
      /\ \A w \in Waiters : waiter'[j] = w => Listed(w)
      /\ waiters = <<>> => waiters' = <<>>
  <2>1. CASE waiters = <<>>
    BY <1>2, <2>1 DEF TypeOK, Once, Listed
  <2>2. CASE waiters # <<>>
    <3>1. waiters' = Tail(waiters) /\ waiter'[j] = Head(waiters)
      BY <1>2, <2>2
    <3> QED BY <2>2, <3>1, PopFront DEF TypeOK
  <2> QED BY <2>1, <2>2
<1>5. guard = j /\ (\A k \in Jobs : UnderLock(k) => k = j) /\ Wakes(j) /\ count = 0
  BY <1>1 DEF GuardAt, UnderLock, Wakes, OneWaker
<1>6. \A k \in Jobs : k # j => ~Wakes(k)
  BY <1>5 DEF OneWaker
<1>7. pc' \in [Waiters \union Jobs -> Labels] /\ waiter' \in [Jobs -> Waiters \union {Nobody}]
  BY <1>4 DEF FiberPop, Goto, TypeOK, Labels
<1>8. last' \in [Jobs -> BOOLEAN]
  BY DEF FiberPop, TypeOK
<1>9. TypeOK'
  BY <1>1, <1>2, <1>4, <1>7, <1>8 DEF TypeOK, Labels
<1>10. \A k \in Jobs : k # j => (Wakes(k)' <=> Wakes(k)) /\ (UnderLock(k)' <=> UnderLock(k))
  BY <1>1 DEF Wakes, UnderLock
<1>11. UnderLock(j)' <=> guard' = j
  BY <1>1, <1>2, <1>3, <1>5 DEF UnderLock, FiberKinds
<1>13. PlaceAt'
  BY <1>1 DEF PlaceAt, FiberKinds, CoroKinds
<1>14. GuardAt'
  BY <1>1, <1>2, <1>5, <1>10, <1>11 DEF GuardAt
<1>15. OneWaker'
  BY <1>1, <1>5, <1>6, <1>10 DEF OneWaker
<1>16. ListAt'
  BY <1>1, <1>4 DEF ListAt
<1>17. PoppedAt'
  <2> SUFFICES ASSUME NEW k \in Jobs, NEW w \in Waiters, pc'[k] = "schedule", waiter'[k] = w
               PROVE  pc'[w] = "parked" /\ ~Listed(w)'
    BY DEF PoppedAt
  <2>1. CASE k = j
    BY <1>1, <1>4, <2>1 DEF ListAt
  <2>2. CASE k # j
    BY <1>1, <1>4, <2>2 DEF PoppedAt
  <2> QED BY <2>1, <2>2
<1>18. WalkAt'
  <2> SUFFICES ASSUME NEW k \in Jobs
               PROVE  /\ pc'[k] = "walk" \/ (pc'[k] = "schedule" /\ ~last'[k]) => waiters' # <<>>
                      /\ pc'[k] = "last" => Len(waiters') = 1
    BY DEF WalkAt
  <2>1. CASE k = j
    BY <1>1, <1>3, <2>1
  <2>2. CASE k # j
    BY <1>1, <1>6, <2>2 DEF Wakes
  <2> QED BY <2>1, <2>2
<1>19. ZeroAt'
  BY <1>1 DEF ZeroAt
<1>20. SyncAt'
  <2>1. \A k \in Jobs : k # j => pc'[k] # "unlock" /\ pc'[k] # "fired" /\ pc'[k] # "pop"
    BY <1>1, <1>5 DEF UnderLock
  <2> QED BY <1>1, <2>1 DEF SyncAt
<1> QED BY <1>4, <1>9, <1>13, <1>14, <1>15, <1>16, <1>17, <1>18, <1>19, <1>20

\* The next waiter of coroutines is taken from the list, with lock_ or without it.
LEMMA CoroPopKeeps ==
  ASSUME CallInv, WorkAt, NEW j \in Jobs, CoroPop(j)
  PROVE  CallInv'
<1> USE LatchAssumption DEF CallInv
<1>1. /\ pc[j] \in {"walk", "last"} /\ pc'[j] = "schedule"
      /\ (\A w \in Waiters : pc'[w] = pc[w]) /\ (\A k \in Jobs : k # j => pc'[k] = pc[k])
      /\ \A k \in Jobs : k # j => waiter'[k] = waiter[k] /\ last'[k] = last[k]
      /\ kind' = kind /\ guard' = guard /\ count' = count /\ todo' = todo /\ sawZero' = sawZero /\ synced' = synced
      /\ kind \in CoroKinds
      /\ waiter'[j] = Head(waiters) /\ waiters' = Tail(waiters)
  BY DEF CoroPop, Goto, history, TypeOK, PlaceAt
<1>2. last'[j] <=> pc[j] = "last"
  BY Zenon DEF CoroPop, TypeOK
<1>3. waiters # <<>> /\ Len(waiters) \in Nat
  BY <1>1 DEF WalkAt, TypeOK
<1>4. /\ waiters' \in Seq(Waiters) /\ Once'
      /\ waiter'[j] \in Waiters /\ Listed(waiter'[j])
      /\ \A w \in Waiters : Listed(w)' <=> Listed(w) /\ waiter'[j] # w
  BY <1>1, <1>3, PopFront DEF TypeOK
<1>5. ~last'[j] => waiters' # <<>>
  <2>1. /\ ~last'[j] => Len(waiters) > 1
        /\ waiters \in Seq(Waiters)
    BY Zenon, <1>1, <1>2 DEF CoroPop, TypeOK
  <2>2. Len(waiters') = Len(waiters) - 1 /\ Len(waiters) \in Nat
    BY SMTT(30), <1>1, <1>3, <2>1
  <2>3. waiters' = <<>> => Len(waiters') = 0
    OBVIOUS
  <2> QED BY <2>1, <2>2, <2>3
<1>6. Wakes(j) /\ count = 0 /\ \A k \in Jobs : k # j => ~Wakes(k)
  BY <1>1 DEF Wakes, OneWaker
<1>7. pc' \in [Waiters \union Jobs -> Labels] /\ waiter' \in [Jobs -> Waiters \union {Nobody}]
  BY <1>1, <1>4 DEF CoroPop, Goto, TypeOK, Labels
<1>8. last' \in [Jobs -> BOOLEAN]
  BY DEF CoroPop, TypeOK
<1>9. TypeOK'
  BY <1>1, <1>4, <1>7, <1>8 DEF TypeOK, Labels
<1>10. \A k \in Jobs : k # j => (Wakes(k)' <=> Wakes(k)) /\ (UnderLock(k)' <=> UnderLock(k))
  BY <1>1 DEF Wakes, UnderLock
<1>11. UnderLock(j)' <=> UnderLock(j)
  BY <1>1, <1>2 DEF UnderLock, CoroKinds
<1>13. PlaceAt'
  BY <1>1 DEF PlaceAt, CoroKinds
<1>14. GuardAt'
  BY Zenon, <1>1, <1>10, <1>11 DEF GuardAt
<1>15. OneWaker'
  BY <1>1, <1>6, <1>10 DEF OneWaker
<1>16. ListAt'
  BY <1>1, <1>4 DEF ListAt
<1>17. PoppedAt'
  <2> SUFFICES ASSUME NEW k \in Jobs, NEW w \in Waiters, pc'[k] = "schedule", waiter'[k] = w
               PROVE  pc'[w] = "parked" /\ ~Listed(w)'
    BY DEF PoppedAt
  <2>1. CASE k = j
    BY <1>1, <1>4, <2>1 DEF ListAt
  <2>2. CASE k # j
    BY <1>1, <1>4, <2>2 DEF PoppedAt
  <2> QED BY <2>1, <2>2
<1>18. WalkAt'
  <2> SUFFICES ASSUME NEW k \in Jobs
               PROVE  /\ pc'[k] = "walk" \/ (pc'[k] = "schedule" /\ ~last'[k]) => waiters' # <<>>
                      /\ pc'[k] = "last" => Len(waiters') = 1
    BY DEF WalkAt
  <2>1. CASE k = j
    BY <1>1, <1>5, <2>1
  <2>2. CASE k # j
    BY <1>1, <1>6, <2>2 DEF Wakes
  <2> QED BY <2>1, <2>2
<1>19. ZeroAt'
  BY <1>1 DEF ZeroAt
<1>20. Quiet' <=> Quiet
  BY <1>1 DEF Quiet
<1>21. \A k \in Jobs : pc'[k] # "unlock" /\ pc'[k] # "pop" /\ (pc'[k] = "fired" => pc[k] = "fired")
  BY <1>1, <1>6 DEF SyncAt, PlaceAt, FiberKinds, CoroKinds
<1>22. SyncAt'
  BY <1>1, <1>20, <1>21 DEF SyncAt
<1> QED BY <1>4, <1>9, <1>13, <1>14, <1>15, <1>16, <1>17, <1>18, <1>19, <1>22

\* The waiter that was popped is scheduled.
LEMMA ScheduleKeeps ==
  ASSUME CallInv, WorkAt, NEW j \in Jobs, Schedule(j)
  PROVE  CallInv'
<1> USE LatchAssumption DEF CallInv
<1>1. /\ pc[j] = "schedule" /\ (\A k \in Jobs : k # j => pc'[k] = pc[k])
      /\ pc'[j] = IF last[j] THEN "idle" ELSE IF kind \in FiberKinds THEN "pop" ELSE "walk"
      /\ \A w \in Waiters : pc'[w] = IF waiter[j] = w THEN "scheduled" ELSE pc[w]
  <2>1. CASE waiter[j] = Nobody
    BY <2>1 DEF Schedule, TypeOK
  <2>2. CASE waiter[j] # Nobody
    BY <2>2 DEF Schedule, TypeOK
  <2> QED BY <2>1, <2>2
<1>2. /\ kind' = kind /\ guard' = guard /\ count' = count /\ waiters' = waiters /\ waiter' = waiter
      /\ last' = last /\ todo' = todo /\ sawZero' = sawZero /\ synced' = synced
  BY DEF Schedule, history
<1>3. pc' \in [Waiters \union Jobs -> Labels]
  BY Zenon DEF Schedule, TypeOK, Labels
<1>4. TypeOK'
  BY <1>2, <1>3 DEF TypeOK, Labels
<1>5. \A k \in Jobs : k # j => (Wakes(k)' <=> Wakes(k)) /\ (UnderLock(k)' <=> UnderLock(k))
  BY <1>1, <1>2 DEF Wakes, UnderLock
<1>6. (Wakes(j)' => Wakes(j)) /\ (UnderLock(j)' <=> UnderLock(j))
  <2>1. kind \in FiberKinds \/ kind \in CoroKinds
    BY <1>1 DEF PlaceAt, TypeOK, Kinds
  <2> QED BY <1>1, <1>2, <2>1 DEF Wakes, UnderLock, FiberKinds, CoroKinds
<1>7. Once' /\ \A w \in Waiters : Listed(w)' <=> Listed(w)
  BY <1>2 DEF Once, Listed
<1>8. \A w \in Waiters : waiter[j] = w => Wakes(j) /\ pc[w] = "parked" /\ ~Listed(w) /\ count = 0
  BY <1>1 DEF PoppedAt, Wakes, OneWaker
<1>10. PlaceAt'
  BY <1>1, <1>2 DEF PlaceAt, TypeOK, Kinds, FiberKinds, CoroKinds
<1>11. GuardAt'
  BY <1>1, <1>2, <1>5, <1>6, <1>8 DEF GuardAt
<1>12. OneWaker'
  BY <1>2, <1>5, <1>6 DEF OneWaker
<1>13. ListAt'
  BY <1>1, <1>7, <1>8 DEF ListAt
<1>14. PoppedAt'
  <2> SUFFICES ASSUME NEW k \in Jobs, NEW w \in Waiters, pc'[k] = "schedule", waiter'[k] = w
               PROVE  pc'[w] = "parked" /\ ~Listed(w)'
    BY DEF PoppedAt
  <2>1. k # j /\ pc[k] = "schedule" /\ waiter[k] = w
    BY <1>1, <1>2
  <2>2. waiter[j] # w
    BY <1>8, <2>1 DEF Wakes, OneWaker
  <2> QED BY <1>1, <1>7, <2>1, <2>2 DEF PoppedAt
<1>15. WalkAt'
  BY <1>1, <1>2 DEF WalkAt
<1>16. ZeroAt'
  BY <1>1, <1>2, <1>8 DEF ZeroAt
<1>17. SyncAt'
  <2>1. ASSUME NEW k \in Jobs, k # j, pc[k] \in {"unlock", "fired", "pop"}
        PROVE  \A w \in Waiters : waiter[j] # w
    BY Zenon, <1>8, <2>1 DEF SyncAt, Wakes, OneWaker
  <2>2. ASSUME NEW k \in Jobs, k # j, pc[k] \in {"unlock", "fired", "pop"}
        PROVE  Quiet' <=> Quiet
    BY <1>1, <1>2, <2>1, <2>2 DEF Quiet
  <2>3. pc'[j] = "pop" => waiters' # <<>>
    BY <1>1, <1>2 DEF WalkAt
  <2>4. pc'[j] # "unlock" /\ pc'[j] # "fired"
    BY <1>1
  <2> QED BY <1>1, <1>2, <1>5, <1>6, <2>2, <2>3, <2>4 DEF SyncAt
<1> QED BY <1>4, <1>7, <1>10, <1>11, <1>12, <1>13, <1>14, <1>15, <1>16, <1>17

\* The awaiter of a fiber lets it go on, or puts it into the list.
LEMMA FiberAwaitKeeps ==
  ASSUME CallInv, WorkAt, NEW w \in Waiters, FiberAwait(w)
  PROVE  CallInv'
<1> USE LatchAssumption DEF CallInv
<1>1. /\ pc[w] = "suspending" /\ guard = Nobody /\ kind \in FiberKinds
      /\ (\A v \in Waiters : v # w => pc'[v] = pc[v]) /\ (\A j \in Jobs : pc'[j] = pc[j])
      /\ kind' = kind /\ count' = count /\ waiter' = waiter /\ last' = last /\ todo' = todo
      /\ sawZero' = sawZero /\ synced' = synced
  BY DEF FiberAwait, Goto, history, TypeOK, PlaceAt
<1>2. \/ count = 0 /\ pc'[w] = "scheduled" /\ guard' = guard /\ waiters' = waiters
      \/ count # 0 /\ pc'[w] = "parked" /\ guard' = w /\ waiters' = Append(waiters, w)
  BY DEF FiberAwait, Goto, TypeOK
<1>3. ~Listed(w) /\ \A j \in Jobs : ~(pc[j] = "schedule" /\ waiter[j] = w)
  BY Zenon, <1>1 DEF ListAt, PoppedAt
<1>4. /\ waiters' \in Seq(Waiters) /\ Once'
      /\ \A v \in Waiters : v # w => (Listed(v)' <=> Listed(v))
      /\ Listed(w)' => pc'[w] = "parked"
      /\ waiters # <<>> => waiters' # <<>>
      /\ waiters' = waiters \/ count # 0
  <2>1. CASE waiters' = waiters
    BY Zenon, <1>3, <2>1 DEF TypeOK, Once, Listed
  <2>2. CASE waiters' = Append(waiters, w) /\ pc'[w] = "parked" /\ count # 0
    BY <1>3, <2>2, PushBack DEF TypeOK
  <2> QED BY <1>2, <2>1, <2>2
<1>5. pc' \in [Waiters \union Jobs -> Labels]
  BY Zenon DEF FiberAwait, Goto, TypeOK, Labels
<1>6. TypeOK'
  BY <1>1, <1>2, <1>4, <1>5 DEF TypeOK, Labels
<1>7. \A k \in Jobs : (Wakes(k)' <=> Wakes(k)) /\ (UnderLock(k)' <=> UnderLock(k))
  BY <1>1 DEF Wakes, UnderLock
<1>8. \A k \in Jobs : pc[k] # "unlock" /\ pc[k] # "pop" /\ pc[k] # "fired"
  BY <1>1 DEF GuardAt, UnderLock
<1>10. PlaceAt'
  BY <1>1, <1>2 DEF PlaceAt, FiberKinds
<1>11. GuardAt'
  BY <1>1, <1>2, <1>7 DEF GuardAt
<1>12. OneWaker'
  BY <1>1, <1>7 DEF OneWaker
<1>13. ListAt'
  BY <1>1, <1>4 DEF ListAt
<1>14. PoppedAt'
  BY <1>1, <1>3, <1>4 DEF PoppedAt
<1>15. WalkAt'
  <2>1. \A k \in Jobs : pc[k] # "last"
    BY <1>1 DEF PlaceAt, FiberKinds, CoroKinds
  <2> QED BY <1>1, <1>4, <2>1 DEF WalkAt
<1>16. ZeroAt'
  BY <1>1, <1>2 DEF ZeroAt
<1>17. SyncAt'
  BY <1>1, <1>8 DEF SyncAt
<1> QED BY <1>4, <1>6, <1>10, <1>11, <1>12, <1>13, <1>14, <1>15, <1>16, <1>17

\* A coroutine goes on, or is put into the list.
LEMMA CoroWaitKeeps ==
  ASSUME CallInv, WorkAt, NEW w \in Waiters, CoroWait(w)
  PROVE  CallInv'
<1> USE LatchAssumption DEF CallInv
<1>1. /\ todo' \in [Waiters \union Jobs -> Nat] /\ todo[w] # 0
      /\ \A q \in Waiters \union Jobs : q # w => todo'[q] = todo[q]
  BY Zenon, OneRoundLess DEF CoroWait
<1>2. /\ pc[w] = "idle" /\ guard = Nobody /\ guard' = w /\ kind \in CoroKinds
      /\ (\A v \in Waiters : v # w => pc'[v] = pc[v]) /\ (\A j \in Jobs : pc'[j] = pc[j])
      /\ kind' = kind /\ count' = count /\ waiter' = waiter /\ last' = last /\ synced' = synced
      /\ \A v \in Waiters : v # w => sawZero'[v] = sawZero[v]
      /\ sawZero'[w] <=> count = 0
  BY Zenon DEF CoroWait, Goto, TypeOK
<1>3. \/ count = 0 /\ pc'[w] = "ready" /\ waiters' = waiters
      \/ count # 0 /\ pc'[w] = "parked" /\ waiters' = Append(waiters, w)
  BY DEF CoroWait, Goto, TypeOK
<1>4. ~Listed(w) /\ \A j \in Jobs : ~(pc[j] = "schedule" /\ waiter[j] = w)
  BY Zenon, <1>2 DEF ListAt, PoppedAt
<1>5. /\ waiters' \in Seq(Waiters) /\ Once'
      /\ \A v \in Waiters : v # w => (Listed(v)' <=> Listed(v))
      /\ Listed(w)' => pc'[w] = "parked"
      /\ waiters # <<>> => waiters' # <<>>
      /\ waiters' = waiters \/ count # 0
  <2>1. CASE waiters' = waiters
    BY <1>4, <2>1 DEF TypeOK, Once, Listed
  <2>2. CASE waiters' = Append(waiters, w) /\ pc'[w] = "parked" /\ count # 0
    BY <1>4, <2>2, PushBack DEF TypeOK
  <2> QED BY <1>3, <2>1, <2>2
<1>6. pc' \in [Waiters \union Jobs -> Labels]
  BY Zenon DEF CoroWait, Goto, TypeOK, Labels
<1>7. sawZero' \in [Waiters -> BOOLEAN]
  BY DEF CoroWait, TypeOK
<1>8. TypeOK'
  BY <1>1, <1>2, <1>5, <1>6, <1>7 DEF TypeOK, Labels
<1>9. \A k \in Jobs : (Wakes(k)' <=> Wakes(k)) /\ (UnderLock(k)' <=> UnderLock(k))
  BY Zenon, <1>2 DEF Wakes, UnderLock
<1>10. \A k \in Jobs : pc[k] # "unlock" /\ pc[k] # "pop" /\ pc[k] # "fired"
  BY <1>2 DEF GuardAt, UnderLock
<1>12. PlaceAt'
  <2>1. kind' \in Events => count' <= 1 /\ \A k \in Jobs : todo'[k] = 0
    BY <1>1, <1>2 DEF PlaceAt
  <2> QED BY <1>2, <1>3, <2>1 DEF PlaceAt, CoroKinds
<1>13. GuardAt'
  BY <1>2, <1>3, <1>9 DEF GuardAt
<1>14. OneWaker'
  BY <1>2, <1>9 DEF OneWaker
<1>15. ListAt'
  BY <1>2, <1>5 DEF ListAt
<1>16. PoppedAt'
  BY <1>2, <1>4, <1>5 DEF PoppedAt
<1>17. WalkAt'
  <2>1. \A k \in Jobs : pc[k] = "last" => count = 0
    BY DEF OneWaker, Wakes
  <2> QED BY <1>2, <1>5, <2>1 DEF WalkAt
<1>18. ZeroAt'
  BY <1>2, <1>3 DEF ZeroAt
<1>19. SyncAt'
  BY Zenon, <1>2, <1>10 DEF SyncAt
<1> QED BY <1>5, <1>8, <1>12, <1>13, <1>14, <1>15, <1>16, <1>17, <1>18, <1>19


\* A job is announced: nobody wakes, and nobody has been let out of Wait.
LEMMA AddKeeps ==
  ASSUME CallInv, WorkAt, NEW j \in Jobs, Add(j)
  PROVE  CallInv'
<1>0. /\ \A k \in Jobs : ~Wakes(k) /\ pc[k] # "unlock"
      /\ \A w \in Waiters : pc[w] # "ready" /\ pc[w] # "scheduled"
  BY AddAlone
<1>10. todo' \in [Waiters \union Jobs -> Nat]
  BY Zenon, OneRoundLess DEF Add, CallInv
<1> USE LatchAssumption DEF CallInv, Add, Goto, history
<1>1. TypeOK'
  <2>1. count' \in Nat
    BY DEF TypeOK
  <2>2. pc' \in [Waiters \union Jobs -> Labels]
    BY DEF TypeOK, Labels
  <2> QED BY Zenon, <1>10, <2>1, <2>2 DEF TypeOK, Labels
<1>2. PlaceAt'
  BY <1>0 DEF PlaceAt, TypeOK, FiberKinds, CoroKinds, Events
<1>3. GuardAt'
  BY <1>0 DEF GuardAt, TypeOK, UnderLock, PlaceAt, FiberKinds, CoroKinds, Events
<1>4. OneWaker'
  BY <1>0 DEF OneWaker, TypeOK, Wakes, PlaceAt, FiberKinds, CoroKinds, Events
<1>5. Once' /\ ListAt'
  BY <1>0 DEF Once, ListAt, TypeOK, Listed, PlaceAt
<1>6. PoppedAt'
  BY <1>0 DEF PoppedAt, TypeOK, Listed, PlaceAt
<1>7. WalkAt'
  BY <1>0 DEF WalkAt, TypeOK, PlaceAt, OneWaker, Wakes
<1>8. ZeroAt'
  BY <1>0 DEF ZeroAt, TypeOK
<1>9. SyncAt'
  BY Zenon, <1>0 DEF SyncAt, TypeOK, Quiet, Wakes, PlaceAt, GuardAt, UnderLock, ZeroAt, FiberKinds, CoroKinds, Events
<1> QED BY <1>1, <1>2, <1>3, <1>4, <1>5, <1>6, <1>7, <1>8, <1>9

\* Fire or Done of fibers: nobody has been let out of Wait before.
LEMMA FiberSignalKeeps ==
  ASSUME CallInv, WorkAt, NEW j \in Jobs, FiberSignal(j)
  PROVE  CallInv'
<1>0. /\ count \in Nat \ {0} /\ ~synced /\ (kind \in Events => count = 1)
      /\ \A k \in Jobs : ~Wakes(k)
      /\ \A w \in Waiters : pc[w] # "ready" /\ pc[w] # "scheduled"
  BY Zenon, WorkingCounts DEF FiberSignal, CountDown
<1> USE LatchAssumption DEF CallInv, FiberSignal, Goto, history, CountDown
<1>1. TypeOK'
  BY <1>0 DEF TypeOK, Kinds
<1>2. PlaceAt'
  BY <1>0 DEF PlaceAt, TypeOK, FiberKinds, CoroKinds, Events
<1>3. GuardAt'
  BY <1>0 DEF GuardAt, TypeOK, UnderLock, PlaceAt, FiberKinds, CoroKinds, Events
<1>4. OneWaker'
  BY <1>0 DEF OneWaker, TypeOK, Wakes, PlaceAt, FiberKinds, CoroKinds, Events
<1>5. Once' /\ ListAt'
  BY <1>0 DEF Once, ListAt, TypeOK, Listed, PlaceAt
<1>6. PoppedAt'
  BY <1>0 DEF PoppedAt, TypeOK, Listed, PlaceAt
<1>7. WalkAt'
  BY <1>0 DEF WalkAt, TypeOK, PlaceAt, OneWaker, Wakes
<1>8. ZeroAt'
  BY Zenon, <1>0 DEF ZeroAt, TypeOK
<1>9. SyncAt'
  BY <1>0 DEF SyncAt, TypeOK, Quiet, Wakes, PlaceAt, GuardAt, UnderLock, ZeroAt, FiberKinds, CoroKinds, Events
<1> QED BY Zenon, <1>1, <1>2, <1>3, <1>4, <1>5, <1>6, <1>7, <1>8, <1>9

\* Fire of a coroutine event.
LEMMA CoroFireKeeps ==
  ASSUME CallInv, WorkAt, NEW j \in Jobs, CoroFire(j)
  PROVE  CallInv'
<1>0. /\ count \in Nat \ {0} /\ ~synced /\ (kind \in Events => count = 1)
      /\ \A k \in Jobs : ~Wakes(k)
      /\ \A w \in Waiters : pc[w] # "ready" /\ pc[w] # "scheduled"
  BY Zenon, WorkingCounts DEF CoroFire, CountDown
<1> USE LatchAssumption DEF CallInv, CoroFire, Goto, history, CountDown
<1>1. TypeOK'
  BY <1>0 DEF TypeOK, Kinds
<1>2. PlaceAt'
  BY <1>0 DEF PlaceAt, TypeOK, FiberKinds, CoroKinds, Events
<1>3. GuardAt'
  BY <1>0 DEF GuardAt, TypeOK, UnderLock, PlaceAt, FiberKinds, CoroKinds, Events
<1>4. OneWaker'
  BY <1>0 DEF OneWaker, TypeOK, Wakes, PlaceAt, FiberKinds, CoroKinds, Events
<1>5. Once' /\ ListAt'
  BY <1>0 DEF Once, ListAt, TypeOK, Listed, PlaceAt
<1>6. PoppedAt'
  BY <1>0 DEF PoppedAt, TypeOK, Listed, PlaceAt
<1>7. WalkAt'
  BY <1>0 DEF WalkAt, TypeOK, PlaceAt, OneWaker, Wakes
<1>8. ZeroAt'
  BY Zenon, <1>0 DEF ZeroAt, TypeOK
<1>9. SyncAt'
  BY SMTT(20), <1>0 DEF SyncAt, TypeOK, Quiet, Wakes, PlaceAt, GuardAt, UnderLock, ZeroAt, FiberKinds, CoroKinds, Events
<1> QED BY Zenon, <1>1, <1>2, <1>3, <1>4, <1>5, <1>6, <1>7, <1>8, <1>9

\* Done of a coroutine group.
LEMMA CoroDoneKeeps ==
  ASSUME CallInv, WorkAt, NEW j \in Jobs, CoroDone(j)
  PROVE  CallInv'
<1>0. /\ count \in Nat \ {0} /\ ~synced /\ (kind \in Events => count = 1)
      /\ \A k \in Jobs : ~Wakes(k)
      /\ \A w \in Waiters : pc[w] # "ready" /\ pc[w] # "scheduled"
  BY Zenon, WorkingCounts DEF CoroDone, CountDown
<1> USE LatchAssumption DEF CallInv, CoroDone, Goto, history, CountDown
<1>1. TypeOK'
  BY <1>0 DEF TypeOK, Kinds
<1>2. PlaceAt'
  BY <1>0 DEF PlaceAt, TypeOK, FiberKinds, CoroKinds, Events
<1>3. GuardAt'
  BY <1>0 DEF GuardAt, TypeOK, UnderLock, PlaceAt, FiberKinds, CoroKinds, Events
<1>4. OneWaker'
  BY <1>0 DEF OneWaker, TypeOK, Wakes, PlaceAt, FiberKinds, CoroKinds, Events
<1>5. Once' /\ ListAt'
  BY <1>0 DEF Once, ListAt, TypeOK, Listed, PlaceAt
<1>6. PoppedAt'
  BY <1>0 DEF PoppedAt, TypeOK, Listed, PlaceAt
<1>7. WalkAt'
  BY Zenon, <1>0 DEF WalkAt, TypeOK, PlaceAt, OneWaker, Wakes
<1>8. ZeroAt'
  BY Zenon, <1>0 DEF ZeroAt, TypeOK
<1>9. SyncAt'
  BY SMTT(20), <1>0 DEF SyncAt, TypeOK, Quiet, Wakes, PlaceAt, GuardAt, UnderLock, ZeroAt, FiberKinds, CoroKinds, Events
<1> QED BY Zenon, <1>1, <1>2, <1>3, <1>4, <1>5, <1>6, <1>7, <1>8, <1>9

\* Done of threads wakes whoever is at CV; there is no list.
LEMMA ThreadDoneKeeps ==
  ASSUME CallInv, WorkAt, NEW j \in Jobs, ThreadDone(j)
  PROVE  CallInv'
<1>0. /\ count \in Nat \ {0} /\ ~synced /\ (kind \in Events => count = 1)
      /\ \A k \in Jobs : ~Wakes(k)
      /\ \A w \in Waiters : pc[w] # "ready" /\ pc[w] # "scheduled"
  BY Zenon, WorkingCounts DEF ThreadDone, CountDown
<1> USE LatchAssumption DEF CallInv, ThreadDone, Goto, history, CountDown, Contention
<1>1. TypeOK'
  BY <1>0 DEF TypeOK, Kinds
<1>2. PlaceAt'
  BY Zenon, <1>0 DEF PlaceAt, TypeOK, FiberKinds, CoroKinds, Events
<1>3. GuardAt'
  BY Zenon, <1>0 DEF GuardAt, TypeOK, UnderLock, PlaceAt, FiberKinds, CoroKinds, Events
<1>4. OneWaker'
  BY Zenon, <1>0 DEF OneWaker, TypeOK, Wakes, PlaceAt, FiberKinds, CoroKinds, Events
<1>5. Once' /\ ListAt'
  BY <1>0 DEF Once, ListAt, TypeOK, Listed, PlaceAt
<1>6. PoppedAt'
  BY <1>0 DEF PoppedAt, TypeOK, Listed, PlaceAt
<1>7. WalkAt'
  BY Zenon, <1>0 DEF WalkAt, TypeOK, PlaceAt, OneWaker, Wakes
<1>8. ZeroAt'
  BY Zenon, <1>0 DEF ZeroAt, TypeOK
<1>9. SyncAt'
  BY SMTT(40), <1>0 DEF SyncAt, TypeOK, Quiet, Wakes, PlaceAt, GuardAt, UnderLock, ZeroAt, FiberKinds, CoroKinds, Events
<1> QED BY Zenon, <1>1, <1>2, <1>3, <1>4, <1>5, <1>6, <1>7, <1>8, <1>9

\* Fire of a coroutine event goes on without lock_.
LEMMA CoroFireUnlockKeeps ==
  ASSUME CallInv, WorkAt, NEW j \in Jobs, CoroFireUnlock(j)
  PROVE  CallInv'
<1> USE LatchAssumption DEF CallInv, CoroFireUnlock, Goto, history
<1>1. TypeOK'
  BY DEF TypeOK, Kinds
<1>2. PlaceAt'
  BY Zenon DEF PlaceAt, TypeOK, FiberKinds, CoroKinds, Events
<1>3. GuardAt'
  BY Zenon DEF GuardAt, TypeOK, UnderLock, PlaceAt, FiberKinds, CoroKinds, Events
<1>4. OneWaker'
  BY Zenon DEF OneWaker, TypeOK, Wakes, PlaceAt, FiberKinds, CoroKinds, Events
<1>5. Once' /\ ListAt'
  BY DEF Once, ListAt, TypeOK, Listed, PlaceAt
<1>6. PoppedAt'
  BY DEF PoppedAt, TypeOK, Listed, PlaceAt
<1>7. WalkAt'
  BY Zenon DEF WalkAt, TypeOK, PlaceAt, OneWaker, Wakes
<1>8. ZeroAt'
  BY DEF ZeroAt, TypeOK
<1>9. SyncAt'
  BY SMTT(20) DEF SyncAt, TypeOK, Quiet, Wakes, PlaceAt, GuardAt, UnderLock, ZeroAt, FiberKinds, CoroKinds, Events
<1> QED BY <1>1, <1>2, <1>3, <1>4, <1>5, <1>6, <1>7, <1>8, <1>9

\* One waiter is left, who is taken from the list without lock_.
LEMMA CoroWalkEndKeeps ==
  ASSUME CallInv, WorkAt, NEW j \in Jobs, CoroWalkEnd(j)
  PROVE  CallInv'
<1>0. Len(waiters) = 1
  <2>1. waiters \in Seq(Waiters) /\ waiters # <<>> /\ Len(waiters) <= 1
    BY Zenon DEF CoroWalkEnd, CallInv, WalkAt, TypeOK
  <2>2. Len(waiters) \in Nat /\ Len(waiters) # 0
    BY <2>1
  <2>3. \A n \in Nat : n # 0 /\ n <= 1 => n = 1
    OBVIOUS
  <2> QED BY Zenon, <2>1, <2>2, <2>3
<1> USE LatchAssumption DEF CallInv, CoroWalkEnd, Goto, history
<1>1. TypeOK'
  BY DEF TypeOK, Kinds
<1>2. PlaceAt'
  BY DEF PlaceAt, TypeOK, FiberKinds, CoroKinds, Events
<1>3. GuardAt'
  BY DEF GuardAt, TypeOK, UnderLock, PlaceAt, FiberKinds, CoroKinds, Events
<1>4. OneWaker'
  BY Zenon DEF OneWaker, TypeOK, Wakes, PlaceAt, FiberKinds, CoroKinds, Events
<1>5. Once' /\ ListAt'
  BY DEF Once, ListAt, TypeOK, Listed, PlaceAt
<1>6. PoppedAt'
  BY DEF PoppedAt, TypeOK, Listed, PlaceAt
<1>7. WalkAt'
  BY Zenon, <1>0 DEF WalkAt, TypeOK, PlaceAt, OneWaker, Wakes
<1>8. ZeroAt'
  BY DEF ZeroAt, TypeOK
<1>9. SyncAt'
  BY SMTT(20) DEF SyncAt, TypeOK, Quiet, Wakes, PlaceAt, GuardAt, UnderLock, ZeroAt, FiberKinds, CoroKinds, Events
<1> QED BY <1>1, <1>2, <1>3, <1>4, <1>5, <1>6, <1>7, <1>8, <1>9

\* Done had nobody to wake.
LEMMA DoneEndKeeps ==
  ASSUME CallInv, WorkAt, NEW j \in Jobs, DoneEnd(j)
  PROVE  CallInv'
<1> USE LatchAssumption DEF CallInv, DoneEnd, Goto, history
<1>1. TypeOK'
  BY DEF TypeOK, Kinds
<1>2. PlaceAt'
  BY DEF PlaceAt, TypeOK, FiberKinds, CoroKinds, Events
<1>3. GuardAt'
  BY Zenon DEF GuardAt, TypeOK, UnderLock, PlaceAt, FiberKinds, CoroKinds, Events
<1>4. OneWaker'
  BY Zenon DEF OneWaker, TypeOK, Wakes, PlaceAt, FiberKinds, CoroKinds, Events
<1>5. Once' /\ ListAt'
  BY DEF Once, ListAt, TypeOK, Listed, PlaceAt
<1>6. PoppedAt'
  BY DEF PoppedAt, TypeOK, Listed, PlaceAt
<1>7. WalkAt'
  BY Zenon DEF WalkAt, TypeOK, PlaceAt, OneWaker, Wakes
<1>8. ZeroAt'
  BY DEF ZeroAt, TypeOK
<1>9. SyncAt'
  BY SMTT(20) DEF SyncAt, TypeOK, Quiet, Wakes, PlaceAt, GuardAt, UnderLock, ZeroAt, FiberKinds, CoroKinds, Events
<1> QED BY <1>1, <1>2, <1>3, <1>4, <1>5, <1>6, <1>7, <1>8, <1>9

\* A fiber is about to suspend itself.
LEMMA FiberWaitKeeps ==
  ASSUME CallInv, WorkAt, NEW w \in Waiters, FiberWait(w)
  PROVE  CallInv'
<1> USE LatchAssumption DEF CallInv, FiberWait, Goto, history
<1>1. TypeOK'
  BY DEF TypeOK, Kinds
<1>2. PlaceAt'
  BY Zenon DEF PlaceAt, TypeOK, FiberKinds, CoroKinds, Events
<1>3. GuardAt'
  BY Zenon DEF GuardAt, TypeOK, UnderLock, PlaceAt, FiberKinds, CoroKinds, Events
<1>4. OneWaker'
  BY Zenon DEF OneWaker, TypeOK, Wakes, PlaceAt, FiberKinds, CoroKinds, Events
<1>5. Once' /\ ListAt'
  BY DEF Once, ListAt, TypeOK, Listed, PlaceAt
<1>6. PoppedAt'
  BY DEF PoppedAt, TypeOK, Listed, PlaceAt
<1>7. WalkAt'
  BY Zenon DEF WalkAt, TypeOK, PlaceAt, OneWaker, Wakes
<1>8. ZeroAt'
  BY Zenon DEF ZeroAt, TypeOK
<1>9. SyncAt'
  BY SMTT(40) DEF SyncAt, TypeOK, Quiet, Wakes, PlaceAt, GuardAt, UnderLock, ZeroAt, FiberKinds, CoroKinds, Events
<1> QED BY <1>1, <1>2, <1>3, <1>4, <1>5, <1>6, <1>7, <1>8, <1>9

\* A thread goes on or waits at CV.
LEMMA ThreadWaitKeeps ==
  ASSUME CallInv, WorkAt, NEW w \in Waiters, ThreadWait(w)
  PROVE  CallInv'
<1> USE LatchAssumption DEF CallInv, ThreadWait, Goto, history
<1>1. TypeOK'
  BY DEF TypeOK, Kinds
<1>2. PlaceAt'
  BY Zenon DEF PlaceAt, TypeOK, FiberKinds, CoroKinds, Events
<1>3. GuardAt'
  BY Zenon DEF GuardAt, TypeOK, UnderLock, PlaceAt, FiberKinds, CoroKinds, Events
<1>4. OneWaker'
  BY Zenon DEF OneWaker, TypeOK, Wakes, PlaceAt, FiberKinds, CoroKinds, Events
<1>5. Once' /\ ListAt'
  BY SMTT(30) DEF Once, ListAt, TypeOK, Listed, PlaceAt
<1>6. PoppedAt'
  BY Zenon DEF PoppedAt, TypeOK, Listed, PlaceAt
<1>7. WalkAt'
  BY Zenon DEF WalkAt, TypeOK, PlaceAt, OneWaker, Wakes
<1>8. ZeroAt'
  BY Zenon DEF ZeroAt, TypeOK
<1>9. SyncAt'
  BY SMTT(40) DEF SyncAt, TypeOK, Quiet, Wakes, PlaceAt, GuardAt, UnderLock, ZeroAt, FiberKinds, CoroKinds, Events
<1> QED BY <1>1, <1>2, <1>3, <1>4, <1>5, <1>6, <1>7, <1>8, <1>9

\* A thread is woken at CV.
LEMMA SpuriousKeeps ==
  ASSUME CallInv, WorkAt, NEW w \in Waiters, Spurious(w)
  PROVE  CallInv'
<1> USE LatchAssumption DEF CallInv, Spurious, Goto, history, Contention
<1>1. TypeOK'
  BY DEF TypeOK, Kinds
<1>2. PlaceAt'
  BY DEF PlaceAt, TypeOK, FiberKinds, CoroKinds, Events
<1>3. GuardAt'
  BY Zenon DEF GuardAt, TypeOK, UnderLock, PlaceAt, FiberKinds, CoroKinds, Events
<1>4. OneWaker'
  BY Zenon DEF OneWaker, TypeOK, Wakes, PlaceAt, FiberKinds, CoroKinds, Events
<1>5. Once' /\ ListAt'
  BY SMTT(30) DEF Once, ListAt, TypeOK, Listed, PlaceAt
<1>6. PoppedAt'
  BY DEF PoppedAt, TypeOK, Listed, PlaceAt
<1>7. WalkAt'
  BY Zenon DEF WalkAt, TypeOK, PlaceAt, OneWaker, Wakes
<1>8. ZeroAt'
  BY DEF ZeroAt, TypeOK
<1>9. SyncAt'
  BY SMTT(40) DEF SyncAt, TypeOK, Quiet, Wakes, PlaceAt, GuardAt, UnderLock, ZeroAt, FiberKinds, CoroKinds, Events
<1> QED BY <1>1, <1>2, <1>3, <1>4, <1>5, <1>6, <1>7, <1>8, <1>9

\* A thread that was woken asks the predicate.
LEMMA ThreadWokenKeeps ==
  ASSUME CallInv, WorkAt, NEW w \in Waiters, ThreadWoken(w)
  PROVE  CallInv'
<1> USE LatchAssumption DEF CallInv, ThreadWoken, Goto, history
<1>1. TypeOK'
  BY DEF TypeOK, Kinds
<1>2. PlaceAt'
  BY Zenon DEF PlaceAt, TypeOK, FiberKinds, CoroKinds, Events
<1>3. GuardAt'
  BY Zenon DEF GuardAt, TypeOK, UnderLock, PlaceAt, FiberKinds, CoroKinds, Events
<1>4. OneWaker'
  BY Zenon DEF OneWaker, TypeOK, Wakes, PlaceAt, FiberKinds, CoroKinds, Events
<1>5. Once' /\ ListAt'
  BY DEF Once, ListAt, TypeOK, Listed, PlaceAt
<1>6. PoppedAt'
  BY DEF PoppedAt, TypeOK, Listed, PlaceAt
<1>7. WalkAt'
  BY Zenon DEF WalkAt, TypeOK, PlaceAt, OneWaker, Wakes
<1>8. ZeroAt'
  BY DEF ZeroAt, TypeOK
<1>9. SyncAt'
  BY SMTT(20) DEF SyncAt, TypeOK, Quiet, Wakes, PlaceAt, GuardAt, UnderLock, ZeroAt, FiberKinds, CoroKinds, Events
<1> QED BY <1>1, <1>2, <1>3, <1>4, <1>5, <1>6, <1>7, <1>8, <1>9

\* lock_ is released at the end of Wait.
LEMMA WaitEndKeeps ==
  ASSUME CallInv, WorkAt, NEW w \in Waiters, WaitEnd(w)
  PROVE  CallInv'
<1> USE LatchAssumption DEF CallInv, WaitEnd, Goto, history
<1>1. TypeOK'
  BY DEF TypeOK, Kinds
<1>2. PlaceAt'
  BY Zenon DEF PlaceAt, TypeOK, FiberKinds, CoroKinds, Events
<1>3. GuardAt'
  BY Zenon DEF GuardAt, TypeOK, UnderLock, PlaceAt, FiberKinds, CoroKinds, Events
<1>4. OneWaker'
  BY Zenon DEF OneWaker, TypeOK, Wakes, PlaceAt, FiberKinds, CoroKinds, Events
<1>5. Once' /\ ListAt'
  BY SMTT(30) DEF Once, ListAt, TypeOK, Listed, PlaceAt
<1>6. PoppedAt'
  BY DEF PoppedAt, TypeOK, Listed, PlaceAt
<1>7. WalkAt'
  BY Zenon DEF WalkAt, TypeOK, PlaceAt, OneWaker, Wakes
<1>8. ZeroAt'
  BY DEF ZeroAt, TypeOK
<1>9. SyncAt'
  BY SMTT(40) DEF SyncAt, TypeOK, Quiet, Wakes, PlaceAt, GuardAt, UnderLock, ZeroAt, FiberKinds, CoroKinds, Events
<1> QED BY <1>1, <1>2, <1>3, <1>4, <1>5, <1>6, <1>7, <1>8, <1>9

\* Wait of a fiber or a coroutine returns.
LEMMA ResumeKeeps ==
  ASSUME CallInv, WorkAt, NEW w \in Waiters, Resume(w)
  PROVE  CallInv'
<1> USE LatchAssumption DEF CallInv, Resume, Goto, history
<1>1. TypeOK'
  BY DEF TypeOK, Kinds
<1>2. PlaceAt'
  BY Zenon DEF PlaceAt, TypeOK, FiberKinds, CoroKinds, Events
<1>3. GuardAt'
  BY Zenon DEF GuardAt, TypeOK, UnderLock, PlaceAt, FiberKinds, CoroKinds, Events
<1>4. OneWaker'
  BY Zenon DEF OneWaker, TypeOK, Wakes, PlaceAt, FiberKinds, CoroKinds, Events
<1>5. Once' /\ ListAt'
  BY DEF Once, ListAt, TypeOK, Listed, PlaceAt
<1>6. PoppedAt'
  BY DEF PoppedAt, TypeOK, Listed, PlaceAt
<1>7. WalkAt'
  BY Zenon DEF WalkAt, TypeOK, PlaceAt, OneWaker, Wakes
<1>8. ZeroAt'
  BY DEF ZeroAt, TypeOK
<1>9. SyncAt'
  BY SMTT(40) DEF SyncAt, TypeOK, Quiet, Wakes, PlaceAt, GuardAt, UnderLock, ZeroAt, FiberKinds, CoroKinds, Events
<1> QED BY <1>1, <1>2, <1>3, <1>4, <1>5, <1>6, <1>7, <1>8, <1>9

\* Every step keeps the invariant, if whoever works is counted.
LEMMA CallSteps ==
  ASSUME CallInv, WorkAt, [Next]_vars
  PROVE  CallInv'
<1>1. CASE UNCHANGED vars
  <2> USE <1>1 DEF CallInv, vars
  <2>1. TypeOK' /\ PlaceAt' /\ GuardAt' /\ OneWaker'
    BY SMTT(40) DEF TypeOK, PlaceAt, GuardAt, UnderLock, OneWaker, Wakes
  <2>2. Once' /\ ListAt' /\ PoppedAt' /\ WalkAt'
    BY SMTT(40) DEF Once, ListAt, PoppedAt, Listed, WalkAt
  <2>3. ZeroAt' /\ SyncAt'
    BY SMTT(20) DEF ZeroAt, SyncAt, Quiet, Wakes
  <2> QED BY <2>1, <2>2, <2>3
<1>2. ASSUME NEW j \in Jobs, Add(j) \/ Signal(j) \/ JobStep(j)
      PROVE  CallInv'
  BY <1>2, AddKeeps, FiberSignalKeeps, CoroFireKeeps, CoroDoneKeeps, ThreadDoneKeeps, FiberPopKeeps,
     CoroFireUnlockKeeps, CoroPopKeeps, CoroWalkEndKeeps, ScheduleKeeps, DoneEndKeeps DEF Signal, JobStep
<1>3. ASSUME NEW w \in Waiters,
             FiberWait(w) \/ CoroWait(w) \/ ThreadWait(w) \/ Spurious(w) \/ WaiterStep(w)
      PROVE  CallInv'
  BY <1>3, FiberWaitKeeps, CoroWaitKeeps, ThreadWaitKeeps, SpuriousKeeps, FiberAwaitKeeps,
     ThreadWokenKeeps, WaitEndKeeps, ResumeKeeps DEF WaiterStep
<1> QED BY Zenon, <1>1, <1>2, <1>3 DEF Next, Finished

-----------------------------------------------------------------------------
(* The counter. *)

Working == {j \in Jobs : pc[j] = "working"}

\* Only Add and CountDown change who is counted.
LEMMA StillWorking ==
  ASSUME CallInv, [Next]_vars, \A j \in Jobs : ~Add(j) /\ ~Signal(j)
  PROVE  count' = count /\ Working' = Working
<1>1. ASSUME NEW j \in Jobs, JobStep(j)
      PROVE  count' = count /\ \A k \in Jobs : pc'[k] = "working" <=> pc[k] = "working"
  <2>1. CASE Schedule(j)
    <3>1. \A k \in Jobs : waiter[j] # k
      BY LatchAssumption DEF CallInv, TypeOK
    <3> QED BY SMTT(20), <2>1, <3>1 DEF Schedule, CallInv, TypeOK
  <2>2. CASE ~Schedule(j)
    BY SMTT(40), <1>1, <2>2
       DEF JobStep, FiberPop, CoroFireUnlock, CoroPop, CoroWalkEnd, DoneEnd, Goto, CallInv, TypeOK
  <2> QED BY <2>1, <2>2
<1>2. ASSUME NEW w \in Waiters,
             FiberWait(w) \/ CoroWait(w) \/ ThreadWait(w) \/ Spurious(w) \/ WaiterStep(w)
      PROVE  count' = count /\ \A k \in Jobs : pc'[k] = pc[k]
  BY SMTT(40), <1>2, LatchAssumption
     DEF FiberWait, CoroWait, ThreadWait, Spurious, WaiterStep, FiberAwait, ThreadWoken, WaitEnd, Resume,
         Goto, CallInv, TypeOK
<1> QED BY Zenon, <1>1, <1>2 DEF Next, Finished, vars, Working

LOCAL INSTANCE FiniteSetTheorems

Counted == IsFiniteSet(Working) /\ count = Cardinality(Working)

\* The inductive invariant.
IndInv == CallInv /\ Counted

\* Whoever works is counted.
LEMMA Positive == Counted => WorkAt
BY FS_EmptySet DEF Counted, Working, WorkAt

\* At first the job that is to fire the event is counted, and nobody else.
LEMMA CountedFirst == Init => Counted
<1> SUFFICES ASSUME Init PROVE Counted
  OBVIOUS
<1>1. CASE kind \in Events
  <2>1. PICK j \in Jobs : Working = {j}
    BY Zenon, <1>1 DEF Working, Init
  <2> QED BY Zenon, <1>1, <2>1, FS_Singleton DEF Counted, Init
<1>2. CASE kind \notin Events
  <2>1. Working = {}
    BY <1>2 DEF Working, Init
  <2> QED BY <1>2, <2>1, FS_EmptySet DEF Counted, Init
<1> QED BY <1>1, <1>2

\* Add counts the job.
LEMMA CountedUp ==
  ASSUME CallInv, Counted, NEW j \in Jobs, Add(j)
  PROVE  Counted'
<1>1. Working' = Working \union {j} /\ j \notin Working /\ count' = count + 1
  BY DEF Working, Add, Goto, CallInv, TypeOK
<1>2. IsFiniteSet(Working \union {j}) /\ Cardinality(Working \union {j}) = Cardinality(Working) + 1
  BY <1>1, FS_AddElement DEF Counted
<1> QED BY <1>1, <1>2 DEF Counted

\* Fire and Done count the job down.
LEMMA CountedDown ==
  ASSUME CallInv, Counted, NEW j \in Jobs, Signal(j)
  PROVE  Counted'
<1>1. CountDown(j) /\ pc'[j] # "working" /\ \A k \in Jobs : k # j => pc'[k] = pc[k]
  BY Zenon, LatchAssumption DEF Signal, FiberSignal, CoroFire, CoroDone, ThreadDone, Contention, CountDown, Goto, CallInv, TypeOK
<1>2. Working' = Working \ {j} /\ j \in Working /\ count' = count - 1
  BY Zenon, <1>1 DEF Working, CountDown
<1>3. IsFiniteSet(Working \ {j}) /\ Cardinality(Working \ {j}) = Cardinality(Working) - 1
  BY <1>2, FS_RemoveElement DEF Counted
<1> QED BY <1>2, <1>3 DEF Counted

\* Every step keeps the whole invariant.
LEMMA Inductive == IndInv /\ [Next]_vars => IndInv'
<1> SUFFICES ASSUME IndInv, [Next]_vars PROVE IndInv'
  OBVIOUS
<1>1. CallInv'
  BY CallSteps, Positive DEF IndInv
<1>2. Counted'
  <2>1. CASE \A j \in Jobs : ~Add(j) /\ ~Signal(j)
    BY <2>1, StillWorking DEF IndInv, Counted
  <2> QED BY <2>1, CountedUp, CountedDown DEF IndInv
<1> QED BY <1>1, <1>2 DEF IndInv

\* The invariant holds always, of each of the five classes.
THEOREM Invariance == Spec => []IndInv
<1> QED BY Initial, CountedFirst, Inductive, PTL DEF Spec, IndInv

-----------------------------------------------------------------------------
(* The theorems. *)

\* Wait returns only if the counter was zero during the call, and Fire and Done
\* schedule only who is suspended in it.
THEOREM EarlyReturn == Spec => []NoEarlyReturn
<1>1. IndInv => NoEarlyReturn
  <2> SUFFICES ASSUME IndInv PROVE NoEarlyReturn
    OBVIOUS
  <2>1. \A w \in Waiters : pc[w] \in {"ready", "scheduled"} => sawZero[w]
    BY Zenon DEF IndInv, CallInv, ZeroAt
  <2>2. \A j \in Jobs : pc[j] = "schedule" /\ waiter[j] # Nobody => pc[waiter[j]] = "parked"
    BY DEF IndInv, CallInv, PoppedAt, TypeOK
  <2> QED BY Zenon, <2>1, <2>2 DEF NoEarlyReturn, IndInv, CallInv
<1> QED BY <1>1, Invariance, PTL

\* When all calls of Wait have returned, Fire and Done do not touch the object any
\* more, wherever they are in their loops.
THEOREM Destroyable == Spec => []SafeToDestroy
<1>1. IndInv => SafeToDestroy
  <2> SUFFICES ASSUME IndInv, synced, \A w \in Waiters : pc[w] = "idle"
               PROVE  /\ guard = Nobody
                      /\ \A j \in Jobs : pc[j] = "idle" \/ (pc[j] = "schedule" /\ last[j])
    BY DEF SafeToDestroy
  <2>1. waiters = <<>>
    BY SomebodyParked DEF IndInv, CallInv
  <2>2. Len(waiters) = 0
    BY <2>1
  <2>3. \A j \in Jobs : pc[j] # "working"
    BY WorkingCounts, Positive DEF IndInv, CallInv
  <2>4. \A j \in Jobs : pc[j] # "unlock" /\ pc[j] # "fired" /\ pc[j] # "pop"
    BY <2>1 DEF IndInv, CallInv, SyncAt, Quiet
  <2>5. \A j \in Jobs : pc[j] # "walk" /\ pc[j] # "last" /\ ~(pc[j] = "schedule" /\ ~last[j])
    BY <2>1, <2>2 DEF IndInv, CallInv, WalkAt
  <2>6. \A j \in Jobs : pc[j] = "idle" \/ (pc[j] = "schedule" /\ last[j])
    BY Zenon, <2>3, <2>4, <2>5 DEF IndInv, CallInv, PlaceAt
  <2>7. \A j \in Jobs : ~UnderLock(j)
    BY <2>6 DEF UnderLock
  <2>8. guard = Nobody
    BY SMTT(20), <2>7 DEF IndInv, CallInv, GuardAt, TypeOK
  <2> QED BY <2>6, <2>8
<1> QED BY <1>1, Invariance, PTL

\* While Fire and Done of coroutines walk the list without lock_, no step of
\* anybody else changes it.
THEOREM UnlockedWalk == Spec => UnlockedWalkIsAlone
<1>1. ASSUME IndInv, [Next]_vars, NEW j \in Jobs, kind \in CoroKinds, pc[j] \in {"walk", "last"}
      PROVE  waiters' = waiters \/ CoroPop(j)
  <2>1. Wakes(j) /\ count = 0 /\ \A k \in Jobs : Wakes(k) => k = j
    BY Zenon, <1>1 DEF IndInv, CallInv, OneWaker, Wakes
  <2>2. \A k \in Jobs : CoroPop(k) => k = j
    BY <2>1 DEF CoroPop, Wakes
  <2>3. \A k \in Jobs : ~FiberPop(k)
    BY Zenon, <1>1 DEF FiberPop, IndInv, CallInv, PlaceAt, FiberKinds, CoroKinds
  <2>4. \A w \in Waiters : ~FiberAwait(w)
    BY Zenon, <1>1 DEF FiberAwait, IndInv, CallInv, PlaceAt, FiberKinds, CoroKinds
  <2>5. \A w \in Waiters : CoroWait(w) => waiters' = waiters
    BY SMTT(20), <2>1 DEF CoroWait
  <2>6. ASSUME NEW k \in Jobs, Add(k) \/ Signal(k) \/ JobStep(k)
        PROVE  waiters' = waiters \/ CoroPop(j)
    BY Zenon, <2>2, <2>3, <2>6 DEF Add, Signal, FiberSignal, CoroFire, CoroDone, ThreadDone, CountDown,
       JobStep, CoroFireUnlock, CoroWalkEnd, Schedule, DoneEnd
  <2>7. ASSUME NEW w \in Waiters,
               FiberWait(w) \/ CoroWait(w) \/ ThreadWait(w) \/ Spurious(w) \/ WaiterStep(w)
        PROVE  waiters' = waiters
    BY <2>4, <2>5, <2>7 DEF FiberWait, ThreadWait, Spurious, WaiterStep, ThreadWoken, WaitEnd, Resume
  <2> QED BY Zenon, <1>1, <2>6, <2>7 DEF Next, Finished, vars
<1>2. IndInv /\ [Next]_vars
        => [\A j \in Jobs : kind \in CoroKinds /\ guard # j /\ pc[j] \in {"walk", "last"}
                              => waiters' = waiters \/ CoroPop(j)]_vars
  BY <1>1
<1> QED BY <1>2, Invariance, PTL DEF Spec, UnlockedWalkIsAlone

=============================================================================
