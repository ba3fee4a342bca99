---------------------------- MODULE MutexProofs ----------------------------
(***************************************************************************)
(* Proofs about module Mutex, for any finite set of processes: the type    *)
(* invariant, mutual exclusion, what the packed word counts, that no       *)
(* wake-up is lost, and that the mutex implements module Lock.             *)
(***************************************************************************)
EXTENDS Mutex, FiniteSetTheorems, TLAPS

StarvedSet == {p \in Procs : starved[p]}
Locked == \E p \in Procs : Holding(p)
Bit(b) == IF b THEN 1 ELSE 0

\* An operation is only counted as starved inside the fairer loop, until
\* take_mutex takes the count back.
StarvedWhere == \A p \in Procs : starved[p] => pc[p] \in Fair \cup {"took"}

\* The inductive invariant: mutual exclusion follows from the word only if the
\* word is known to count exactly the guards and the starved operations.
IInv == TypeOK /\ MutualExclusion /\ StarvedWhere /\ WordCounts

\* The starvation counter is a natural number: only a finite set is counted.
LEMMA StarvedCount ==
    ASSUME TypeOK
    PROVE  /\ IsFiniteSet(StarvedSet)
           /\ Cardinality(StarvedSet) \in Nat
  BY ProcsFinite, FS_Subset, FS_CardinalityType DEF StarvedSet

\* What the code learns from the word: an even word means that no guard exists.
LEMMA EvenMeansFree ==
    ASSUME IInv
    PROVE  /\ state = Bit(Locked) + 2 * Cardinality(StarvedSet)
           /\ state % 2 = 0 <=> ~Locked
           /\ state % 2 = 1 <=> Locked
  <1>1. Cardinality(StarvedSet) \in Nat
    BY StarvedCount DEF IInv
  <1>2. state = Bit(Locked) + 2 * Cardinality(StarvedSet)
    BY DEF IInv, WordCounts, Bit, Locked, StarvedSet
  <1>3. \A c \in Nat : (0 + 2 * c) % 2 = 0 /\ (1 + 2 * c) % 2 = 1
    OBVIOUS
  <1>4. QED
    BY <1>1, <1>2, <1>3 DEF Bit
-----------------------------------------------------------------------------
\* A step that moves one process between two places of the same kind and leaves
\* the word alone keeps the invariant.
LEMMA MoveKeeps ==
    ASSUME IInv, NEW p \in Procs, NEW l \in PCs, Goto(p, l),
           UNCHANGED <<state, starved>>, late' \in [Procs -> BOOLEAN],
           l \in Owning <=> Holding(p),
           starved[p] => l \in Fair \cup {"took"}
    PROVE  IInv'
  <1>1. \A q \in Procs : Holding(q)' <=> Holding(q)
    BY DEF IInv, TypeOK, Goto, Holding
  <1>2. TypeOK' /\ StarvedWhere'
    BY DEF IInv, TypeOK, Goto, StarvedWhere
  <1>3. MutualExclusion'
    BY <1>1 DEF IInv, MutualExclusion
  <1>4. WordCounts'
    BY <1>1 DEF IInv, WordCounts
  <1>5. QED
    BY <1>2, <1>3, <1>4 DEF IInv

\* Taking the locked bit while the word says that nobody has it.
LEMMA TakeKeeps ==
    ASSUME IInv, NEW p \in Procs, NEW l \in Owning, Goto(p, l),
           ~Locked, state' = state + 1, UNCHANGED <<starved, late>>,
           starved[p] => l = "took"
    PROVE  IInv'
  <1>1. \A q \in Procs : Holding(q)' <=> q = p
    BY DEF IInv, TypeOK, Goto, Holding, Locked
  <1>2. TypeOK' /\ StarvedWhere'
    BY DEF IInv, TypeOK, Goto, StarvedWhere, PCs
  <1>3. MutualExclusion'
    BY <1>1 DEF MutualExclusion
  <1>4. WordCounts'
    <2>1. state = 0 + 2 * Cardinality(StarvedSet)
      BY EvenMeansFree DEF Bit
    <2>2. StarvedSet' = StarvedSet /\ Locked'
      BY <1>1 DEF StarvedSet, Locked
    <2>3. Cardinality(StarvedSet) \in Nat
      BY StarvedCount DEF IInv
    <2>4. QED
      BY <2>1, <2>2, <2>3 DEF WordCounts, StarvedSet, Locked
  <1>5. QED
    BY <1>2, <1>3, <1>4 DEF IInv

\* take_mutex, when the future completes or is cancelled.
LEMMA UnstarveKeeps ==
    ASSUME IInv, NEW p \in Procs, NEW l \in PCs, Goto(p, l),
           Unstarve(p), UNCHANGED late,
           l \in Owning <=> Holding(p)
    PROVE  IInv'
  <1>1. \A q \in Procs : Holding(q)' <=> Holding(q)
    BY DEF IInv, TypeOK, Goto, Holding
  <1>2. StarvedSet' = StarvedSet \ {p}
    BY DEF IInv, TypeOK, Unstarve, StarvedSet
  <1>3. /\ IsFiniteSet(StarvedSet)
        /\ Cardinality(StarvedSet) \in Nat
        /\ Cardinality(StarvedSet') \in Nat
        /\ Cardinality(StarvedSet') = IF starved[p] THEN Cardinality(StarvedSet) - 1
                                                    ELSE Cardinality(StarvedSet)
    <2>1. IsFiniteSet(StarvedSet) /\ Cardinality(StarvedSet) \in Nat
      BY StarvedCount DEF IInv
    <2>2. /\ IsFiniteSet(StarvedSet \ {p})
          /\ Cardinality(StarvedSet \ {p}) = IF p \in StarvedSet THEN Cardinality(StarvedSet) - 1
                                                                 ELSE Cardinality(StarvedSet)
      BY <2>1, FS_RemoveElement
    <2>3. Cardinality(StarvedSet \ {p}) \in Nat
      BY <2>2, FS_CardinalityType
    <2>4. QED
      BY <1>2, <2>1, <2>2, <2>3 DEF StarvedSet
  <1>4. state' = Bit(Locked) + 2 * Cardinality(StarvedSet')
    BY <1>3, EvenMeansFree DEF Unstarve, Bit
  <1>5. Locked' <=> Locked
    BY <1>1 DEF Locked
  <1>6. TypeOK' /\ StarvedWhere'
    BY <1>3, <1>4 DEF IInv, TypeOK, Goto, StarvedWhere, Unstarve, Bit
  <1>7. MutualExclusion'
    BY <1>1 DEF IInv, MutualExclusion
  <1>8. WordCounts'
    BY <1>4, <1>5 DEF WordCounts, Bit, Locked, StarvedSet
  <1>9. QED
    BY <1>6, <1>7, <1>8 DEF IInv

\* Mutex::new gives a state that satisfies the invariant.
LEMMA InitIInv == Init => IInv
  <1> SUFFICES ASSUME Init PROVE IInv
    OBVIOUS
  <1>1. TypeOK /\ MutualExclusion /\ StarvedWhere
    BY DEF Init, TypeOK, MutualExclusion, StarvedWhere, Holding, Owning, PCs
  <1>2. {p \in Procs : starved[p]} = {} /\ ~\E p \in Procs : Holding(p)
    BY DEF Init, Holding, Owning
  <1>3. WordCounts
    BY <1>2, FS_EmptySet DEF Init, WordCounts
  <1>4. QED
    BY <1>1, <1>3 DEF IInv
-----------------------------------------------------------------------------
\* Every step of the mutex keeps the invariant.
LEMMA NextIInv == IInv /\ [Next]_vars => IInv'
  <1> SUFFICES ASSUME IInv, [Next]_vars PROVE IInv'
    OBVIOUS
  <1> USE DEF Slow, Fair, Owning
  <1>0. CASE UNCHANGED vars
    BY <1>0 DEF IInv, TypeOK, MutualExclusion, StarvedWhere, WordCounts, Holding, vars
  <1>1. ASSUME NEW p \in Procs, TryLock(p) PROVE IInv'
    <2>1. ~Locked /\ state' = state + 1 /\ ~starved[p]
      BY <1>1, EvenMeansFree DEF TryLock, IInv, StarvedWhere, Bit
    <2>2. QED
      BY <1>1, <2>1, TakeKeeps DEF TryLock
  <1>2. ASSUME NEW p \in Procs, LockSlow(p) PROVE IInv'
    <2>1. ~starved[p] /\ ~Holding(p) /\ late' \in [Procs -> BOOLEAN]
      BY <1>2 DEF LockSlow, IInv, TypeOK, StarvedWhere, Holding
    <2>2. QED
      BY <1>2, <2>1, MoveKeeps DEF LockSlow, PCs
  <1>3. ASSUME NEW p \in Procs, Elapse(p) PROVE IInv'
    BY <1>3 DEF Elapse, IInv, TypeOK, MutualExclusion, StarvedWhere, WordCounts, Holding
  <1>4. ASSUME NEW p \in Procs, StartListening(p) PROVE IInv'
    <2>1. /\ ~Holding(p) /\ late' \in [Procs -> BOOLEAN]
          /\ starved[p] => pc[p] = "flisten"
      BY <1>4 DEF StartListening, IInv, TypeOK, StarvedWhere, Holding
    <2>2. QED
      BY <1>4, <2>1, MoveKeeps DEF StartListening, PCs
  <1>5. ASSUME NEW p \in Procs, TryAfterListen(p) PROVE IInv'
    <2>1. ~Holding(p) /\ ~starved[p] /\ late' \in [Procs -> BOOLEAN]
      BY <1>5 DEF TryAfterListen, IInv, TypeOK, StarvedWhere, Holding
    <2>2. CASE state = 0
      <3>1. ~Locked /\ state' = state + 1 /\ Goto(p, "took")
        BY <1>5, <2>2, EvenMeansFree DEF TryAfterListen, Bit
      <3>2. QED
        BY <1>5, <2>1, <3>1, TakeKeeps DEF TryAfterListen
    <2>3. CASE state = 1
      BY <1>5, <2>1, <2>3, MoveKeeps DEF TryAfterListen, PCs
    <2>4. CASE state \notin {0, 1}
      BY <1>5, <2>1, <2>4, MoveKeeps DEF TryAfterListen, PCs
    <2>5. QED
      BY <2>2, <2>3, <2>4
  <1>6. ASSUME NEW p \in Procs, Wake(p) PROVE IInv'
    <2>1. /\ ~Holding(p) /\ late' \in [Procs -> BOOLEAN]
          /\ starved[p] => pc[p] = "fwait"
      BY <1>6 DEF Wake, IInv, TypeOK, StarvedWhere, Holding
    <2>2. QED
      BY <1>6, <2>1, MoveKeeps DEF Wake, PCs
  <1>7. ASSUME NEW p \in Procs, TryAfterWake(p) PROVE IInv'
    <2>1. ~Holding(p) /\ ~starved[p] /\ late' \in [Procs -> BOOLEAN]
      BY <1>7 DEF TryAfterWake, IInv, TypeOK, StarvedWhere, Holding
    <2>2. CASE state = 0
      <3>1. ~Locked /\ state' = state + 1 /\ Goto(p, "took")
        BY <1>7, <2>2, EvenMeansFree DEF TryAfterWake, Bit
      <3>2. QED
        BY <1>7, <2>1, <3>1, TakeKeeps DEF TryAfterWake
    <2>3. CASE state = 1
      <3>1. state' = state /\ Goto(p, IF late[p] THEN "starve" ELSE "listen")
        BY <1>7, <2>3 DEF TryAfterWake
      <3>2. QED
        BY <1>7, <2>1, <3>1, MoveKeeps DEF TryAfterWake, PCs
    <2>4. CASE state \notin {0, 1}
      BY <1>7, <2>1, <2>4, MoveKeeps DEF TryAfterWake, PCs
    <2>5. QED
      BY <2>2, <2>3, <2>4
  <1>8. ASSUME NEW p \in Procs, Renotify(p) PROVE IInv'
    <2>1. ~Holding(p) /\ ~starved[p] /\ late' \in [Procs -> BOOLEAN]
      BY <1>8 DEF Renotify, IInv, TypeOK, StarvedWhere, Holding
    <2>2. QED
      BY <1>8, <2>1, MoveKeeps DEF Renotify, PCs
  <1>9. ASSUME NEW p \in Procs, Starve(p) PROVE IInv'
    <2>1. ~starved[p] /\ (\A q \in Procs : Holding(q)' <=> Holding(q))
      BY <1>9 DEF Starve, Goto, IInv, TypeOK, StarvedWhere, Holding
    <2>2. StarvedSet' = StarvedSet \cup {p} /\ p \notin StarvedSet
      BY <1>9, <2>1 DEF Starve, StarvedSet, IInv, TypeOK
    <2>3. IsFiniteSet(StarvedSet) /\ Cardinality(StarvedSet) \in Nat
      BY StarvedCount DEF IInv
    <2>4. Cardinality(StarvedSet') = Cardinality(StarvedSet) + 1
      BY <2>2, <2>3, FS_AddElement
    <2>5. WordCounts'
      <3>1. state' = Bit(Locked) + 2 * Cardinality(StarvedSet')
        BY <1>9, <2>3, <2>4, EvenMeansFree DEF Starve, Bit
      <3>2. QED
        BY <2>1, <3>1 DEF WordCounts, StarvedSet, Locked, Bit
    <2>6. TypeOK' /\ StarvedWhere'
      BY <1>9 DEF Starve, Goto, IInv, TypeOK, StarvedWhere, PCs
    <2>7. MutualExclusion'
      BY <2>1 DEF IInv, MutualExclusion
    <2>8. QED
      BY <2>5, <2>6, <2>7 DEF IInv
  <1>10. ASSUME NEW p \in Procs, FairTry(p) PROVE IInv'
    <2>1. ~Holding(p) /\ late' \in [Procs -> BOOLEAN]
      BY <1>10 DEF FairTry, IInv, TypeOK, Holding
    <2>2. CASE state = 2
      <3>1. ~Locked /\ state' = state + 1 /\ Goto(p, "took")
        BY <1>10, <2>2, EvenMeansFree DEF FairTry
      <3>2. QED
        BY <1>10, <3>1, TakeKeeps DEF FairTry
    <2>3. CASE state # 2
      BY <1>10, <2>1, <2>3, MoveKeeps DEF FairTry, PCs
    <2>4. QED
      BY <2>2, <2>3
  <1>11. ASSUME NEW p \in Procs, FairNotify(p) PROVE IInv'
    <2>1. ~Holding(p) /\ late' \in [Procs -> BOOLEAN]
      BY <1>11 DEF FairNotify, IInv, TypeOK, Holding
    <2>2. QED
      BY <1>11, <2>1, MoveKeeps DEF FairNotify, PCs
  <1>12. ASSUME NEW p \in Procs, FairTake(p) PROVE IInv'
    <2>1. ~Holding(p) /\ late' \in [Procs -> BOOLEAN]
      BY <1>12 DEF FairTake, IInv, TypeOK, Holding
    <2>2. CASE state % 2 = 0
      BY <1>12, <2>2, EvenMeansFree, TakeKeeps DEF FairTake
    <2>3. CASE state % 2 # 0
      BY <1>12, <2>1, <2>3, MoveKeeps DEF FairTake, PCs
    <2>4. QED
      BY <2>2, <2>3
  <1>13. ASSUME NEW p \in Procs, TakeMutex(p) PROVE IInv'
    BY <1>13, UnstarveKeeps DEF TakeMutex, Holding, PCs
  <1>14. ASSUME NEW p \in Procs, DropFuture(p) PROVE IInv'
    <2>1. Holding(p) /\ ~starved[p] /\ late' \in [Procs -> BOOLEAN]
      BY <1>14 DEF DropFuture, IInv, TypeOK, StarvedWhere, Holding
    <2>2. QED
      BY <1>14, <2>1, MoveKeeps DEF DropFuture, PCs
  <1>15. ASSUME NEW p \in Procs, Cancel(p) PROVE IInv'
    BY <1>15, UnstarveKeeps DEF Cancel, Holding, PCs
  <1>16. ASSUME NEW p \in Procs, CancelListener(p) PROVE IInv'
    <2>1. ~Holding(p) /\ ~starved[p] /\ late' \in [Procs -> BOOLEAN]
      BY <1>16 DEF CancelListener, IInv, TypeOK, StarvedWhere, Holding
    <2>2. QED
      BY <1>16, <2>1, MoveKeeps DEF CancelListener, PCs
  <1>17. ASSUME NEW p \in Procs, Unlock(p) PROVE IInv'
    <2>1. Holding(p) /\ ~starved[p]
      BY <1>17 DEF Unlock, IInv, TypeOK, StarvedWhere, Holding
    <2>2. \A q \in Procs : ~Holding(q)'
      BY <1>17, <2>1 DEF Unlock, Goto, IInv, TypeOK, MutualExclusion, Holding
    <2>3. state = 1 + 2 * Cardinality(StarvedSet) /\ Cardinality(StarvedSet) \in Nat
      BY <2>1, EvenMeansFree, StarvedCount DEF Locked, Bit, IInv
    <2>4. StarvedSet' = StarvedSet
      BY <1>17 DEF Unlock, StarvedSet
    <2>5. WordCounts'
      BY <1>17, <2>2, <2>3, <2>4 DEF Unlock, WordCounts, StarvedSet
    <2>6. TypeOK' /\ StarvedWhere'
      BY <1>17, <2>1, <2>3 DEF Unlock, Goto, IInv, TypeOK, StarvedWhere, PCs
    <2>7. MutualExclusion'
      BY <2>2 DEF MutualExclusion
    <2>8. QED
      BY <2>5, <2>6, <2>7 DEF IInv
  <1>18. ASSUME NEW p \in Procs, UnlockNotify(p) PROVE IInv'
    <2>1. ~Holding(p) /\ ~starved[p] /\ late' \in [Procs -> BOOLEAN]
      BY <1>18 DEF UnlockNotify, IInv, TypeOK, StarvedWhere, Holding
    <2>2. QED
      BY <1>18, <2>1, MoveKeeps DEF UnlockNotify, PCs
  <1>19. QED
    BY <1>0, <1>1, <1>2, <1>3, <1>4, <1>5, <1>6, <1>7, <1>8, <1>9, <1>10, <1>11,
       <1>12, <1>13, <1>14, <1>15, <1>16, <1>17, <1>18 DEF Next, Progress

\* No two tasks hold a guard of the mutex, for any number of tasks and any
\* interleaving of lock, try_lock, cancellation and unlock.
THEOREM MutexExclusion == Spec => []MutualExclusion
  <1>1. IInv => MutualExclusion
    BY DEF IInv
  <1>2. QED
    BY InitIInv, NextIInv, <1>1, PTL DEF Spec

\* The word always is the locked bit plus twice the number of starved
\* operations; in particular fetch_sub never underflows it.
THEOREM MutexWord == Spec => [](TypeOK /\ WordCounts)
  <1>1. IInv => TypeOK /\ WordCounts
    BY DEF IInv
  <1>2. QED
    BY InitIInv, NextIInv, <1>1, PTL DEF Spec
-----------------------------------------------------------------------------
(* The refinement. *)

Hs == {p \in Procs : Holding(p)}
Ws == {p \in Procs : Waiting(p)}

\* A move inside the waiting places, the owning places or the others is a
\* stuttering step of the abstract lock.
LEMMA MoveStutters ==
    ASSUME TypeOK, NEW p \in Procs, NEW l \in PCs, Goto(p, l),
           l \in Owning <=> Holding(p), l \in Slow \cup Fair <=> Waiting(p)
    PROVE  Hs' = Hs /\ Ws' = Ws
  BY DEF TypeOK, Goto, Hs, Ws, Holding, Waiting

\* A waiter that takes a free lock is an Acquire step.
LEMMA MoveAcquires ==
    ASSUME TypeOK, NEW p \in Procs, Goto(p, "took"), Waiting(p), ~Locked
    PROVE  AbstractLock!Acquire(p)
  <1>1. Hs = {} /\ Hs' = {p} /\ p \in Ws /\ Ws' = Ws \ {p}
    BY DEF TypeOK, Goto, Hs, Ws, Holding, Waiting, Locked, Owning, Slow, Fair
  <1>2. QED
    BY <1>1 DEF AbstractLock!Acquire, Hs, Ws

\* Every step of the mutex is a step of the abstract lock or none at all.
LEMMA StepSimulates ==
    IInv /\ [Next]_vars => [AbstractLock!LockNext]_(AbstractLock!lockVars)
  <1> SUFFICES ASSUME IInv, [Next]_vars
               PROVE  AbstractLock!LockNext \/ (Hs' = Hs /\ Ws' = Ws)
    BY DEF AbstractLock!lockVars, Hs, Ws
  <1> USE DEF Slow, Fair, Owning
  <1>t. TypeOK
    BY DEF IInv
  <1>0. CASE UNCHANGED vars
    BY <1>0 DEF Hs, Ws, Holding, Waiting, vars
  <1>1. ASSUME NEW p \in Procs, TryLock(p) PROVE AbstractLock!TryAcquire(p)
    <2>1. ~Locked
      BY <1>1, EvenMeansFree DEF TryLock, Bit
    <2>2. Hs = {} /\ Hs' = {p} /\ p \notin Ws /\ Ws' = Ws
      BY <1>t, <1>1, <2>1 DEF TryLock, TypeOK, Goto, Hs, Ws, Holding, Waiting, Locked
    <2>3. QED
      BY <2>2 DEF AbstractLock!TryAcquire, Hs, Ws
  <1>2. ASSUME NEW p \in Procs, LockSlow(p) PROVE AbstractLock!Request(p)
    <2>1. p \notin Hs \cup Ws /\ Hs' = Hs /\ Ws' = Ws \cup {p}
      BY <1>t, <1>2 DEF LockSlow, TypeOK, Goto, Hs, Ws, Holding, Waiting
    <2>2. QED
      BY <2>1 DEF AbstractLock!Request, Hs, Ws
  <1>3. ASSUME NEW p \in Procs, Elapse(p) PROVE Hs' = Hs /\ Ws' = Ws
    BY <1>3 DEF Elapse, Hs, Ws, Holding, Waiting
  <1>4. ASSUME NEW p \in Procs,
               StartListening(p) \/ Wake(p) \/ Renotify(p) \/ Starve(p) \/ FairNotify(p)
        PROVE  Hs' = Hs /\ Ws' = Ws
    BY <1>t, <1>4, MoveStutters
       DEF StartListening, Wake, Renotify, Starve, FairNotify, Holding, Waiting, PCs
  <1>5. ASSUME NEW p \in Procs,
               TakeMutex(p) \/ DropFuture(p) \/ CancelListener(p) \/ UnlockNotify(p)
        PROVE  Hs' = Hs /\ Ws' = Ws
    BY <1>t, <1>5, MoveStutters
       DEF TakeMutex, DropFuture, CancelListener, UnlockNotify, Holding, Waiting, PCs
  <1>6. ASSUME NEW p \in Procs, TryAfterListen(p) \/ TryAfterWake(p) \/ FairTry(p) \/ FairTake(p)
        PROVE  AbstractLock!Acquire(p) \/ (Hs' = Hs /\ Ws' = Ws)
    <2>1. CASE Goto(p, "took") /\ (state = 0 \/ state = 2 \/ state % 2 = 0)
      <3>1. ~Locked /\ Waiting(p)
        BY <1>6, <2>1, EvenMeansFree
           DEF TryAfterListen, TryAfterWake, FairTry, FairTake, Waiting, Bit
      <3>2. QED
        BY <1>t, <2>1, <3>1, MoveAcquires
    <2>2. CASE ~(Goto(p, "took") /\ (state = 0 \/ state = 2 \/ state % 2 = 0))
      BY <1>t, <1>6, <2>2, MoveStutters
         DEF TryAfterListen, TryAfterWake, FairTry, FairTake, Holding, Waiting, PCs
    <2>3. QED
      BY <2>1, <2>2
  <1>7. ASSUME NEW p \in Procs, Cancel(p) PROVE AbstractLock!Cancel(p)
    <2>1. p \in Ws /\ Hs' = Hs /\ Ws' = Ws \ {p}
      BY <1>t, <1>7 DEF Cancel, TypeOK, Goto, Hs, Ws, Holding, Waiting
    <2>2. QED
      BY <2>1 DEF AbstractLock!Cancel, Hs, Ws
  <1>8. ASSUME NEW p \in Procs, Unlock(p) PROVE AbstractLock!Release(p)
    <2>1. Hs = {p} /\ Hs' = {} /\ Ws' = Ws
      BY <1>t, <1>8 DEF Unlock, IInv, MutualExclusion, TypeOK, Goto, Hs, Ws, Holding, Waiting
    <2>2. QED
      BY <2>1 DEF AbstractLock!Release, Hs, Ws
  <1>9. QED
    BY <1>0, <1>1, <1>2, <1>3, <1>4, <1>5, <1>6, <1>7, <1>8
       DEF Next, Progress, AbstractLock!LockNext

\* The mutex implements the lock that the rest of ksync is built on.
THEOREM MutexImplementsLock == Spec => ImplementsLock
  <1>1. Init => AbstractLock!LockInit
    BY DEF Init, AbstractLock!LockInit, Holding, Waiting, Owning, Slow, Fair
  <1>2. QED
    BY InitIInv, NextIInv, StepSimulates, <1>1, PTL
       DEF Spec, ImplementsLock, AbstractLock!LockSpec
-----------------------------------------------------------------------------
(* Wake-ups. *)

Queued == Range(lock_ops.waiting)

\* The places with a listener: some always have one, the others may have kept one.
Listening == {"cas", "wait", "fcas", "fnotify", "fwait"}
MayListen == Listening \cup {"starve", "took", "drop", "cancelled"}
Placed ==
    /\ EventOK(lock_ops, Procs)
    /\ \A p \in Listeners(lock_ops) : pc[p] \in MayListen
    /\ \A p \in Procs : pc[p] \in Listening => p \in Listeners(lock_ops)

\* A process that takes the lock if it is free, or passes the notification on, before it
\* sleeps.
Active(q) ==
    \/ pc[q] \in {"recas", "renotify", "for", "flisten", "fcas", "fnotify", "notify"}
    \/ pc[q] = "starve" /\ ~HasListener(q)

\* If the lock is free, somebody sees to those in the queue.  A process between listen() and
\* its attempt does not count: it goes to sleep if it finds somebody starved.
WakePending ==
    ~Locked /\ (\E p \in Queued : pc[p] # "cas") =>
        lock_ops.notified # {} \/ \E q \in Procs : Active(q)

WakeInv == IInv /\ Placed /\ WakePending

LEMMA PlacedMove ==
    ASSUME IInv, Placed, NEW p \in Procs, NEW l \in PCs, Goto(p, l), EventOK(lock_ops', Procs),
           Listeners(lock_ops') \ {p} = Listeners(lock_ops) \ {p},
           p \in Listeners(lock_ops') => l \in MayListen,
           l \in Listening => p \in Listeners(lock_ops')
    PROVE  Placed'
  <1>1. Listeners(lock_ops') \subseteq Procs
    BY DEF EventOK, Listeners, Range
  <1>2. QED
    BY <1>1 DEF IInv, TypeOK, Placed, Goto

\* A step that leaves the event alone.
LEMMA PlacedStay ==
    ASSUME IInv, Placed, NEW p \in Procs, NEW l \in PCs, Goto(p, l), UNCHANGED lock_ops,
           pc[p] \in MayListen => l \in MayListen,
           l \in Listening => p \in Listeners(lock_ops)
    PROVE  Placed'
  BY PlacedMove DEF Placed

LEMMA NextPlaced == IInv /\ Placed /\ [Next]_vars => Placed'
  <1> SUFFICES ASSUME IInv, Placed, [Next]_vars PROVE Placed'
    OBVIOUS
  <1> USE DEF Slow, Fair, Owning, Listening, MayListen, PCs
  <1>e. EventOK(lock_ops, Procs)
    BY DEF Placed
  <1>0. ASSUME UNCHANGED <<lock_ops, pc>> PROVE Placed'
    BY <1>0 DEF Placed
  <1>1. ASSUME NEW p \in Procs, TryLock(p) \/ LockSlow(p) \/ TakeMutex(p) \/ Cancel(p) \/ Unlock(p)
        PROVE  Placed'
    BY <1>1, PlacedStay DEF TryLock, LockSlow, TakeMutex, Cancel, Unlock
  <1>2. ASSUME NEW p \in Procs, TryAfterListen(p) \/ TryAfterWake(p) \/ FairTry(p) \/ FairTake(p)
        PROVE  Placed'
    BY <1>2, PlacedStay DEF TryAfterListen, TryAfterWake, FairTry, FairTake, Placed
  <1>3. ASSUME NEW p \in Procs, Starve(p) PROVE Placed'
    <2>1. CASE HasListener(p)
      BY <1>3, <2>1, PlacedStay DEF Starve, HasListener
    <2>2. CASE ~HasListener(p)
      BY <1>e, <1>3, <2>2, PlacedMove DEF Starve, HasListener
    <2>3. QED
      BY <2>1, <2>2
  <1>4. ASSUME NEW p \in Procs, StartListening(p) PROVE Placed'
    <2>1. p \notin Listeners(lock_ops)
      BY <1>4 DEF StartListening, Placed
    <2>2. /\ EventOK(lock_ops', Procs) /\ p \in Listeners(lock_ops')
          /\ Listeners(lock_ops') \ {p} = Listeners(lock_ops) \ {p}
      BY <1>e, <1>4, <2>1, ListenAdds DEF StartListening, Listeners
    <2>3. QED
      BY <1>4, <2>2, PlacedMove DEF StartListening
  <1>5. ASSUME NEW p \in Procs, Wake(p) PROVE Placed'
    <2>1. /\ EventOK(lock_ops', Procs) /\ p \notin Listeners(lock_ops')
          /\ Listeners(lock_ops') \ {p} = Listeners(lock_ops) \ {p}
      BY <1>e, <1>5, ConsumeForgets DEF Wake, Listeners, IsNotified, EventOK
    <2>2. QED
      BY <1>5, <2>1, PlacedMove DEF Wake
  <1>6. ASSUME NEW p \in Procs, Renotify(p) \/ FairNotify(p) \/ UnlockNotify(p) PROVE Placed'
    <2>1. EventOK(lock_ops', Procs) /\ Listeners(lock_ops') = Listeners(lock_ops)
      BY <1>e, <1>6, ProcsFinite, NotifyWakes DEF Renotify, FairNotify, UnlockNotify, Listeners
    <2>2. p \in Listeners(lock_ops) <=> pc[p] = "fnotify"
      BY <1>6 DEF Renotify, FairNotify, UnlockNotify, Placed
    <2>3. QED
      BY <1>6, <2>1, <2>2, PlacedMove DEF Renotify, FairNotify, UnlockNotify
  <1>7. ASSUME NEW p \in Procs, DropFuture(p) \/ CancelListener(p) PROVE Placed'
    <2>1. EventOK(lock_ops', Procs) /\ Listeners(lock_ops') = Listeners(lock_ops) \ {p}
      BY <1>e, <1>7, ProcsFinite, DropPassesOn DEF DropFuture, CancelListener
    <2>2. QED
      BY <1>7, <2>1, PlacedMove DEF DropFuture, CancelListener
  <1>8. QED
    BY <1>0, <1>1, <1>2, <1>3, <1>4, <1>5, <1>6, <1>7 DEF Next, Progress, Elapse, vars

\* What settles the matter after a step.
LEMMA Settled ==
    ASSUME NEW p \in Procs,
           Locked' \/ Active(p)' \/ lock_ops'.notified # {} \/ Queued' = {}
    PROVE  WakePending'
  BY DEF WakePending

\* A step of a process on which nobody relies, and that does not go to sleep.
LEMMA Quiet ==
    ASSUME IInv, Placed, WakePending, NEW p \in Procs, NEW l, Goto(p, l), UNCHANGED lock_ops,
           ~Locked' => ~Locked, ~Active(p), p \in Queued => pc[p] # "cas"
    PROVE  WakePending'
  <1>1. \A q \in Procs : q # p => (Active(q)' <=> Active(q)) /\ pc'[q] = pc[q]
    BY DEF Active, HasListener, Goto, IInv, TypeOK
  <1>2. Queued' = Queued /\ Queued \subseteq Procs
    BY DEF Queued, Placed, EventOK, Range
  <1>3. QED
    BY <1>1, <1>2 DEF WakePending

LEMMA NextWakePending == WakeInv /\ [Next]_vars => WakePending'
  <1> SUFFICES ASSUME WakeInv, [Next]_vars PROVE WakePending'
    OBVIOUS
  <1> USE DEF Owning
  <1>i. IInv /\ TypeOK /\ Placed /\ WakePending /\ EventOK(lock_ops, Procs)
    BY DEF WakeInv, IInv, Placed
  <1>q. Queued \subseteq Procs /\ Queued \subseteq Listeners(lock_ops)
    BY <1>i DEF Queued, EventOK, Range, Listeners
  <1>0. ASSUME UNCHANGED <<lock_ops, pc>> PROVE WakePending'
    BY <1>0, <1>i DEF WakePending, Locked, Holding, Queued, Active, HasListener
  <1>1. ASSUME NEW p \in Procs, TryLock(p) \/ TakeMutex(p) \/ DropFuture(p) PROVE WakePending'
    <2>1. Locked'
      BY <1>1, <1>i DEF TryLock, TakeMutex, DropFuture, Goto, Locked, Holding, TypeOK
    <2>2. QED
      BY <2>1, Settled
  <1>2. ASSUME NEW p \in Procs, LockSlow(p) PROVE WakePending'
    <2>1. ~Active(p) /\ p \notin Queued
      BY <1>2, <1>i, <1>q DEF LockSlow, Active, Placed, MayListen, Listening
    <2>2. Locked' <=> Locked
      BY <1>2, <1>i DEF LockSlow, Goto, Locked, Holding, TypeOK
    <2>3. QED
      BY <1>2, <1>i, <2>1, <2>2, Quiet DEF LockSlow
  <1>3. ASSUME NEW p \in Procs, StartListening(p) PROVE WakePending'
    <2>1. CASE pc[p] = "flisten"
      <3>1. Active(p)'
        BY <1>3, <1>i, <2>1 DEF StartListening, Goto, Active, TypeOK
      <3>2. QED
        BY <3>1, Settled
    <2>2. CASE pc[p] = "listen"
      <3>1. p \notin Listeners(lock_ops)
        BY <1>i, <2>2 DEF Placed, MayListen, Listening
      <3>2. /\ Queued' = Queued \cup {p} /\ lock_ops'.notified = lock_ops.notified
            /\ Listeners(lock_ops') = Listeners(lock_ops) \cup {p}
        BY <1>3, <1>i, <3>1, ListenAdds DEF StartListening, Queued, Listeners
      <3>3. pc'[p] = "cas" /\ \A q \in Procs : q # p => pc'[q] = pc[q]
        BY <1>3, <1>i, <2>2 DEF StartListening, Goto, TypeOK
      <3>4. Locked' <=> Locked
        BY <2>2, <3>3 DEF Locked, Holding
      <3>5. ASSUME NEW q \in Procs, Active(q) PROVE Active(q)'
        BY <2>2, <3>2, <3>3, <3>5 DEF Active, HasListener
      <3>6. QED
        BY <1>i, <1>q, <3>2, <3>3, <3>4, <3>5 DEF WakePending
    <2>3. QED
      BY <1>3, <2>1, <2>2 DEF StartListening
  <1>4. ASSUME NEW p \in Procs, TryAfterListen(p) PROVE WakePending'
    <2>1. CASE Locked
      <3>1. Locked'
        BY <1>4, <1>i, <2>1 DEF TryAfterListen, Goto, Locked, Holding, TypeOK
      <3>2. QED
        BY <3>1, Settled
    <2>2. CASE state = 0
      <3>1. Locked'
        BY <1>4, <1>i, <2>2 DEF TryAfterListen, Goto, Locked, Holding, TypeOK
      <3>2. QED
        BY <3>1, Settled
    <2>3. CASE ~Locked /\ state # 0
      \* Somebody is starved, and not in possession of the lock.
      <3>1. StarvedSet # {}
        <4>1. state = 2 * Cardinality(StarvedSet)
          BY <1>i, <2>3, EvenMeansFree, StarvedCount DEF Bit
        <4>2. QED
          BY <2>3, <4>1, FS_EmptySet
      <3>2. PICK x \in Procs : starved[x]
        BY <3>1 DEF StarvedSet
      <3>3. pc[x] \in Fair
        BY <1>i, <2>3, <3>2 DEF IInv, StarvedWhere, Locked, Holding
      <3>4. Active(x) \/ lock_ops.notified # {} \/ (x \in Queued /\ pc[x] # "cas")
        BY <1>i, <3>3 DEF Fair, Active, Placed, Listening, Listeners, Queued
      <3>5. lock_ops.notified # {} \/ \E q \in Procs : Active(q)
        BY <1>i, <2>3, <3>4 DEF WakePending
      <3>6. ASSUME NEW q \in Procs, Active(q) PROVE Active(q)'
        BY <1>4, <1>i, <3>6 DEF TryAfterListen, Goto, Active, HasListener, TypeOK
      <3>7. lock_ops' = lock_ops
        BY <1>4 DEF TryAfterListen
      <3>8. QED
        BY <3>5, <3>6, <3>7 DEF WakePending
    <2>4. QED
      BY <2>1, <2>2, <2>3
  <1>5. ASSUME NEW p \in Procs, Wake(p) \/ Unlock(p) PROVE WakePending'
    <2>1. Active(p)'
      BY <1>5, <1>i DEF Wake, Unlock, Goto, Active, TypeOK
    <2>2. QED
      BY <2>1, Settled
  <1>6. ASSUME NEW p \in Procs, TryAfterWake(p) \/ FairTry(p) \/ FairTake(p) PROVE WakePending'
    <2>1. pc[p] \notin Owning
      BY <1>6 DEF TryAfterWake, FairTry, FairTake
    <2>2. CASE Locked
      <3>1. Locked'
        BY <1>6, <1>i, <2>1, <2>2
           DEF TryAfterWake, FairTry, FairTake, Goto, Locked, Holding, TypeOK
      <3>2. QED
        BY <3>1, Settled
    <2>3. CASE ~Locked
      <3>1. state % 2 = 0 /\ state # 1
        BY <1>i, <2>3, EvenMeansFree
      <3>2. pc'[p] = "took" \/ pc'[p] \in {"renotify", "fnotify"}
        BY <1>6, <1>i, <3>1 DEF TryAfterWake, FairTry, FairTake, Goto, TypeOK
      <3>3. Locked' \/ Active(p)'
        BY <3>2 DEF Locked, Holding, Active
      <3>4. QED
        BY <3>3, Settled
    <2>4. QED
      BY <2>2, <2>3
  <1>7. ASSUME NEW p \in Procs, Renotify(p) \/ FairNotify(p) \/ UnlockNotify(p) PROVE WakePending'
    <2>1. lock_ops'.notified # {} \/ Queued' = {}
      BY <1>7, <1>i, ProcsFinite, NotifyWakes DEF Renotify, FairNotify, UnlockNotify, Queued
    <2>2. QED
      BY <2>1, Settled
  <1>8. ASSUME NEW p \in Procs, Starve(p) PROVE WakePending'
    <2>1. CASE HasListener(p)
      <3>1. ~Active(p) /\ pc[p] # "cas"
        BY <1>8, <2>1 DEF Starve, Active
      <3>2. Locked' <=> Locked
        BY <1>8, <1>i DEF Starve, Goto, Locked, Holding, TypeOK
      <3>3. QED
        BY <1>8, <1>i, <3>1, <3>2, Quiet DEF Starve
    <2>2. CASE ~HasListener(p)
      <3>1. Active(p)'
        BY <1>8, <1>i, <2>2 DEF Starve, Goto, Active, TypeOK
      <3>2. QED
        BY <3>1, Settled
    <2>3. QED
      BY <2>1, <2>2
  <1>9. ASSUME NEW p \in Procs, Cancel(p) PROVE WakePending'
    <2>1. ~Active(p) /\ pc[p] # "cas"
      BY <1>9 DEF Cancel, Active
    <2>2. Locked' <=> Locked
      BY <1>9, <1>i DEF Cancel, Goto, Locked, Holding, TypeOK
    <2>3. QED
      BY <1>9, <1>i, <2>1, <2>2, Quiet DEF Cancel
  <1>10. ASSUME NEW p \in Procs, CancelListener(p) PROVE WakePending'
    <2>1. /\ Listeners(lock_ops') = Listeners(lock_ops) \ {p}
          /\ Queued' \subseteq Queued
          /\ lock_ops.notified # {} => lock_ops'.notified # {} \/ Queued' = {}
      BY <1>10, <1>i, ProcsFinite, DropPassesOn DEF CancelListener, Queued
    <2>2. /\ p \notin Queued' /\ \A q \in Procs : q # p => pc'[q] = pc[q]
          /\ Locked' <=> Locked
      BY <1>10, <1>i, <2>1 DEF CancelListener, Goto, TypeOK, Locked, Holding, Queued, Listeners
    <2>3. ASSUME NEW q \in Procs, Active(q) PROVE Active(q)'
      BY <1>10, <2>1, <2>2, <2>3 DEF CancelListener, Active, HasListener
    <2>4. QED
      BY <1>i, <1>q, <2>1, <2>2, <2>3 DEF WakePending
  <1>11. QED
    BY <1>0, <1>1, <1>2, <1>3, <1>4, <1>5, <1>6, <1>7, <1>8, <1>9, <1>10
       DEF Next, Progress, Elapse, vars

\* No wake-up of the mutex is lost (NoLostWakeup): whatever futures are dropped between a
\* notification and their next poll, and whoever notifies on behalf of the starved, nobody
\* stays parked on a free lock that no one else is at work on.
THEOREM MutexNoLostWakeup == Spec => []NoLostWakeup
  <1>1. Init => WakeInv
    <2> SUFFICES ASSUME Init PROVE WakeInv
      OBVIOUS
    <2>1. EventOK(lock_ops, Procs) /\ Listeners(lock_ops) = {}
      BY NewEventOK DEF Init
    <2>2. Placed /\ WakePending
      BY <2>1 DEF Init, Placed, WakePending, Listeners, Queued, Listening
    <2>3. QED
      BY <2>2, InitIInv DEF WakeInv
  <1>2. WakeInv /\ [Next]_vars => WakeInv'
    BY NextIInv, NextPlaced, NextWakePending DEF WakeInv
  <1>3. WakeInv => NoLostWakeup
    <2> SUFFICES ASSUME WakeInv, \A p \in Procs : pc[p] = "idle" \/ Parked(p),
                        NEW p \in Procs, Parked(p)
                 PROVE  FALSE
      BY DEF NoLostWakeup
    <2>1. p \in Queued /\ pc[p] # "cas"
      BY DEF WakeInv, Placed, Parked, IsNotified, Queued, Listeners, Listening
    <2>2. ~Locked /\ \A q \in Procs : ~Active(q)
      BY DEF Locked, Holding, Owning, Active, Parked
    <2>3. lock_ops.notified = {}
      BY DEF WakeInv, Placed, MayListen, Listening, Parked, IsNotified, Listeners, EventOK
    <2>4. QED
      BY <2>1, <2>2, <2>3 DEF WakeInv, WakePending
  <1>4. QED
    BY <1>1, <1>2, <1>3, PTL DEF Spec
=============================================================================
