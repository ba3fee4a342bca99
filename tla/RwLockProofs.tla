---------------------------- MODULE RwLockProofs ----------------------------
(***************************************************************************)
(* Proofs about module RwLock, for any finite set of processes and any     *)
(* choice of operations: the type invariant, the exclusion of readers and  *)
(* writers, what the packed word counts, that the lock implements module   *)
(* SharedLock, and, without downgrade_to_upgradable(), that it loses no    *)
(* wake-up.                                                                *)
(***************************************************************************)
EXTENDS RwLock, FiniteSetTheorems, TLAPS

Readers == {p \in Procs : Reading(p)}
Count == Cardinality(Readers)
Bitted == \E p \in Procs : pc[p] \in Marked
Bit(b) == IF b THEN 1 ELSE 0

\* The inner mutex is held exactly in the places between its acquisition and
\* the drop of `reserved`.
MutexWhere == \A p \in Procs : p \in holders <=> pc[p] \in Reserved
OneHolder == \A p, q \in holders : p = q

\* A process that was told that it writes found no readers, and none came since.
WriterAlone == \A p, q \in Procs : Writing(p) => ~Reading(q)

\* The inductive invariant.  The word alone does not give exclusion: that a set
\* WRITER_BIT belongs to one process is due to the inner mutex.
IInv == TypeOK /\ MutexWhere /\ OneHolder /\ WordCounts /\ WriterAlone

\* There are finitely many readers.
LEMMA CountType ==
    ASSUME TypeOK
    PROVE  IsFiniteSet(Readers) /\ Count \in Nat
  BY ProcsFinite, FS_Subset, FS_CardinalityType DEF Readers, Count

\* What the code learns from the word.
LEMMA WordFacts ==
    ASSUME IInv
    PROVE  /\ state = 2 * Count + Bit(Bitted)
           /\ WriterBit <=> Bitted
           /\ state \in {0, 1} => Readers = {}
  <1>1. Count \in Nat /\ IsFiniteSet(Readers)
    BY CountType DEF IInv
  <1>2. state = 2 * Count + Bit(Bitted)
    BY DEF IInv, WordCounts, Bit, Bitted, Count, Readers, WRITER_BIT, ONE_READER
  <1>3. \A c \in Nat : (2 * c + 0) % 2 = 0 /\ (2 * c + 1) % 2 = 1
    OBVIOUS
  <1>4. WriterBit <=> Bitted
    BY <1>1, <1>2, <1>3 DEF Bit, WriterBit, WRITER_BIT
  <1>5. state \in {0, 1} => Count = 0
    BY <1>1, <1>2 DEF Bit
  <1>6. Count = 0 => Readers = {}
    BY <1>1, FS_EmptySet DEF Count
  <1>7. QED
    BY <1>2, <1>4, <1>5, <1>6

\* How a move of one process changes the number of readers.
LEMMA CountAfter ==
    ASSUME TypeOK, NEW p \in Procs, NEW l, Goto(p, l)
    PROVE  /\ Count' \in Nat
           /\ Reading(p) /\ l \in Shared => Count' = Count
           /\ ~Reading(p) /\ l \notin Shared => Count' = Count
           /\ ~Reading(p) /\ l \in Shared => Count' = Count + 1
           /\ Reading(p) /\ l \notin Shared => Count' = Count - 1
  <1>1. IsFiniteSet(Readers)
    BY CountType
  <1>2. Readers' = IF l \in Shared THEN Readers \cup {p} ELSE Readers \ {p}
    BY DEF TypeOK, Goto, Readers, Reading
  <1>3. Reading(p) <=> p \in Readers
    BY DEF Readers
  <1>4. /\ IsFiniteSet(Readers \cup {p})
        /\ Cardinality(Readers \cup {p}) = IF p \in Readers THEN Cardinality(Readers)
                                                            ELSE Cardinality(Readers) + 1
    BY <1>1, FS_AddElement
  <1>5. /\ IsFiniteSet(Readers \ {p})
        /\ Cardinality(Readers \ {p}) = IF p \in Readers THEN Cardinality(Readers) - 1
                                                         ELSE Cardinality(Readers)
    BY <1>1, FS_RemoveElement
  <1>6. Cardinality(Readers \cup {p}) \in Nat /\ Cardinality(Readers \ {p}) \in Nat
    BY <1>4, <1>5, FS_CardinalityType
  <1>7. QED
    BY <1>2, <1>3, <1>4, <1>5, <1>6 DEF Count

\* Whose WRITER_BIT it is: the holder of the inner mutex decides alone.
LEMMA MarkAfter ==
    ASSUME IInv, NEW p \in Procs, NEW l, Goto(p, l)
    PROVE  /\ pc[p] \in Reserved => (Bitted <=> pc[p] \in Marked) /\ (Bitted' <=> l \in Marked)
           /\ pc[p] \notin Marked /\ l \notin Marked => (Bitted' <=> Bitted)
  <1>1. Marked \subseteq Reserved
    BY DEF Marked, Reserved
  <1>2. \A q \in Procs : pc'[q] = IF q = p THEN l ELSE pc[q]
    BY DEF IInv, TypeOK, Goto
  <1>3. \A q \in Procs : pc[p] \in Reserved /\ pc[q] \in Marked => q = p
    BY <1>1 DEF IInv, MutexWhere, OneHolder
  <1>4. QED
    BY <1>2, <1>3 DEF Bitted

\* A step keeps the invariant if it updates the word by what it changes.
LEMMA StepKeeps ==
    ASSUME IInv, NEW p \in Procs, NEW l \in PCs, Goto(p, l),
           state' = 2 * Count' + Bit(Bitted'),
           holders' \subseteq Procs, waiters' \subseteq Procs,
           MutexWhere', OneHolder',
           l \in {"w_done", "writing"} /\ ~Writing(p) => Readers' = {},
           l \in Shared /\ ~Reading(p) => ~Bitted'
    PROVE  IInv'
  <1>1. \A q \in Procs : pc'[q] = IF q = p THEN l ELSE pc[q]
    BY DEF IInv, TypeOK, Goto
  <1>2. Count' \in Nat
    BY CountAfter DEF IInv
  <1>3. TypeOK'
    <2>1. state' \in Nat
      <3>1. Bit(Bitted') \in {0, 1}
        BY DEF Bit
      <3>2. QED
        BY <1>2, <3>1
    <2>2. pc' \in [Procs -> PCs]
      BY DEF IInv, TypeOK, Goto
    <2>3. QED
      BY <2>1, <2>2 DEF TypeOK
  <1>4. WordCounts'
    BY DEF WordCounts, Bit, Bitted, Count, Readers, WRITER_BIT, ONE_READER
  <1>5. WriterAlone'
    <2> SUFFICES ASSUME NEW a \in Procs, NEW b \in Procs, Writing(a)', Reading(b)'
                 PROVE  FALSE
      BY DEF WriterAlone
    <2>1. CASE a = p
      <3>1. l \in {"w_done", "writing"}
        BY <1>1, <2>1 DEF Writing
      <3>2. CASE ~Writing(p)
        BY <3>1, <3>2 DEF Readers
      <3>3. CASE Writing(p)
        BY <1>1, <3>1, <3>3 DEF IInv, WriterAlone, Reading, Shared
      <3>4. QED
        BY <3>2, <3>3
    <2>2. CASE a # p
      <3>1. Writing(a) /\ Bitted'
        BY <1>1, <2>2 DEF Writing, Bitted, Marked
      <3>2. b = p /\ l \in Shared /\ ~Reading(p)
        BY <1>1, <3>1 DEF IInv, WriterAlone, Reading
      <3>3. QED
        BY <3>1, <3>2
    <2>3. QED
      BY <2>1, <2>2
  <1>6. QED
    BY <1>3, <1>4, <1>5 DEF IInv

\* Steps that leave the inner mutex alone.
LEMMA SameMutex ==
    ASSUME IInv, NEW p \in Procs, NEW l, Goto(p, l), UNCHANGED mutex,
           l \in Reserved <=> pc[p] \in Reserved
    PROVE  /\ holders' \subseteq Procs /\ waiters' \subseteq Procs
           /\ MutexWhere' /\ OneHolder'
  BY DEF IInv, TypeOK, Goto, mutex, MutexWhere, OneHolder

\* Steps that neither touch the word nor change who reads, writes or marks.
LEMMA MoveKeeps ==
    ASSUME IInv, NEW p \in Procs, NEW l \in PCs, Goto(p, l), UNCHANGED <<state, mutex>>,
           l \in Reserved <=> pc[p] \in Reserved,
           l \in Marked <=> pc[p] \in Marked,
           l \in Shared <=> Reading(p),
           l \in {"w_done", "writing"} /\ ~Writing(p) => Readers' = {}
    PROVE  IInv'
  <1>1. Count' = Count
    BY CountAfter DEF IInv
  <1>2. Bitted' <=> Bitted
    <2>1. CASE pc[p] \in Marked
      BY <2>1, MarkAfter DEF Reserved
    <2>2. CASE pc[p] \notin Marked
      BY <2>2, MarkAfter
    <2>3. QED
      BY <2>1, <2>2
  <1>3. state' = 2 * Count' + Bit(Bitted')
    BY <1>1, <1>2, WordFacts DEF Bit
  <1>4. QED
    BY <1>3, SameMutex, StepKeeps

\* The inner mutex is acquired: nobody held it.
LEMMA AcquireKeeps ==
    ASSUME IInv, NEW p \in Procs, NEW l \in Reserved \ (Marked \cup Shared), Goto(p, l),
           UNCHANGED state, waiters' \subseteq Procs,
           pc[p] \notin Reserved \cup Shared, holders = {}, holders' = {p}
    PROVE  IInv'
  <1>1. Count' = Count
    BY CountAfter DEF IInv, Reading
  <1>2. Bitted' <=> Bitted
    BY MarkAfter DEF Reserved
  <1>3. state' = 2 * Count' + Bit(Bitted')
    BY <1>1, <1>2, WordFacts DEF Bit
  <1>4. MutexWhere' /\ OneHolder' /\ holders' \subseteq Procs
    BY DEF IInv, TypeOK, Goto, MutexWhere, OneHolder
  <1>5. l \in PCs /\ l \notin {"w_done", "writing"}
    BY DEF PCs, Marked
  <1>6. QED
    BY <1>3, <1>4, <1>5, StepKeeps

\* The inner mutex is released by its holder, who has given WRITER_BIT back.
LEMMA ReleaseKeeps ==
    ASSUME IInv, NEW p \in Procs, NEW l \in PCs \ Reserved, Goto(p, l),
           UNCHANGED <<state, waiters>>, holders = {p}, holders' = {},
           pc[p] \notin Marked, l \in Shared <=> Reading(p)
    PROVE  IInv'
  <1>1. Count' = Count
    BY CountAfter DEF IInv
  <1>2. Bitted' <=> Bitted
    BY MarkAfter DEF Reserved
  <1>3. state' = 2 * Count' + Bit(Bitted')
    BY <1>1, <1>2, WordFacts DEF Bit
  <1>4. /\ MutexWhere' /\ OneHolder'
        /\ holders' \subseteq Procs /\ waiters' \subseteq Procs
    BY DEF IInv, TypeOK, Goto, MutexWhere, OneHolder
  <1>5. l \notin {"w_done", "writing"}
    BY DEF Reserved, Marked
  <1>6. QED
    BY <1>3, <1>4, <1>5, StepKeeps

\* A new lock satisfies the invariant.
LEMMA InitIInv == Init => IInv
  <1> SUFFICES ASSUME Init PROVE IInv
    OBVIOUS
  <1>1. TypeOK /\ MutexWhere /\ OneHolder /\ WriterAlone
    BY DEF Init, M!LockInit, TypeOK, MutexWhere, OneHolder, WriterAlone, Writing,
           PCs, Reserved, Marked
  <1>2. {p \in Procs : Reading(p)} = {} /\ ~\E p \in Procs : pc[p] \in Marked
    BY DEF Init, Reading, Shared, Marked
  <1>3. WordCounts
    BY <1>2, FS_EmptySet DEF Init, WordCounts, ONE_READER
  <1>4. QED
    BY <1>1, <1>3 DEF IInv
-----------------------------------------------------------------------------
\* Every step of the lock keeps the invariant.
LEMMA NextIInv == IInv /\ [Next]_vars => IInv'
  <1> SUFFICES ASSUME IInv, [Next]_vars PROVE IInv'
    OBVIOUS
  <1> USE DEF Reserved, Marked, Shared, Reading, Writing, At, WRITER_BIT, ONE_READER
  <1>c. Count \in Nat
    BY CountType DEF IInv
  <1>0. CASE UNCHANGED vars
    BY <1>0 DEF IInv, TypeOK, MutexWhere, OneHolder, WordCounts, WriterAlone, vars
  (* Reading. *)
  <1>1. ASSUME NEW p \in Procs, ReadStart(p) PROVE IInv'
    BY <1>1, MoveKeeps DEF ReadStart, PCs
  <1>2. ASSUME NEW p \in Procs, ReadTry(p) \/ TryRead(p) PROVE IInv'
    <2>1. CASE WriterBit
      BY <1>2, <2>1, MoveKeeps DEF ReadTry, TryRead, PCs
    <2>2. CASE ~WriterBit
      <3>1. PICK l \in {"r_done", "reading"} : Goto(p, l)
        BY <1>2, <2>2 DEF ReadTry, TryRead
      <3>2. state' = state + 2 /\ pc[p] \in {"r_try", "idle"} /\ UNCHANGED mutex
        BY <1>2, <2>2 DEF ReadTry, TryRead
      <3>3. Count' = Count + 1
        BY <3>1, <3>2, CountAfter DEF IInv
      <3>4. ~Bitted /\ ~Bitted'
        BY <2>2, <3>1, <3>2, WordFacts, MarkAfter
      <3>5. state' = 2 * Count' + Bit(Bitted')
        BY <1>c, <3>2, <3>3, <3>4, WordFacts DEF Bit
      <3>6. QED
        BY <3>1, <3>2, <3>4, <3>5, SameMutex, StepKeeps DEF PCs
    <2>3. QED
      BY <2>1, <2>2
  <1>3. ASSUME NEW p \in Procs, ReadListen(p) \/ ReadWake(p) \/ ReadNotify(p) PROVE IInv'
    BY <1>3, MoveKeeps DEF ReadListen, ReadWake, ReadNotify, PCs
  <1>4. ASSUME NEW p \in Procs, ReadDone(p) \/ ReadCancel(p) PROVE IInv'
    BY <1>4, MoveKeeps DEF ReadDone, ReadCancel, PCs
  <1>5. ASSUME NEW p \in Procs, ReadUnlock(p) PROVE IInv'
    <2>1. PICK l \in {"r_last", "idle", "ux_last", "ux_mutex"} :
              Goto(p, l) /\ (l \in {"ux_last", "ux_mutex"} <=> At(p, "upreading"))
      BY <1>5 DEF ReadUnlock
    <2>2. state' = state - 2 /\ pc[p] \in {"reading", "upreading"} /\ UNCHANGED mutex
      BY <1>5 DEF ReadUnlock
    <2>3. Count' = Count - 1
      BY <2>1, <2>2, CountAfter DEF IInv
    <2>4. Bitted' <=> Bitted
      BY <2>1, <2>2, MarkAfter
    <2>5. state' = 2 * Count' + Bit(Bitted')
      BY <1>c, <2>2, <2>3, <2>4, WordFacts DEF Bit
    <2>6. QED
      BY <2>1, <2>2, <2>5, SameMutex, StepKeeps DEF PCs
  <1>6. ASSUME NEW p \in Procs, LastReader(p) PROVE IInv'
    BY <1>6, MoveKeeps DEF LastReader, PCs
  (* The inner mutex. *)
  <1>7. ASSUME NEW p \in Procs, Request(p) \/ MutexCancel(p) PROVE IInv'
    <2>1. PICK l \in {"w_lock", "u_lock", "idle"} : Goto(p, l)
      BY <1>7 DEF Request, MutexCancel
    <2>2. /\ pc[p] \in {"w_lock", "u_lock", "idle"} /\ UNCHANGED <<state, holders>>
          /\ waiters' \subseteq Procs
      BY <1>7 DEF Request, MutexCancel, M!Request, M!Cancel, IInv, TypeOK
    <2>3. Count' = Count /\ (Bitted' <=> Bitted)
      BY <2>1, <2>2, CountAfter, MarkAfter DEF IInv
    <2>4. state' = 2 * Count' + Bit(Bitted')
      BY <2>2, <2>3, WordFacts DEF Bit
    <2>5. MutexWhere' /\ OneHolder' /\ holders' \subseteq Procs
      BY <2>1, <2>2 DEF IInv, TypeOK, Goto, MutexWhere, OneHolder
    <2>6. QED
      BY <2>1, <2>2, <2>4, <2>5, StepKeeps DEF PCs
  <1>8. ASSUME NEW p \in Procs, MutexAcquire(p) \/ TryMutex(p) PROVE IInv'
    <2>1. PICK l \in {"w_bit", "u_inc", "tw"} : Goto(p, l)
      BY <1>8 DEF MutexAcquire, TryMutex
    <2>2. /\ pc[p] \in {"w_lock", "u_lock", "idle"} /\ UNCHANGED state
          /\ holders = {} /\ holders' = {p} /\ waiters' \subseteq Procs
      BY <1>8 DEF MutexAcquire, TryMutex, M!Acquire, M!TryAcquire, IInv, TypeOK
    <2>3. QED
      BY <2>1, <2>2, AcquireKeeps
  <1>9. ASSUME NEW p \in Procs, MutexRelease(p) PROVE IInv'
    <2>1. PICK l \in {"x_listener", "idle", "reading"} :
              Goto(p, l) /\ (l \in Shared <=> Reading(p))
      BY <1>9 DEF MutexRelease
    <2>2. /\ pc[p] \in {"x_mutex", "ux_mutex", "tw_fail", "d_mutex", "upreading"}
          /\ UNCHANGED <<state, waiters>> /\ holders = {p} /\ holders' = {}
      BY <1>9 DEF MutexRelease, M!Release
    <2>3. QED
      BY <2>1, <2>2, ReleaseKeeps DEF PCs
  (* Writing. *)
  <1>10. ASSUME NEW p \in Procs, SetWriterBit(p) PROVE IInv'
    <2>1. ~Bitted /\ ~WriterBit /\ state # 1
      BY <1>10, MarkAfter, WordFacts DEF SetWriterBit, WriterBit
    <2>2. Goto(p, "w_listen") /\ state' = state + 1 /\ UNCHANGED mutex
      BY <1>10, <2>1 DEF SetWriterBit
    <2>3. Count' = Count /\ Bitted'
      BY <1>10, <2>2, CountAfter, MarkAfter DEF IInv, SetWriterBit
    <2>4. state' = 2 * Count' + Bit(Bitted')
      BY <1>c, <2>1, <2>2, <2>3, WordFacts DEF Bit
    <2>5. QED
      BY <1>10, <2>2, <2>4, SameMutex, StepKeeps DEF PCs, SetWriterBit
  <1>11. ASSUME NEW p \in Procs, WriteListen(p) \/ WriteWake(p) \/ WriteRepoll(p) PROVE IInv'
    BY <1>11, MoveKeeps DEF WriteListen, WriteWake, WriteRepoll, PCs
  <1>12. ASSUME NEW p \in Procs, WriteCheck(p) PROVE IInv'
    <2>1. CASE state = 1
      <3>1. Goto(p, "w_done") /\ Readers = {}
        BY <1>12, <2>1, WordFacts DEF WriteCheck
      <3>2. Readers' = {}
        BY <3>1 DEF Readers, Goto, IInv, TypeOK
      <3>3. QED
        BY <1>12, <3>1, <3>2, MoveKeeps DEF WriteCheck, PCs
    <2>2. CASE state # 1
      BY <1>12, <2>2, MoveKeeps DEF WriteCheck, PCs
    <2>3. QED
      BY <2>1, <2>2
  <1>13. ASSUME NEW p \in Procs, WriteDone(p) PROVE IInv'
    BY <1>13, MoveKeeps DEF WriteDone, PCs
  <1>14. ASSUME NEW p \in Procs, TryWrite(p) PROVE IInv'
    <2>1. CASE state = 0
      <3>1. Goto(p, "writing") /\ state' = state + 1 /\ UNCHANGED mutex /\ Readers = {}
        BY <1>14, <2>1, WordFacts DEF TryWrite
      <3>2. Count' = Count /\ Bitted' /\ ~Bitted
        BY <1>14, <3>1, CountAfter, MarkAfter DEF IInv, TryWrite
      <3>3. state' = 2 * Count' + Bit(Bitted')
        BY <1>c, <3>1, <3>2, WordFacts DEF Bit
      <3>4. Readers' = {}
        BY <3>1 DEF Readers, Goto, IInv, TypeOK
      <3>5. QED
        BY <1>14, <3>1, <3>3, <3>4, SameMutex, StepKeeps DEF PCs, TryWrite
    <2>2. CASE state # 0
      BY <1>14, <2>2, MoveKeeps DEF TryWrite, PCs
    <2>3. QED
      BY <2>1, <2>2
  <1>15. ASSUME NEW p \in Procs, ClearWriterBit(p) PROVE IInv'
    <2>1. Bitted /\ WriterBit /\ pc[p] \in {"writing", "w_new", "w_poll"}
      BY <1>15, MarkAfter, WordFacts DEF ClearWriterBit
    <2>2. Goto(p, "x_notify") /\ state' = state - 1 /\ UNCHANGED mutex
      BY <1>15, <2>1 DEF ClearWriterBit
    <2>3. Count' = Count /\ ~Bitted'
      BY <2>1, <2>2, CountAfter, MarkAfter DEF IInv
    <2>4. state' = 2 * Count' + Bit(Bitted')
      BY <1>c, <2>1, <2>2, <2>3, WordFacts DEF Bit
    <2>5. QED
      BY <2>1, <2>2, <2>4, SameMutex, StepKeeps DEF PCs
  <1>16. ASSUME NEW p \in Procs, WriteUnlockNotify(p) \/ CancelListener(p) PROVE IInv'
    BY <1>16, MoveKeeps DEF WriteUnlockNotify, CancelListener, PCs
  (* Conversions. *)
  <1>17. ASSUME NEW p \in Procs, UpgradableInc(p) PROVE IInv'
    <2>1. Goto(p, "upreading") /\ state' = state + 2 /\ UNCHANGED mutex /\ pc[p] = "u_inc"
      BY <1>17 DEF UpgradableInc
    <2>2. Count' = Count + 1 /\ ~Bitted /\ ~Bitted'
      BY <2>1, CountAfter, MarkAfter DEF IInv
    <2>3. state' = 2 * Count' + Bit(Bitted')
      BY <1>c, <2>1, <2>2, WordFacts DEF Bit
    <2>4. QED
      BY <2>1, <2>2, <2>3, SameMutex, StepKeeps DEF PCs
  <1>18. ASSUME NEW p \in Procs, Upgrade(p) PROVE IInv'
    <2>1. Goto(p, "w_new") /\ state' = state - 1 /\ UNCHANGED mutex /\ pc[p] = "upreading"
      BY <1>18 DEF Upgrade
    <2>2. Count' = Count - 1 /\ ~Bitted /\ Bitted'
      BY <2>1, CountAfter, MarkAfter DEF IInv
    <2>3. state' = 2 * Count' + Bit(Bitted')
      BY <1>c, <2>1, <2>2, WordFacts DEF Bit
    <2>4. QED
      BY <2>1, <2>2, <2>3, SameMutex, StepKeeps DEF PCs
  <1>19. ASSUME NEW p \in Procs, TryUpgrade(p) PROVE IInv'
    <2>1. /\ Goto(p, "writing") /\ state = 2 /\ state' = 1
          /\ UNCHANGED mutex /\ pc[p] = "upreading"
      BY <1>19 DEF TryUpgrade
    <2>2. Count' = Count - 1 /\ ~Bitted /\ Bitted' /\ Count' \in Nat
      BY <2>1, CountAfter, MarkAfter DEF IInv
    <2>3. Count = 1 /\ state' = 2 * Count' + Bit(Bitted')
      BY <1>c, <2>1, <2>2, WordFacts DEF Bit
    <2>4. Readers' = {}
      <3>1. IsFiniteSet(Readers) /\ p \in Readers
        BY <2>1, CountType DEF IInv, Readers
      <3>2. Readers' = Readers \ {p}
        BY <2>1 DEF Readers, Goto, IInv, TypeOK
      <3>3. IsFiniteSet(Readers \ {p}) /\ Cardinality(Readers \ {p}) = 0
        BY <2>3, <3>1, FS_RemoveElement DEF Count
      <3>4. QED
        BY <3>2, <3>3, FS_EmptySet
    <2>5. QED
      BY <2>1, <2>3, <2>4, SameMutex, StepKeeps DEF PCs
  <1>20. ASSUME NEW p \in Procs, Downgrade(p) PROVE IInv'
    <2>1. PICK l \in {"d_notify", "upreading"} : Goto(p, l)
      BY <1>20 DEF Downgrade
    <2>2. state' = state + 1 /\ UNCHANGED mutex /\ pc[p] = "writing"
      BY <1>20 DEF Downgrade
    <2>3. Count' = Count + 1 /\ Bitted /\ ~Bitted'
      BY <2>1, <2>2, CountAfter, MarkAfter DEF IInv
    <2>4. state' = 2 * Count' + Bit(Bitted')
      BY <1>c, <2>2, <2>3, WordFacts DEF Bit
    <2>5. QED
      BY <2>1, <2>2, <2>3, <2>4, SameMutex, StepKeeps DEF PCs
  <1>21. QED
    BY <1>0, <1>1, <1>2, <1>3, <1>4, <1>5, <1>6, <1>7, <1>8, <1>9, <1>10, <1>11, <1>12,
       <1>13, <1>14, <1>15, <1>16, <1>17, <1>18, <1>19, <1>20 DEF Next, Progress

\* A write guard excludes every other guard, for any number of tasks and any use
\* of the operations.
THEOREM RwLockExclusion == Spec => []Exclusion
  <1>1. IInv => Exclusion
    BY DEF IInv, Exclusion, WriterAlone, MutexWhere, OneHolder, Writing, Reserved, Marked
  <1>2. QED
    BY InitIInv, NextIInv, <1>1, PTL DEF Spec

\* The packed word always is what the guards say, and fetch_sub never underflows.
THEOREM RwLockWord == Spec => [](TypeOK /\ WordCounts)
  <1>1. IInv => TypeOK /\ WordCounts
    BY DEF IInv
  <1>2. QED
    BY InitIInv, NextIInv, <1>1, PTL DEF Spec
-----------------------------------------------------------------------------
(* The refinement. *)

Writers == {p \in Procs : Writing(p)}

\* A move that does not change what a process may do with the value is a
\* stuttering step of the abstract lock.
LEMMA MoveStutters ==
    ASSUME TypeOK, NEW p \in Procs, NEW l, Goto(p, l),
           l \in Shared <=> Reading(p), l \in {"w_done", "writing"} <=> Writing(p)
    PROVE  Readers' = Readers /\ Writers' = Writers
  BY DEF TypeOK, Goto, Readers, Writers, Reading, Writing

\* Without WRITER_BIT there is no writer; a writer is alone.
LEMMA WhoIsThere ==
    ASSUME IInv
    PROVE  /\ ~Bitted => Writers = {}
           /\ \A p \in Procs : Writing(p) => Writers = {p} /\ Readers = {}
           /\ \A p \in Procs : pc[p] \in Reserved /\ ~Writing(p) => Writers = {}
  BY DEF IInv, Bitted, Writers, Readers, WriterAlone, MutexWhere, OneHolder,
         Writing, Reserved, Marked

\* Every step of the lock is a step of the abstract lock or none at all.
LEMMA StepSimulates ==
    IInv /\ [Next]_vars => [AbstractRwLock!SharedNext]_(AbstractRwLock!sharedVars)
  <1> SUFFICES ASSUME IInv, [Next]_vars
               PROVE  AbstractRwLock!SharedNext \/ (Readers' = Readers /\ Writers' = Writers)
    BY DEF AbstractRwLock!sharedVars, Readers, Writers
  <1> USE DEF Reserved, Marked, Shared, At, WRITER_BIT, ONE_READER
  <1>t. TypeOK
    BY DEF IInv
  <1>0. CASE UNCHANGED vars
    BY <1>0 DEF Readers, Writers, Reading, Writing, vars
  <1>1. ASSUME NEW p \in Procs,
               \/ ReadStart(p) \/ ReadListen(p) \/ ReadWake(p) \/ ReadNotify(p)
               \/ ReadDone(p) \/ ReadCancel(p) \/ LastReader(p)
               \/ Request(p) \/ MutexCancel(p) \/ MutexAcquire(p) \/ TryMutex(p)
               \/ WriteListen(p) \/ WriteWake(p) \/ WriteRepoll(p) \/ WriteDone(p)
               \/ WriteUnlockNotify(p) \/ CancelListener(p)
        PROVE  Readers' = Readers /\ Writers' = Writers
    BY <1>t, <1>1, MoveStutters
       DEF ReadStart, ReadListen, ReadWake, ReadNotify, ReadDone, ReadCancel, LastReader,
           Request, MutexCancel, MutexAcquire, TryMutex, WriteListen, WriteWake,
           WriteRepoll, WriteDone, WriteUnlockNotify, CancelListener, Reading, Writing
  <1>2. ASSUME NEW p \in Procs, MutexRelease(p) PROVE Readers' = Readers /\ Writers' = Writers
    BY <1>t, <1>2, MoveStutters DEF MutexRelease, Reading, Writing
  <1>3. ASSUME NEW p \in Procs, ReadTry(p) \/ TryRead(p)
        PROVE  AbstractRwLock!BeginRead(p) \/ (Readers' = Readers /\ Writers' = Writers)
    <2>1. CASE WriterBit
      BY <1>t, <1>3, <2>1, MoveStutters DEF ReadTry, TryRead, Reading, Writing
    <2>2. CASE ~WriterBit
      <3>1. Writers = {}
        BY <2>2, WordFacts, WhoIsThere
      <3>2. p \notin Readers /\ Readers' = Readers \cup {p} /\ Writers' = Writers
        BY <1>t, <1>3, <2>2
           DEF ReadTry, TryRead, TypeOK, Goto, Readers, Writers, Reading, Writing
      <3>3. QED
        BY <3>1, <3>2 DEF AbstractRwLock!BeginRead, Readers, Writers
    <2>3. QED
      BY <2>1, <2>2
  <1>4. ASSUME NEW p \in Procs, ReadUnlock(p) \/ Upgrade(p) PROVE AbstractRwLock!EndRead(p)
    <2>1. p \in Readers /\ Readers' = Readers \ {p} /\ Writers' = Writers
      BY <1>t, <1>4
         DEF ReadUnlock, Upgrade, TypeOK, Goto, Readers, Writers, Reading, Writing
    <2>2. QED
      BY <2>1 DEF AbstractRwLock!EndRead, Readers, Writers
  <1>5. ASSUME NEW p \in Procs, SetWriterBit(p) PROVE Readers' = Readers /\ Writers' = Writers
    <2>1. state # 1
      <3>1. ~WriterBit
        BY <1>5, MarkAfter, WordFacts DEF SetWriterBit
      <3>2. QED
        BY <3>1 DEF WriterBit
    <2>2. QED
      BY <1>t, <1>5, <2>1, MoveStutters DEF SetWriterBit, Reading, Writing
  <1>6. ASSUME NEW p \in Procs, WriteCheck(p) \/ TryWrite(p)
        PROVE  AbstractRwLock!BeginWrite(p) \/ (Readers' = Readers /\ Writers' = Writers)
    <2>1. CASE \E l \in {"w_done", "writing"} : Goto(p, l)
      <3>1. Readers = {} /\ Writers = {}
        BY <1>6, <2>1, WordFacts, WhoIsThere
           DEF WriteCheck, TryWrite, Writing, Goto, IInv, TypeOK
      <3>2. Readers' = {} /\ Writers' = {p}
        BY <1>t, <2>1, <3>1 DEF TypeOK, Goto, Readers, Writers, Reading, Writing
      <3>3. QED
        BY <3>1, <3>2 DEF AbstractRwLock!BeginWrite, Readers, Writers
    <2>2. CASE ~\E l \in {"w_done", "writing"} : Goto(p, l)
      BY <1>t, <1>6, <2>2, MoveStutters DEF WriteCheck, TryWrite, Reading, Writing
    <2>3. QED
      BY <2>1, <2>2
  <1>7. ASSUME NEW p \in Procs, ClearWriterBit(p)
        PROVE  AbstractRwLock!EndWrite(p) \/ (Readers' = Readers /\ Writers' = Writers)
    <2>1. CASE pc[p] = "writing"
      <3>1. Writers = {p}
        BY <2>1, WhoIsThere DEF Writing
      <3>2. Readers' = Readers /\ Writers' = {}
        BY <1>t, <1>7, <2>1, <3>1
           DEF ClearWriterBit, TypeOK, Goto, Readers, Writers, Reading, Writing
      <3>3. QED
        BY <3>1, <3>2 DEF AbstractRwLock!EndWrite, Readers, Writers
    <2>2. CASE pc[p] # "writing"
      BY <1>t, <1>7, <2>2, MoveStutters DEF ClearWriterBit, Reading, Writing
    <2>3. QED
      BY <2>1, <2>2
  <1>8. ASSUME NEW p \in Procs, UpgradableInc(p) PROVE AbstractRwLock!BeginRead(p)
    <2>1. Writers = {}
      BY <1>8, WhoIsThere DEF UpgradableInc, Writing
    <2>2. p \notin Readers /\ Readers' = Readers \cup {p} /\ Writers' = Writers
      BY <1>t, <1>8 DEF UpgradableInc, TypeOK, Goto, Readers, Writers, Reading, Writing
    <2>3. QED
      BY <2>1, <2>2 DEF AbstractRwLock!BeginRead, Readers, Writers
  <1>9. ASSUME NEW p \in Procs, TryUpgrade(p) PROVE AbstractRwLock!Upgrade(p)
    <2>1. /\ Goto(p, "writing") /\ pc[p] = "upreading" /\ state = 2 /\ Writers = {}
      BY <1>9, WhoIsThere DEF TryUpgrade, Writing
    <2>2. Count = 1 /\ IsFiniteSet(Readers)
      BY <2>1, WordFacts, CountType DEF Bit, IInv
    <2>3. Readers = {p}
      <3>1. PICK x : Readers = {x}
        BY <2>2, FS_Singleton DEF Count
      <3>2. p \in Readers
        BY <2>1 DEF Readers, Reading
      <3>3. QED
        BY <3>1, <3>2
    <2>4. Readers' = {} /\ Writers' = {p}
      BY <1>t, <2>1, <2>3 DEF TypeOK, Goto, Readers, Writers, Reading, Writing
    <2>5. QED
      BY <2>1, <2>3, <2>4 DEF AbstractRwLock!Upgrade, Readers, Writers
  <1>10. ASSUME NEW p \in Procs, Downgrade(p) PROVE AbstractRwLock!Downgrade(p)
    <2>1. Writers = {p} /\ Readers = {}
      BY <1>10, WhoIsThere DEF Downgrade, Writing
    <2>2. Readers' = {p} /\ Writers' = {}
      BY <1>t, <1>10, <2>1 DEF Downgrade, TypeOK, Goto, Readers, Writers, Reading, Writing
    <2>3. QED
      BY <2>1, <2>2 DEF AbstractRwLock!Downgrade, Readers, Writers
  <1>11. QED
    BY <1>0, <1>1, <1>2, <1>3, <1>4, <1>5, <1>6, <1>7, <1>8, <1>9, <1>10
       DEF Next, Progress, AbstractRwLock!SharedNext

\* The lock implements the readers-writer lock its documentation describes.
THEOREM RwLockImplementsSharedLock == Spec => ImplementsSharedLock
  <1>1. Init => AbstractRwLock!SharedInit
    BY DEF Init, AbstractRwLock!SharedInit, Reading, Writing, Shared
  <1>2. QED
    BY InitIInv, NextIInv, StepSimulates, <1>1, PTL
       DEF Spec, ImplementsSharedLock, AbstractRwLock!SharedSpec
-----------------------------------------------------------------------------
(* Wake-ups. *)

\* Where a process may have a listener.
ReadListening  == {"r_try", "r_block", "r_done"}
WriteListening == {"w_check", "w_poll", "w_done", "x_notify", "x_mutex", "x_listener"}
Placed ==
    /\ EventOK(no_writer, Procs) /\ EventOK(no_readers, Procs)
    /\ \A p \in Listeners(no_writer) : pc[p] \in ReadListening
    /\ \A p \in Listeners(no_readers) : pc[p] \in WriteListening
    /\ \A p \in Procs : pc[p] = "w_poll" => p \in Listeners(no_readers)

\* A writer sleeps next to a reader, or the last reader's notification is under way; it may
\* be with a cancelled writer that has not dropped its listener yet.
WriterWakePending ==
    \A p \in Range(no_readers.waiting) : pc[p] = "w_poll" =>
        \/ Readers # {} \/ no_readers.notified # {}
        \/ \E q \in Procs : pc[q] \in {"r_last", "ux_last"}

\* A reader sleeps while WRITER_BIT is set, or a notification is under way.
Notifying == {"r_notify", "x_notify", "d_notify"}
ReaderWakePending ==
    ~Bitted /\ (\E p \in Range(no_writer.waiting) : pc[p] = "r_block") =>
        no_writer.notified # {} \/ \E q \in Procs : pc[q] \in Notifying

WakeInv == IInv /\ Placed /\ WriterWakePending /\ ReaderWakePending

LEMMA PlacedMove ==
    ASSUME IInv, Placed, NEW p \in Procs, NEW l, Goto(p, l),
           EventOK(no_writer', Procs), EventOK(no_readers', Procs),
           Listeners(no_writer') \ {p} = Listeners(no_writer) \ {p},
           Listeners(no_readers') \ {p} = Listeners(no_readers) \ {p},
           p \in Listeners(no_writer') => l \in ReadListening,
           p \in Listeners(no_readers') => l \in WriteListening,
           l = "w_poll" => p \in Listeners(no_readers')
    PROVE  Placed'
  <1>1. Listeners(no_writer') \subseteq Procs /\ Listeners(no_readers') \subseteq Procs
    BY DEF EventOK, Listeners, Range
  <1>2. QED
    BY <1>1 DEF IInv, TypeOK, Placed, Goto

\* A step that leaves the events alone.
LEMMA PlacedStay ==
    ASSUME IInv, Placed, NEW p \in Procs, NEW l, Goto(p, l), UNCHANGED events,
           p \in Listeners(no_writer) => l \in ReadListening,
           p \in Listeners(no_readers) => l \in WriteListening,
           l = "w_poll" => p \in Listeners(no_readers)
    PROVE  Placed'
  BY PlacedMove DEF Placed, events

LEMMA NextPlaced == IInv /\ Placed /\ [Next]_vars => Placed'
  <1> SUFFICES ASSUME IInv, Placed, [Next]_vars PROVE Placed'
    OBVIOUS
  <1> USE DEF ReadListening, WriteListening, At
  <1>e. EventOK(no_writer, Procs) /\ EventOK(no_readers, Procs)
    BY DEF Placed
  <1>p. \A p \in Procs : /\ p \in Listeners(no_writer) => pc[p] \in ReadListening
                         /\ p \in Listeners(no_readers) => pc[p] \in WriteListening
    BY DEF Placed
  <1>0. CASE UNCHANGED vars
    BY <1>0 DEF Placed, vars
  (* The events are left alone. *)
  <1>1. ASSUME NEW p \in Procs, ReadStart(p) \/ ReadTry(p) \/ TryRead(p) \/ ReadUnlock(p)
        PROVE  Placed'
    BY <1>1, <1>p, PlacedStay DEF ReadStart, ReadTry, TryRead, ReadUnlock
  <1>2. ASSUME NEW p \in Procs, Request(p) \/ MutexAcquire(p) \/ MutexCancel(p) \/ TryMutex(p)
        PROVE  Placed'
    BY <1>2, <1>p, PlacedStay DEF Request, MutexAcquire, MutexCancel, TryMutex
  <1>3. ASSUME NEW p \in Procs, MutexRelease(p) \/ TryWrite(p) \/ ClearWriterBit(p)
        PROVE  Placed'
    BY <1>3, <1>p, PlacedStay DEF MutexRelease, TryWrite, ClearWriterBit
  <1>4. ASSUME NEW p \in Procs, SetWriterBit(p) \/ WriteCheck(p) \/ WriteRepoll(p)
        PROVE  Placed'
    <2>1. CASE SetWriterBit(p) \/ WriteRepoll(p)
      BY <2>1, <1>p, PlacedStay DEF SetWriterBit, WriteRepoll
    <2>2. CASE WriteCheck(p)
      <3>1. p \notin Listeners(no_writer)
        BY <2>2, <1>p DEF WriteCheck
      <3>2. CASE p \in Listeners(no_readers)
        BY <2>2, <3>1, <3>2, PlacedStay DEF WriteCheck
      <3>3. CASE p \notin Listeners(no_readers)
        BY <2>2, <3>1, <3>3, PlacedStay DEF WriteCheck
      <3>4. QED
        BY <3>2, <3>3
    <2>3. QED
      BY <1>4, <2>1, <2>2
  <1>5. ASSUME NEW p \in Procs, UpgradableInc(p) \/ Upgrade(p) \/ TryUpgrade(p) \/ Downgrade(p)
        PROVE  Placed'
    BY <1>5, <1>p, PlacedStay DEF UpgradableInc, Upgrade, TryUpgrade, Downgrade
  (* The readers' event. *)
  <1>6. ASSUME NEW p \in Procs, ReadListen(p) PROVE Placed'
    <2>1. /\ EventOK(no_writer', Procs) /\ no_readers' = no_readers
          /\ Listeners(no_writer') \ {p} = Listeners(no_writer) \ {p}
      BY <1>e, <1>6, ListenAdds DEF ReadListen, Listeners
    <2>2. QED
      BY <1>e, <1>p, <1>6, <2>1, PlacedMove DEF ReadListen
  <1>7. ASSUME NEW p \in Procs, ReadWake(p) PROVE Placed'
    <2>1. /\ EventOK(no_writer', Procs) /\ p \notin Listeners(no_writer')
          /\ Listeners(no_writer') \ {p} = Listeners(no_writer) \ {p}
      BY <1>e, <1>7, ConsumeForgets DEF ReadWake, Listeners, IsNotified, EventOK
    <2>2. QED
      BY <1>e, <1>p, <1>7, <2>1, PlacedMove DEF ReadWake
  <1>8. ASSUME NEW p \in Procs, ReadNotify(p) \/ WriteUnlockNotify(p) PROVE Placed'
    <2>1. EventOK(no_writer', Procs) /\ Listeners(no_writer') = Listeners(no_writer)
      BY <1>e, <1>8, ProcsFinite, NotifyWakes DEF ReadNotify, WriteUnlockNotify, Listeners
    <2>2. QED
      BY <1>e, <1>p, <1>8, <2>1, PlacedMove DEF ReadNotify, WriteUnlockNotify
  <1>9. ASSUME NEW p \in Procs, ReadDone(p) \/ ReadCancel(p) PROVE Placed'
    <2>1. EventOK(no_writer', Procs) /\ Listeners(no_writer') = Listeners(no_writer) \ {p}
      BY <1>e, <1>9, ProcsFinite, DropPassesOn DEF ReadDone, ReadCancel
    <2>2. QED
      BY <1>e, <1>p, <1>9, <2>1, PlacedMove DEF ReadDone, ReadCancel
  (* The writers' event. *)
  <1>10. ASSUME NEW p \in Procs, LastReader(p) PROVE Placed'
    <2>1. EventOK(no_readers', Procs) /\ Listeners(no_readers') = Listeners(no_readers)
      BY <1>e, <1>10, ProcsFinite, NotifyWakes DEF LastReader, Listeners
    <2>2. QED
      BY <1>e, <1>p, <1>10, <2>1, PlacedMove DEF LastReader
  <1>11. ASSUME NEW p \in Procs, WriteListen(p) PROVE Placed'
    <2>1. p \notin Listeners(no_readers) \cup Listeners(no_writer)
      BY <1>p, <1>11 DEF WriteListen
    <2>2. /\ EventOK(no_readers', Procs)
          /\ Listeners(no_readers') \ {p} = Listeners(no_readers) \ {p}
      BY <1>e, <1>11, <2>1, ListenAdds DEF WriteListen, Listeners
    <2>3. QED
      BY <1>e, <1>11, <2>1, <2>2, PlacedMove DEF WriteListen
  <1>12. ASSUME NEW p \in Procs, WriteWake(p) PROVE Placed'
    <2>1. /\ EventOK(no_readers', Procs)
          /\ Listeners(no_readers') \ {p} = Listeners(no_readers) \ {p}
      BY <1>e, <1>12, ConsumeForgets DEF WriteWake, Listeners
    <2>2. QED
      BY <1>e, <1>p, <1>12, <2>1, PlacedMove DEF WriteWake
  <1>13. ASSUME NEW p \in Procs, WriteDone(p) \/ CancelListener(p) PROVE Placed'
    <2>1. EventOK(no_readers', Procs) /\ Listeners(no_readers') = Listeners(no_readers) \ {p}
      BY <1>e, <1>13, ProcsFinite, DropPassesOn DEF WriteDone, CancelListener
    <2>2. QED
      BY <1>e, <1>p, <1>13, <2>1, PlacedMove DEF WriteDone, CancelListener
  <1>14. QED
    BY <1>0, <1>1, <1>2, <1>3, <1>4, <1>5, <1>6, <1>7, <1>8, <1>9, <1>10, <1>11, <1>12, <1>13
       DEF Next, Progress

\* A step of a process on which no sleeping reader relies.
LEMMA ReadersQuiet ==
    ASSUME IInv, Placed, ReaderWakePending, NEW p \in Procs, NEW l, Goto(p, l),
           UNCHANGED no_writer, pc[p] \notin Notifying, l \notin Marked => pc[p] \notin Marked,
           l = "r_block" => p \notin Range(no_writer.waiting)
    PROVE  ReaderWakePending'
  <1>1. \A q \in Procs : pc'[q] = IF q = p THEN l ELSE pc[q]
    BY DEF IInv, TypeOK, Goto
  <1>2. ~Bitted' => ~Bitted
    BY <1>1 DEF Bitted
  <1>3. Range(no_writer.waiting) \subseteq Procs
    BY DEF Placed, EventOK, Range
  <1>4. QED
    BY <1>1, <1>2, <1>3 DEF ReaderWakePending

LEMMA NextReaderWakePending ==
    ASSUME "downgrade_to_upgradable" \notin Ops, WakeInv, [Next]_vars
    PROVE  ReaderWakePending'
  <1> USE DEF At, Marked, Notifying
  <1>i. /\ IInv /\ TypeOK /\ Placed /\ ReaderWakePending
        /\ EventOK(no_writer, Procs) /\ Range(no_writer.waiting) \subseteq Procs
    BY DEF WakeInv, IInv, Placed, EventOK, Range
  <1>0. CASE UNCHANGED vars
    BY <1>0, <1>i DEF vars, ReaderWakePending, Bitted
  <1>1. ASSUME NEW p \in Procs, ReadStart(p) PROVE ReaderWakePending'
    <2>1. p \notin Range(no_writer.waiting)
      BY <1>1, <1>i DEF ReadStart, Placed, ReadListening, Listeners
    <2>2. QED
      BY <1>1, <1>i, <2>1, ReadersQuiet DEF ReadStart, events
  <1>2. ASSUME NEW p \in Procs, ReadTry(p) PROVE ReaderWakePending'
    <2>1. CASE WriterBit
      <3>1. Bitted
        BY <1>i, <2>1, WordFacts
      <3>2. Bitted'
        BY <1>2, <1>i, <3>1 DEF ReadTry, Goto, Bitted, TypeOK
      <3>3. QED
        BY <3>2 DEF ReaderWakePending
    <2>2. CASE ~WriterBit
      BY <1>2, <1>i, <2>2, ReadersQuiet DEF ReadTry, events
    <2>3. QED
      BY <2>1, <2>2
  <1>3. ASSUME NEW p \in Procs, TryRead(p) \/ ReadUnlock(p) \/ LastReader(p)
        PROVE  ReaderWakePending'
    BY <1>3, <1>i, ReadersQuiet DEF TryRead, ReadUnlock, LastReader, events
  <1>4. ASSUME NEW p \in Procs,
               Request(p) \/ MutexAcquire(p) \/ MutexCancel(p) \/ TryMutex(p) \/ MutexRelease(p)
        PROVE  ReaderWakePending'
    BY <1>4, <1>i, ReadersQuiet
       DEF Request, MutexAcquire, MutexCancel, TryMutex, MutexRelease, events
  <1>5. ASSUME NEW p \in Procs,
               SetWriterBit(p) \/ WriteListen(p) \/ WriteCheck(p) \/ WriteWake(p) \/ WriteRepoll(p)
        PROVE  ReaderWakePending'
    BY <1>5, <1>i, ReadersQuiet
       DEF SetWriterBit, WriteListen, WriteCheck, WriteWake, WriteRepoll, events
  <1>6. ASSUME NEW p \in Procs,
               \/ WriteDone(p) \/ TryWrite(p) \/ CancelListener(p)
               \/ UpgradableInc(p) \/ Upgrade(p) \/ TryUpgrade(p)
        PROVE  ReaderWakePending'
    BY <1>6, <1>i, ReadersQuiet
       DEF WriteDone, TryWrite, CancelListener, UpgradableInc, Upgrade, TryUpgrade, events
  <1>7. ASSUME NEW p \in Procs, ReadWake(p) \/ ClearWriterBit(p) \/ Downgrade(p)
        PROVE  ReaderWakePending'
    <2>1. pc'[p] \in Notifying
      BY <1>7, <1>i DEF ReadWake, ClearWriterBit, Downgrade, Goto, TypeOK
    <2>2. QED
      BY <2>1 DEF ReaderWakePending
  <1>8. ASSUME NEW p \in Procs, ReadNotify(p) \/ WriteUnlockNotify(p) PROVE ReaderWakePending'
    <2>1. no_writer'.notified # {} \/ Range(no_writer'.waiting) = {}
      BY <1>8, <1>i, ProcsFinite, NotifyWakes DEF ReadNotify, WriteUnlockNotify
    <2>2. QED
      BY <2>1 DEF ReaderWakePending
  <1>9. ASSUME NEW p \in Procs, ReadListen(p) PROVE ReaderWakePending'
    <2>1. /\ Range(no_writer'.waiting) = Range(no_writer.waiting) \cup {p}
          /\ no_writer'.notified = no_writer.notified
      BY <1>9, <1>i, ListenAdds DEF ReadListen
    <2>2. \A q \in Procs : pc'[q] = IF q = p THEN "r_try" ELSE pc[q]
      BY <1>9, <1>i DEF ReadListen, Goto, TypeOK
    <2>3. (Bitted' <=> Bitted) /\ pc[p] \notin Notifying
      BY <1>9, <2>2 DEF ReadListen, Bitted
    <2>4. QED
      BY <1>i, <2>1, <2>2, <2>3 DEF ReaderWakePending
  <1>10. ASSUME NEW p \in Procs, ReadDone(p) \/ ReadCancel(p) PROVE ReaderWakePending'
    <2>1. /\ Range(no_writer'.waiting) \in SUBSET Range(no_writer.waiting)
          /\ no_writer.notified # {} => no_writer'.notified # {} \/ Range(no_writer'.waiting) = {}
      <3>1. no_writer' = DropListener(no_writer, p)
        BY <1>10 DEF ReadDone, ReadCancel
      <3>2. QED
        BY <1>i, <3>1, ProcsFinite, DropPassesOn
    <2>2. /\ \A q \in Procs : q # p => pc'[q] = pc[q]
          /\ pc'[p] \in {"reading", "idle"} /\ pc[p] \in {"r_done", "r_block"}
      BY <1>10, <1>i DEF ReadDone, ReadCancel, Goto, TypeOK
    <2>3. Bitted' <=> Bitted
      BY <2>2 DEF Bitted
    <2>4. QED
      BY <1>i, <2>1, <2>2, <2>3 DEF ReaderWakePending
  <1>11. QED
    BY <1>0, <1>1, <1>2, <1>3, <1>4, <1>5, <1>6, <1>7, <1>8, <1>9, <1>10 DEF Next, Progress

\* A step of a process on which no sleeping writer relies.
LEMMA WritersQuiet ==
    ASSUME IInv, Placed, WriterWakePending, NEW p \in Procs, NEW l, Goto(p, l),
           UNCHANGED no_readers, pc[p] \notin {"r_last", "ux_last"}, l # "w_poll",
           Reading(p) => l \in Shared
    PROVE  WriterWakePending'
  <1>1. \A q \in Procs : pc'[q] = IF q = p THEN l ELSE pc[q]
    BY DEF IInv, TypeOK, Goto
  <1>2. Readers # {} => Readers' # {}
    BY <1>1 DEF Readers, Reading
  <1>3. Range(no_readers.waiting) \subseteq Procs
    BY DEF Placed, EventOK, Range
  <1>4. QED
    BY <1>1, <1>2, <1>3 DEF WriterWakePending

\* Only the holder of the inner mutex sleeps on no_readers.
LEMMA HolderAlone ==
    ASSUME IInv, Placed', NEW p \in Procs, NEW l, Goto(p, l), pc[p] \in Reserved, l # "w_poll"
    PROVE  WriterWakePending'
  <1>1. \A q \in Procs : pc'[q] = IF q = p THEN l ELSE pc[q]
    BY DEF IInv, TypeOK, Goto
  <1>2. \A q \in Procs : pc[q] = "w_poll" => q = p
    BY DEF IInv, MutexWhere, OneHolder, Reserved, Marked
  <1>3. Range(no_readers'.waiting) \subseteq Procs
    BY DEF Placed, EventOK, Range
  <1>4. QED
    BY <1>1, <1>2, <1>3 DEF WriterWakePending

LEMMA NextWriterWakePending == WakeInv /\ [Next]_vars => WriterWakePending'
  <1> SUFFICES ASSUME WakeInv, [Next]_vars PROVE WriterWakePending'
    OBVIOUS
  <1> USE DEF At, Shared, Reserved, Marked
  <1>i. /\ IInv /\ TypeOK /\ Placed /\ WriterWakePending
        /\ EventOK(no_readers, Procs) /\ Range(no_readers.waiting) \subseteq Procs
    BY DEF WakeInv, IInv, Placed, EventOK, Range
  <1>p. Placed'
    BY <1>i, NextPlaced
  <1>0. CASE UNCHANGED vars
    BY <1>0, <1>i DEF vars, WriterWakePending, Readers, Reading
  <1>1. ASSUME NEW p \in Procs,
               \/ ReadStart(p) \/ ReadTry(p) \/ TryRead(p) \/ ReadListen(p)
               \/ ReadWake(p) \/ ReadNotify(p) \/ ReadDone(p) \/ ReadCancel(p)
        PROVE  WriterWakePending'
    BY <1>1, <1>i, WritersQuiet
       DEF ReadStart, ReadTry, TryRead, ReadListen, ReadWake, ReadNotify, ReadDone,
           ReadCancel, events, Reading
  <1>2. ASSUME NEW p \in Procs, Request(p) \/ MutexAcquire(p) \/ MutexCancel(p) \/ TryMutex(p)
        PROVE  WriterWakePending'
    BY <1>2, <1>i, WritersQuiet
       DEF Request, MutexAcquire, MutexCancel, TryMutex, events, Reading
  <1>3. ASSUME NEW p \in Procs,
               \/ MutexRelease(p) \/ SetWriterBit(p) \/ WriteListen(p) \/ WriteWake(p)
               \/ WriteRepoll(p) \/ WriteDone(p) \/ TryWrite(p) \/ ClearWriterBit(p)
        PROVE  WriterWakePending'
    BY <1>3, <1>i, <1>p, HolderAlone
       DEF MutexRelease, SetWriterBit, WriteListen, WriteWake, WriteRepoll, WriteDone,
           TryWrite, ClearWriterBit
  <1>4. ASSUME NEW p \in Procs,
               \/ WriteUnlockNotify(p) \/ UpgradableInc(p) \/ Upgrade(p)
               \/ TryUpgrade(p) \/ Downgrade(p)
        PROVE  WriterWakePending'
    BY <1>4, <1>i, <1>p, HolderAlone
       DEF WriteUnlockNotify, UpgradableInc, Upgrade, TryUpgrade, Downgrade
  <1>5. ASSUME NEW p \in Procs, WriteCheck(p) PROVE WriterWakePending'
    <2>1. CASE state = 1 \/ p \notin Listeners(no_readers)
      BY <1>5, <1>i, <1>p, <2>1, HolderAlone DEF WriteCheck, WRITER_BIT
    <2>2. CASE state # 1
      <3>1. Readers # {}
        <4>1. Bitted /\ state = 2 * Count + 1 /\ Count \in Nat
          BY <1>5, <1>i, WordFacts, CountType DEF WriteCheck, Bitted, Bit
        <4>2. Count # 0
          BY <2>2, <4>1
        <4>3. QED
          BY <4>2, FS_EmptySet DEF Count
      <3>2. Readers' = Readers
        BY <1>5, <1>i DEF WriteCheck, Goto, TypeOK, Readers, Reading
      <3>3. QED
        BY <3>1, <3>2 DEF WriterWakePending
    <2>3. QED
      BY <2>1, <2>2
  <1>6. ASSUME NEW p \in Procs, ReadUnlock(p) PROVE WriterWakePending'
    <2>1. CASE state \in {2, 3}
      <3>1. pc'[p] \in {"r_last", "ux_last"}
        BY <1>6, <1>i, <2>1 DEF ReadUnlock, Goto, TypeOK, ONE_READER, WRITER_BIT
      <3>2. QED
        BY <3>1 DEF WriterWakePending
    <2>2. CASE state \notin {2, 3}
      <3>1. Count \in Nat /\ Count # 1
        BY <1>i, <2>2, WordFacts, CountType DEF Bit
      <3>2. Count' = Count - 1
        BY <1>6, <1>i, CountAfter DEF ReadUnlock, Reading
      <3>3. Count' # 0
        BY <3>1, <3>2
      <3>4. Readers' # {}
        BY <3>3, FS_EmptySet DEF Count
      <3>5. QED
        BY <3>4 DEF WriterWakePending
    <2>3. QED
      BY <2>1, <2>2
  <1>7. ASSUME NEW p \in Procs, LastReader(p) PROVE WriterWakePending'
    <2>1. no_readers'.notified # {} \/ Range(no_readers'.waiting) = {}
      BY <1>7, <1>i, ProcsFinite, NotifyWakes DEF LastReader
    <2>2. QED
      BY <2>1 DEF WriterWakePending
  <1>8. ASSUME NEW p \in Procs, CancelListener(p) PROVE WriterWakePending'
    <2>1. /\ Range(no_readers'.waiting) \in SUBSET Range(no_readers.waiting)
          /\ no_readers.notified # {} =>
                no_readers'.notified # {} \/ Range(no_readers'.waiting) = {}
      BY <1>8, <1>i, ProcsFinite, DropPassesOn DEF CancelListener
    <2>2. /\ \A q \in Procs : q # p => pc'[q] = pc[q]
          /\ pc'[p] = "idle" /\ pc[p] = "x_listener"
      BY <1>8, <1>i DEF CancelListener, Goto, TypeOK
    <2>3. Readers' = Readers
      BY <2>2 DEF Readers, Reading
    <2>4. QED
      BY <1>i, <2>1, <2>2, <2>3 DEF WriterWakePending
  <1>9. QED
    BY <1>0, <1>1, <1>2, <1>3, <1>4, <1>5, <1>6, <1>7, <1>8 DEF Next, Progress

\* No wake-up of the lock is lost (NoLostWakeup) unless a writer calls
\* downgrade_to_upgradable(), the one conversion that gives WRITER_BIT back and does not
\* notify the readers: with it the property fails, as the run RwLock_downgrade shows.
THEOREM RwLockNoLostWakeup ==
    ASSUME "downgrade_to_upgradable" \notin Ops PROVE Spec => []NoLostWakeup
  <1>1. Init => WakeInv
    <2> SUFFICES ASSUME Init PROVE WakeInv
      OBVIOUS
    <2>1. /\ EventOK(no_writer, Procs) /\ Listeners(no_writer) = {}
          /\ EventOK(no_readers, Procs) /\ Listeners(no_readers) = {}
      BY NewEventOK DEF Init
    <2>2. Placed /\ WriterWakePending /\ ReaderWakePending
      BY <2>1 DEF Init, Placed, WriterWakePending, ReaderWakePending, Listeners
    <2>3. QED
      BY <2>2, InitIInv DEF WakeInv
  <1>2. WakeInv /\ [Next]_vars => WakeInv'
    BY NextIInv, NextPlaced, NextReaderWakePending, NextWriterWakePending DEF WakeInv
  <1>3. WakeInv => NoLostWakeup
    <2> SUFFICES ASSUME WakeInv, \A p \in Procs : pc[p] = "idle" \/ Parked(p),
                        NEW p \in Procs, Parked(p)
                 PROVE  FALSE
      BY DEF NoLostWakeup, At
    <2>1. \A q \in Procs : pc[q] \in {"idle", "r_block", "w_poll"}
      BY DEF Parked, At
    <2>2. Readers = {} /\ \A q \in Procs : pc[q] \notin {"r_last", "ux_last"} \cup Notifying
      BY <2>1 DEF Readers, Reading, Shared, Notifying
    <2>3. no_readers.notified = {}
      <3> SUFFICES ASSUME NEW x \in no_readers.notified PROVE FALSE
        OBVIOUS
      <3>1. x \in Procs /\ pc[x] \in WriteListening
        BY DEF WakeInv, Placed, EventOK, Listeners
      <3>2. QED
        BY <2>1, <3>1 DEF Parked, At, IsNotified, WriteListening
    <2>4. no_writer.notified = {}
      <3> SUFFICES ASSUME NEW x \in no_writer.notified PROVE FALSE
        OBVIOUS
      <3>1. x \in Procs /\ pc[x] \in ReadListening
        BY DEF WakeInv, Placed, EventOK, Listeners
      <3>2. QED
        BY <2>1, <3>1 DEF Parked, At, IsNotified, ReadListening
    <2>5. \A q \in Procs : pc[q] # "w_poll"
      BY <2>2, <2>3 DEF WakeInv, Placed, WriterWakePending, Listeners
    <2>6. ~Bitted
      BY <2>1, <2>5 DEF Bitted, Marked
    <2>7. p \in Range(no_writer.waiting) /\ pc[p] = "r_block"
      BY <2>4, <2>5 DEF Parked, At, Listeners
    <2>8. QED
      BY <2>2, <2>4, <2>6, <2>7 DEF WakeInv, ReaderWakePending
  <1>4. QED
    BY <1>1, <1>2, <1>3, PTL DEF Spec
=============================================================================
