------------------------------- MODULE RwLock -------------------------------
(***************************************************************************)
(* ksync::RwLock (mizu/lib/ksync/src/rw_lock.rs).                          *)
(*                                                                         *)
(* The `state` word packs WRITER_BIT (1) and the number of readers         *)
(* (ONE_READER = 2 each).  The inner mutex is the lock of module Lock,     *)
(* which ksync::Mutex implements (module Mutex).  One step is one atomic   *)
(* access to the word, one call on an event or one step of the inner       *)
(* mutex.  A load followed by a compare_exchange loop that only retries is *)
(* one step: the exchange that succeeds or sees the writer bit.            *)
(***************************************************************************)
EXTENDS Integers, FiniteSets, Event

CONSTANTS Procs,   \* the tasks that use the lock
          Ops      \* the operations they call

ASSUME ProcsFinite == IsFiniteSet(Procs)

AllOps == {"read", "try_read", "upgradable_read", "try_upgradable_read",
           "write", "try_write", "upgrade", "try_upgrade", "downgrade",
           "downgrade_reader", "downgrade_to_upgradable", "cancel"}

ASSUME OpsAssumption == Ops \subseteq AllOps

WRITER_BIT == 1
ONE_READER == 2

VARIABLES state,       \* RwLock::state
          no_readers,  \* RwLock::no_readers
          no_writer,   \* RwLock::no_writer
          holders,     \* who holds RwLock::mutex
          waiters,     \* who waits for RwLock::mutex
          pc           \* where each process is

vars == <<state, no_readers, no_writer, holders, waiters, pc>>
events == <<no_readers, no_writer>>
mutex == <<holders, waiters>>

M == INSTANCE Lock

WriterBit == state % 2 = WRITER_BIT

\* A write lock that is held or wanted: WRITER_BIT belongs to this process.
Marked   == {"w_new", "w_listen", "w_check", "w_poll", "w_done", "writing"}
Reserved == Marked \cup {"w_bit", "x_notify", "x_mutex", "u_inc", "upreading",
                         "ux_last", "ux_mutex", "tw", "tw_fail", "d_notify", "d_mutex"}
Shared   == {"r_done", "reading", "upreading", "d_notify", "d_mutex"}
PCs == Reserved \cup Shared \cup
       {"idle", "r_try", "r_block", "r_notify", "r_last",
        "w_lock", "u_lock", "x_listener"}

Reading(p) == pc[p] \in Shared
Writing(p) == pc[p] \in {"w_done", "writing"}

Init ==
    /\ state = 0
    /\ no_readers = NewEvent /\ no_writer = NewEvent
    /\ M!LockInit
    /\ pc = [p \in Procs |-> "idle"]

At(p, l) == pc[p] = l
Goto(p, l) == pc' = [pc EXCEPT ![p] = l]
-----------------------------------------------------------------------------
(* Read locks. *)

\* RwLock::read() loads the state; the future is polled afterwards.
ReadStart(p) ==
    /\ At(p, "idle") /\ "read" \in Ops
    /\ Goto(p, IF WriterBit THEN "r_block" ELSE "r_try")
    /\ UNCHANGED <<state, events, mutex>>

ReadTryBlind(p) ==    \* mutant: the exchange does not look at WRITER_BIT
    /\ At(p, "r_try")
    /\ Goto(p, "r_done") /\ state' = state + ONE_READER
    /\ UNCHANGED <<events, mutex>>

\* The branch of Read::poll without WRITER_BIT: one more reader, unless the
\* exchange finds that a writer came.
ReadTry(p) ==
    /\ At(p, "r_try")
    /\ IF WriterBit
       THEN Goto(p, "r_block") /\ UNCHANGED state
       ELSE Goto(p, "r_done") /\ state' = state + ONE_READER
    /\ UNCHANGED <<events, mutex>>

\* The branch with WRITER_BIT: register a listener, or wait for the one there is
\* and then "notify the next reader waiting in list".
ReadListen(p) ==
    /\ At(p, "r_block") /\ p \notin Listeners(no_writer)
    /\ no_writer' = Listen(no_writer, p)
    /\ Goto(p, "r_try")
    /\ UNCHANGED <<state, no_readers, mutex>>

ReadWake(p) ==
    /\ At(p, "r_block") /\ IsNotified(no_writer, p)
    /\ no_writer' = Consume(no_writer, p)
    /\ Goto(p, "r_notify")
    /\ UNCHANGED <<state, no_readers, mutex>>

ReadNotify(p) ==
    /\ At(p, "r_notify")
    /\ no_writer' = Notify(no_writer, 1)
    /\ Goto(p, "r_try")
    /\ UNCHANGED <<state, no_readers, mutex>>

\* The completed future is dropped with the listener it may still have.
ReadDone(p) ==
    /\ At(p, "r_done")
    /\ no_writer' = DropListener(no_writer, p)
    /\ Goto(p, "reading")
    /\ UNCHANGED <<state, no_readers, mutex>>

ReadCancel(p) ==
    /\ At(p, "r_block") /\ p \in Listeners(no_writer) /\ "cancel" \in Ops
    /\ no_writer' = DropListener(no_writer, p)
    /\ Goto(p, "idle")
    /\ UNCHANGED <<state, no_readers, mutex>>

\* try_read() that succeeds; one that fails changes nothing.
TryRead(p) ==
    /\ At(p, "idle") /\ "try_read" \in Ops
    /\ ~WriterBit
    /\ state' = state + ONE_READER
    /\ Goto(p, "reading")
    /\ UNCHANGED <<events, mutex>>

\* RwLockReadGuard::drop: the last reader triggers no_readers.  The guard inside
\* an upgradable guard is dropped first, the reserved mutex after it.
ReadUnlock(p) ==
    /\ state' = state - ONE_READER
    /\ LET last == state \in {ONE_READER, ONE_READER + WRITER_BIT}
       IN  \/ At(p, "reading") /\ Goto(p, IF last THEN "r_last" ELSE "idle")
           \/ At(p, "upreading") /\ Goto(p, IF last THEN "ux_last" ELSE "ux_mutex")
    /\ UNCHANGED <<events, mutex>>

LastReader(p) ==
    /\ At(p, "r_last") \/ At(p, "ux_last")
    /\ no_readers' = Notify(no_readers, 1)
    /\ Goto(p, IF At(p, "r_last") THEN "idle" ELSE "ux_mutex")
    /\ UNCHANGED <<state, no_writer, mutex>>
-----------------------------------------------------------------------------
(* The inner mutex, taken by writers and upgradable readers. *)

\* write() and upgradable_read() create the future of the inner mutex.
Request(p) ==
    /\ At(p, "idle")
    /\ \/ "write" \in Ops /\ Goto(p, "w_lock")
       \/ "upgradable_read" \in Ops /\ Goto(p, "u_lock")
    /\ M!Request(p)
    /\ UNCHANGED <<state, events>>

MutexAcquire(p) ==
    /\ At(p, "w_lock") \/ At(p, "u_lock")
    /\ M!Acquire(p)
    /\ Goto(p, IF At(p, "w_lock") THEN "w_bit" ELSE "u_inc")
    /\ UNCHANGED <<state, events>>

MutexCancel(p) ==
    /\ At(p, "w_lock") \/ At(p, "u_lock")
    /\ "cancel" \in Ops
    /\ M!Cancel(p)
    /\ Goto(p, "idle")
    /\ UNCHANGED <<state, events>>

\* try_write() and try_upgradable_read() return at once if the mutex is taken.
TryMutex(p) ==
    /\ At(p, "idle")
    /\ M!TryAcquire(p)
    /\ \/ "try_write" \in Ops /\ Goto(p, "tw")
       \/ "try_upgradable_read" \in Ops /\ Goto(p, "u_inc")
    /\ UNCHANGED <<state, events>>

\* The MutexGuard `reserved` is dropped: at the end of a write or upgradable
\* guard, after a failed try_write, and when a guard becomes a plain read guard.
MutexRelease(p) ==
    /\ \/ At(p, "x_mutex") /\ Goto(p, "x_listener")
       \/ At(p, "ux_mutex") /\ Goto(p, "idle")
       \/ At(p, "tw_fail") /\ Goto(p, "idle")
       \/ At(p, "d_mutex") /\ Goto(p, "reading")
       \/ At(p, "upreading") /\ "downgrade_reader" \in Ops /\ Goto(p, "reading")
    /\ M!Release(p)
    /\ UNCHANGED <<state, events>>
-----------------------------------------------------------------------------
(* Write locks. *)

\* fetch_or(WRITER_BIT); new_state is the value before.
SetWriterBit(p) ==
    /\ At(p, "w_bit")
    /\ state' = IF WriterBit THEN state ELSE state + WRITER_BIT
    /\ Goto(p, IF state = WRITER_BIT THEN "writing" ELSE "w_listen")
    /\ UNCHANGED <<events, mutex>>

WriteListen(p) ==
    /\ At(p, "w_listen")
    /\ no_readers' = Listen(no_readers, p)
    /\ Goto(p, "w_check")
    /\ UNCHANGED <<state, no_writer, mutex>>

\* The loop of WaitingReaders, which Upgrade::poll repeats.
WriteCheck(p) ==
    /\ At(p, "w_new") \/ At(p, "w_check")
    /\ Goto(p, IF state = WRITER_BIT THEN "w_done"
               ELSE IF p \in Listeners(no_readers) THEN "w_poll" ELSE "w_listen")
    /\ UNCHANGED <<state, events, mutex>>

WriteWake(p) ==
    /\ At(p, "w_poll") /\ IsNotified(no_readers, p)
    /\ no_readers' = Consume(no_readers, p)
    /\ Goto(p, "w_check")
    /\ UNCHANGED <<state, no_writer, mutex>>

\* A future that returned Pending is polled again from the top of the loop.
WriteRepoll(p) ==
    /\ At(p, "w_poll")
    /\ Goto(p, "w_check")
    /\ UNCHANGED <<state, events, mutex>>

WriteDone(p) ==
    /\ At(p, "w_done")
    /\ no_readers' = DropListener(no_readers, p)
    /\ Goto(p, "writing")
    /\ UNCHANGED <<state, no_writer, mutex>>

TryWrite(p) ==
    /\ At(p, "tw")
    /\ state' = IF state = 0 THEN WRITER_BIT ELSE state
    /\ Goto(p, IF state = 0 THEN "writing" ELSE "tw_fail")
    /\ UNCHANGED <<events, mutex>>

ClearWriterBitHeld(p) ==    \* mutant: a cancelled writer leaves its bit behind
    /\ At(p, "writing") \/ (pc[p] \in {"w_new", "w_poll"} /\ "cancel" \in Ops)
    /\ state' = IF At(p, "writing") THEN state - WRITER_BIT ELSE state
    /\ Goto(p, "x_notify")
    /\ UNCHANGED <<events, mutex>>

\* RwLockWriteGuardInner::drop, for a guard that is released or for the one in a
\* Write or Upgrade future that is cancelled: an Upgrade before its first poll, or
\* either of them while it waits for the readers.
ClearWriterBit(p) ==
    /\ At(p, "writing") \/ (pc[p] \in {"w_new", "w_poll"} /\ "cancel" \in Ops)
    /\ state' = IF WriterBit THEN state - WRITER_BIT ELSE state
    /\ Goto(p, "x_notify")
    /\ UNCHANGED <<events, mutex>>

WriteUnlockNotify(p) ==
    /\ At(p, "x_notify") \/ At(p, "d_notify")
    /\ no_writer' = Notify(no_writer, 1)
    /\ Goto(p, IF At(p, "x_notify") THEN "x_mutex" ELSE "d_mutex")
    /\ UNCHANGED <<state, no_readers, mutex>>

\* A cancelled future drops its listener after its guard.
CancelListener(p) ==
    /\ At(p, "x_listener")
    /\ no_readers' = DropListener(no_readers, p)
    /\ Goto(p, "idle")
    /\ UNCHANGED <<state, no_writer, mutex>>
-----------------------------------------------------------------------------
(* Guards that turn into one another. *)

\* The compare_exchange loop of upgradable_read: the mutex keeps writers away.
UpgradableInc(p) ==
    /\ At(p, "u_inc")
    /\ state' = state + ONE_READER
    /\ Goto(p, "upreading")
    /\ UNCHANGED <<events, mutex>>

\* fetch_sub(ONE_READER - WRITER_BIT); the Upgrade future that it returns need
\* never be polled.
Upgrade(p) ==
    /\ At(p, "upreading") /\ "upgrade" \in Ops
    /\ state' = state - (ONE_READER - WRITER_BIT)
    /\ Goto(p, "w_new")
    /\ UNCHANGED <<events, mutex>>

TryUpgradeAny(p) ==    \* mutant: try_upgrade succeeds beside other readers
    /\ At(p, "upreading") /\ "try_upgrade" \in Ops
    /\ state' = state - (ONE_READER - WRITER_BIT)
    /\ Goto(p, "writing")
    /\ UNCHANGED <<events, mutex>>

\* try_upgrade() that succeeds; one that fails changes nothing.
TryUpgrade(p) ==
    /\ At(p, "upreading") /\ "try_upgrade" \in Ops
    /\ state = ONE_READER
    /\ state' = WRITER_BIT
    /\ Goto(p, "writing")
    /\ UNCHANGED <<events, mutex>>

\* RwLockWriteGuard::downgrade and downgrade_to_upgradable.
Downgrade(p) ==
    /\ At(p, "writing")
    /\ state' = state + (ONE_READER - WRITER_BIT)
    /\ \/ "downgrade" \in Ops /\ Goto(p, "d_notify")
       \/ "downgrade_to_upgradable" \in Ops /\ Goto(p, "upreading")
    /\ UNCHANGED <<events, mutex>>
-----------------------------------------------------------------------------
\* What a process does once it has started an operation.
Progress(p) ==
    \/ ReadTry(p) \/ ReadListen(p) \/ ReadWake(p) \/ ReadNotify(p) \/ ReadDone(p)
    \/ ReadUnlock(p) \/ LastReader(p) \/ MutexAcquire(p) \/ MutexRelease(p)
    \/ SetWriterBit(p) \/ WriteListen(p) \/ WriteCheck(p) \/ WriteWake(p)
    \/ WriteDone(p) \/ TryWrite(p) \/ WriteUnlockNotify(p) \/ CancelListener(p)
    \/ UpgradableInc(p) \/ (At(p, "writing") /\ ClearWriterBit(p))

Next ==
    \E p \in Procs :
        \/ ReadStart(p) \/ TryRead(p) \/ Request(p) \/ TryMutex(p)
        \/ ReadCancel(p) \/ MutexCancel(p) \/ ClearWriterBit(p) \/ WriteRepoll(p)
        \/ Upgrade(p) \/ TryUpgrade(p) \/ Downgrade(p)
        \/ Progress(p)

Spec == Init /\ [][Next]_vars

\* Woken tasks are polled and guards are dropped.
FairSpec == Spec /\ \A p \in Procs : WF_vars(Progress(p))
-----------------------------------------------------------------------------
TypeOK ==
    /\ state \in Nat
    /\ pc \in [Procs -> PCs]
    /\ holders \subseteq Procs
    /\ waiters \subseteq Procs

\* "multiple readers or one writer at any point in time": a write guard excludes
\* every other guard, whatever conversions and cancellations led to it.
Exclusion ==
    \A p, q \in Procs : Writing(p) /\ p # q => ~Reading(q) /\ ~Writing(q)

\* The word says who is there: WRITER_BIT is set exactly while one process owns
\* or awaits the write lock, and the rest counts the read guards.  fetch_sub and
\* fetch_add on the packed word never borrow from the other half.
WordCounts ==
    state = ONE_READER * Cardinality({p \in Procs : Reading(p)})
            + (IF \E p \in Procs : pc[p] \in Marked THEN WRITER_BIT ELSE 0)

\* Nobody sleeps next to a free lock: if every task is idle or parked without a
\* notification and the inner mutex is free, nobody is parked.
Parked(p) ==
    \/ At(p, "r_block") /\ p \in Listeners(no_writer) /\ ~IsNotified(no_writer, p)
    \/ At(p, "w_poll") /\ ~IsNotified(no_readers, p)
NoLostWakeup ==
    (\A p \in Procs : At(p, "idle") \/ Parked(p)) => \A p \in Procs : ~Parked(p)

\* "writers are never starved": once WRITER_BIT is set the readers drain and the
\* writer, or upgrader, gets its guard unless it is cancelled.
WriterServed ==
    \A p \in Procs : []<>(pc[p] \notin {"w_new", "w_listen", "w_check", "w_poll"})

\* The lock behaves like module SharedLock.
AbstractRwLock == INSTANCE SharedLock WITH
    readers <- {p \in Procs : Reading(p)},
    writers <- {p \in Procs : Writing(p)}
ImplementsSharedLock == AbstractRwLock!SharedSpec
=============================================================================
