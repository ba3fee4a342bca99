------------------------------- MODULE Mutex -------------------------------
(***************************************************************************)
(* ksync::Mutex (mizu/lib/ksync/src/mutex.rs), the asynchronous mutex of   *)
(* the kernel.                                                             *)
(*                                                                         *)
(* One step is one atomic access to the `state` word or one call on the    *)
(* `lock_ops` event.  The word packs the locked bit (1) and, above it, the *)
(* number of starved lock operations (2 each), and every access to it is   *)
(* the arithmetic the code does.  `pc` says where in Lock::poll,           *)
(* AcquireSlow::poll or a drop a process is; the atomics are taken to be   *)
(* sequentially consistent.                                                *)
(***************************************************************************)
EXTENDS Integers, FiniteSets, Event

CONSTANT Procs    \* the tasks that use the mutex

ASSUME ProcsFinite == IsFiniteSet(Procs)

VARIABLES state,     \* Mutex::state
          lock_ops,  \* Mutex::lock_ops
          pc,        \* where each process is
          starved,   \* AcquireSlow::starved
          late       \* more than 500us since AcquireSlow::start

vars == <<state, lock_ops, pc, starved, late>>

\* The loop that listens and tries, the fairer loop, and the exits.
Slow    == {"listen", "cas", "wait", "recas", "renotify", "starve"}
Fair    == {"flisten", "fcas", "fnotify", "fwait", "for"}
Owning  == {"took", "drop", "held"}
PCs     == {"idle", "cancelled", "notify"} \cup Slow \cup Fair \cup Owning

Holding(p) == pc[p] \in Owning
Waiting(p) == pc[p] \in Slow \cup Fair
HasListener(p) == p \in Listeners(lock_ops)

Init ==
    /\ state = 0
    /\ lock_ops = NewEvent
    /\ pc = [p \in Procs |-> "idle"]
    /\ starved = [p \in Procs |-> FALSE]
    /\ late = [p \in Procs |-> FALSE]

Goto(p, l) == pc' = [pc EXCEPT ![p] = l]
-----------------------------------------------------------------------------
\* try_lock(), which is also the fast path of Lock::poll: a failed try_lock
\* returns to the caller, a failed fast path goes on to AcquireSlow.
TryLock(p) ==
    /\ pc[p] = "idle"
    /\ state = 0
    /\ state' = 1
    /\ Goto(p, "held")
    /\ UNCHANGED <<lock_ops, starved, late>>

LockSlow(p) ==
    /\ pc[p] = "idle"
    /\ state # 0
    /\ Goto(p, "listen")
    /\ late' = [late EXCEPT ![p] = FALSE]
    /\ UNCHANGED <<state, lock_ops, starved>>

\* The clock passes start + 500us.
Elapse(p) ==
    /\ Waiting(p) /\ ~late[p]
    /\ late' = [late EXCEPT ![p] = TRUE]
    /\ UNCHANGED <<state, lock_ops, pc, starved>>

StartListening(p) ==
    /\ pc[p] \in {"listen", "flisten"}
    /\ lock_ops' = Listen(lock_ops, p)
    /\ Goto(p, IF pc[p] = "listen" THEN "cas" ELSE "fcas")
    /\ UNCHANGED <<state, starved, late>>

\* "Try locking if nobody is being starved.", right after listen().
TryAfterListen(p) ==
    /\ pc[p] = "cas"
    /\ \/ state = 0 /\ state' = 1 /\ Goto(p, "took")
       \/ state = 1 /\ UNCHANGED state /\ Goto(p, "wait")
       \/ state \notin {0, 1} /\ UNCHANGED state /\ Goto(p, "starve")
    /\ UNCHANGED <<lock_ops, starved, late>>

\* "Wait for a notification.", in either loop.
Wake(p) ==
    /\ pc[p] \in {"wait", "fwait"}
    /\ IsNotified(lock_ops, p)
    /\ lock_ops' = Consume(lock_ops, p)
    /\ Goto(p, IF pc[p] = "wait" THEN "recas" ELSE "for")
    /\ UNCHANGED <<state, starved, late>>

TryAfterWakePatient(p) ==    \* mutant: nobody ever leaves for the fairer loop
    /\ pc[p] = "recas"
    /\ \/ state = 0 /\ state' = 1 /\ Goto(p, "took")
       \/ state # 0 /\ UNCHANGED state /\ Goto(p, "listen")
    /\ UNCHANGED <<lock_ops, starved, late>>

\* The attempt after a wake-up of the first loop: a process that waited for too
\* long leaves for the fairer loop.
TryAfterWake(p) ==
    /\ pc[p] = "recas"
    /\ \/ state = 0 /\ state' = 1 /\ Goto(p, "took")
       \/ state = 1 /\ UNCHANGED state /\ Goto(p, IF late[p] THEN "starve" ELSE "listen")
       \/ state \notin {0, 1} /\ UNCHANGED state /\ Goto(p, "renotify")
    /\ UNCHANGED <<lock_ops, starved, late>>

\* "we probably received a notification that was meant for a starved task"
Renotify(p) ==
    /\ pc[p] = "renotify"
    /\ lock_ops' = Notify(lock_ops, 1)
    /\ Goto(p, "starve")
    /\ UNCHANGED <<state, starved, late>>

\* The listener survives the change of loop.
Starve(p) ==
    /\ pc[p] = "starve"
    /\ state' = state + 2
    /\ starved' = [starved EXCEPT ![p] = TRUE]
    /\ Goto(p, IF HasListener(p) THEN "fwait" ELSE "flisten")
    /\ UNCHANGED <<lock_ops, late>>

\* "Try locking if nobody else is being starved."
FairTry(p) ==
    /\ pc[p] = "fcas"
    /\ \/ state = 2 /\ state' = 3 /\ Goto(p, "took")
       \/ state % 2 = 1 /\ UNCHANGED state /\ Goto(p, "fwait")
       \/ state % 2 = 0 /\ state # 2 /\ UNCHANGED state /\ Goto(p, "fnotify")
    /\ UNCHANGED <<lock_ops, starved, late>>

\* "Be fair: notify the first listener and then go wait in line."
FairNotify(p) ==
    /\ pc[p] = "fnotify"
    /\ lock_ops' = Notify(lock_ops, 1)
    /\ Goto(p, "fwait")
    /\ UNCHANGED <<state, starved, late>>

FairTakeBlind(p) ==    \* mutant: the old value of fetch_or is not looked at
    /\ pc[p] = "for"
    /\ state' = IF state % 2 = 0 THEN state + 1 ELSE state
    /\ Goto(p, "took")
    /\ UNCHANGED <<lock_ops, starved, late>>

\* fetch_or(1): "Try acquiring the lock without waiting for others."
FairTake(p) ==
    /\ pc[p] = "for"
    /\ state' = IF state % 2 = 0 THEN state + 1 ELSE state
    /\ Goto(p, IF state % 2 = 0 THEN "took" ELSE "flisten")
    /\ UNCHANGED <<lock_ops, starved, late>>
-----------------------------------------------------------------------------

\* take_mutex(): a starved operation leaves the starvation counter.
Unstarve(p) ==
    /\ state' = IF starved[p] THEN state - 2 ELSE state
    /\ starved' = [starved EXCEPT ![p] = FALSE]

TakeMutex(p) ==
    /\ pc[p] = "took"
    /\ Unstarve(p)
    /\ Goto(p, "drop")
    /\ UNCHANGED <<lock_ops, late>>

\* The completed future is dropped, and with it a listener it still has.
DropFuture(p) ==
    /\ pc[p] = "drop"
    /\ lock_ops' = DropListener(lock_ops, p)
    /\ Goto(p, "held")
    /\ UNCHANGED <<state, starved, late>>

CancelStarved(p) ==    \* mutant: the dropped operation stays counted
    /\ pc[p] \in {"wait", "fwait"}
    /\ starved' = [starved EXCEPT ![p] = FALSE]
    /\ Goto(p, "cancelled")
    /\ UNCHANGED <<state, lock_ops, late>>

\* A pending Lock future is dropped: AcquireSlow::drop, then its listener.
Cancel(p) ==
    /\ pc[p] \in {"wait", "fwait"}
    /\ Unstarve(p)
    /\ Goto(p, "cancelled")
    /\ UNCHANGED <<lock_ops, late>>

CancelListener(p) ==
    /\ pc[p] = "cancelled"
    /\ lock_ops' = DropListener(lock_ops, p)
    /\ Goto(p, "idle")
    /\ UNCHANGED <<state, starved, late>>

\* MutexGuard::drop: fetch_sub(1), then notify(1).
Unlock(p) ==
    /\ pc[p] = "held"
    /\ state' = state - 1
    /\ Goto(p, "notify")
    /\ UNCHANGED <<lock_ops, starved, late>>

UnlockNotifyLate(p) ==    \* mutant: only notifies when somebody is starved
    /\ pc[p] = "notify"
    /\ lock_ops' = IF state > 1 THEN Notify(lock_ops, 1) ELSE lock_ops
    /\ Goto(p, "idle")
    /\ UNCHANGED <<state, starved, late>>

UnlockNotify(p) ==
    /\ pc[p] = "notify"
    /\ lock_ops' = Notify(lock_ops, 1)
    /\ Goto(p, "idle")
    /\ UNCHANGED <<state, starved, late>>
-----------------------------------------------------------------------------
\* What a process does once it has started an operation: the executor polls
\* a woken task again, and a holder drops its guard.
Progress(p) ==
    \/ StartListening(p) \/ TryAfterListen(p) \/ Wake(p) \/ TryAfterWake(p)
    \/ Renotify(p) \/ Starve(p) \/ FairTry(p) \/ FairNotify(p) \/ FairTake(p)
    \/ TakeMutex(p) \/ DropFuture(p) \/ CancelListener(p)
    \/ Unlock(p) \/ UnlockNotify(p)

Next == \E p \in Procs : TryLock(p) \/ LockSlow(p) \/ Elapse(p) \/ Progress(p) \/ Cancel(p)

Spec == Init /\ [][Next]_vars

\* Polls happen, guards are dropped and time passes; nobody has to start or to
\* give up an operation.
FairSpec == Spec /\ \A p \in Procs : WF_vars(Progress(p)) /\ WF_vars(Elapse(p))
-----------------------------------------------------------------------------
TypeOK ==
    /\ state \in Nat
    /\ pc \in [Procs -> PCs]
    /\ starved \in [Procs -> BOOLEAN]
    /\ late \in [Procs -> BOOLEAN]

\* The value behind the mutex is handed out as &mut T: no two guards coexist,
\* whichever of the four ways of taking the locked bit each of them used.
MutualExclusion == \A p, q \in Procs : Holding(p) /\ Holding(q) => p = q

\* The two halves of the word never run into each other: bit 0 says whether a
\* guard exists, the rest counts exactly the operations that called themselves
\* starved and did not take that back (take_mutex, also on cancellation).
WordCounts ==
    state = (IF \E p \in Procs : Holding(p) THEN 1 ELSE 0)
            + 2 * Cardinality({p \in Procs : starved[p]})

\* No lost wake-up: when the lock is free and every task is either idle or
\* parked without a notification, nobody is parked.
Parked(p) == pc[p] \in {"wait", "fwait"} /\ ~IsNotified(lock_ops, p)
NoLostWakeup ==
    (\A p \in Procs : pc[p] = "idle" \/ Parked(p)) => \A p \in Procs : ~Parked(p)

\* The starvation counter closes the fast path: as long as an operation waits
\* and is not cancelled, the lock keeps being handed out by the slow path, where
\* the waiters are; a stream of try_lock()s cannot keep it for itself.
SlowPathServed ==
    \A p \in Procs : <>[]Waiting(p) => []<>(\E q \in Procs : pc[q] = "took")

\* The mutex is a lock: see module Lock.
AbstractLock == INSTANCE Lock WITH
    holders <- {p \in Procs : Holding(p)},
    waiters <- {p \in Procs : Waiting(p)}
ImplementsLock == AbstractLock!LockSpec
=============================================================================
