-------------------------------- MODULE Lock --------------------------------
(***************************************************************************)
(* What ksync::Mutex promises to the code that uses it: a lock that at     *)
(* most one process holds.  A process asks for the lock and may give up    *)
(* while it waits (its future is dropped).  ksync::Mutex implements this   *)
(* specification (module Mutex), and ksync::RwLock relies on it for its    *)
(* inner mutex (module RwLock).                                            *)
(***************************************************************************)
CONSTANT Procs

VARIABLES holders,   \* the processes that own a MutexGuard
          waiters    \* the processes with a pending Lock future

lockVars == <<holders, waiters>>

LockInit == holders = {} /\ waiters = {}

Request(p) ==
    /\ p \notin holders \cup waiters
    /\ waiters' = waiters \cup {p}
    /\ UNCHANGED holders

Acquire(p) ==
    /\ p \in waiters
    /\ holders = {}
    /\ holders' = {p}
    /\ waiters' = waiters \ {p}

\* try_lock(): no waiting.
TryAcquire(p) ==
    /\ p \notin waiters
    /\ holders = {}
    /\ holders' = {p}
    /\ UNCHANGED waiters

Cancel(p) ==
    /\ p \in waiters
    /\ waiters' = waiters \ {p}
    /\ UNCHANGED holders

Release(p) ==
    /\ holders = {p}
    /\ holders' = {}
    /\ UNCHANGED waiters

LockNext ==
    \E p \in Procs : \/ Request(p) \/ Acquire(p) \/ TryAcquire(p)
                     \/ Cancel(p) \/ Release(p)

LockSpec == LockInit /\ [][LockNext]_lockVars
=============================================================================
