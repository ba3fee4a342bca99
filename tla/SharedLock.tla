----------------------------- MODULE SharedLock -----------------------------
(***************************************************************************)
(* What ksync::RwLock promises: "multiple readers or one writer at any     *)
(* point in time" (rw_lock.rs:21), with guards that can be turned into one *)
(* another without letting a writer in between.                            *)
(***************************************************************************)
CONSTANT Procs

VARIABLES readers,   \* the processes that own a read or upgradable read guard
          writers    \* the processes that own a write guard

sharedVars == <<readers, writers>>

SharedInit == readers = {} /\ writers = {}

BeginRead(p) ==
    /\ p \notin readers
    /\ writers = {}
    /\ readers' = readers \cup {p}
    /\ UNCHANGED writers

EndRead(p) ==
    /\ p \in readers
    /\ readers' = readers \ {p}
    /\ UNCHANGED writers

BeginWrite(p) ==
    /\ readers = {} /\ writers = {}
    /\ writers' = {p}
    /\ UNCHANGED readers

EndWrite(p) ==
    /\ writers = {p}
    /\ writers' = {}
    /\ UNCHANGED readers

\* try_upgrade: the last reader becomes the writer in one step.
Upgrade(p) ==
    /\ readers = {p} /\ writers = {}
    /\ readers' = {}
    /\ writers' = {p}

\* downgrade: the writer becomes a reader in one step.
Downgrade(p) ==
    /\ writers = {p}
    /\ writers' = {}
    /\ readers' = {p}

SharedNext ==
    \E p \in Procs : \/ BeginRead(p) \/ EndRead(p) \/ BeginWrite(p)
                     \/ EndWrite(p) \/ Upgrade(p) \/ Downgrade(p)

SharedSpec == SharedInit /\ [][SharedNext]_sharedVars
=============================================================================
