--------------------------------- MODULE Vfs ---------------------------------
(***************************************************************************)
(* The mount table of the kernel (mizu/kernel/src/fs.rs): mount(),         *)
(* unmount(), sync() and get(), and the task that mount() spawns to flush  *)
(* the file system every second and a last time when it is unmounted.      *)
(*                                                                         *)
(* A path is a sequence of names, ordered as Path::cmp orders components.  *)
(* The channel between a handle and its task holds one message; it is      *)
(* closed when the last Sender is gone, and sync() holds clones of all the *)
(* Senders while it runs.                                                  *)
(***************************************************************************)
EXTENDS Naturals, Sequences, FiniteSets

CONSTANTS Paths,     \* the paths used, as sequences of numbers
          Systems,   \* file systems; each is mounted at most once
          Callers,   \* tasks that call sync()
          Nothing

VARIABLES FS,        \* path -> the file system of its FsHandle, or Nothing
          flushq,    \* file system -> messages in its channel
          cloned,    \* caller -> the handles its sync() holds
          ftask,     \* file system -> where its task is
          dirty,     \* file systems with changes that are not on the disk
          owed       \* of these, the ones changed before their last Sender went

vfvars == <<FS, flushq, cloned, ftask, dirty, owed>>

Init ==
    /\ FS = [p \in Paths |-> Nothing]
    /\ flushq = [s \in Systems |-> 0]
    /\ cloned = [c \in Callers |-> {}]
    /\ ftask = [s \in Systems |-> "none"]
    /\ dirty = {} /\ owed = {}

Mounted == {FS[p] : p \in Paths} \ {Nothing}

\* The file systems that have a Sender, given the table and the clones.
Held(table, clones) ==
    ({table[p] : p \in Paths} \ {Nothing}) \cup UNION {clones[c] : c \in Callers}

\* try_send() into a channel of one place.
Sent(q, s) == [q EXCEPT ![s] = 1]

Goto(s, l) == ftask' = [ftask EXCEPT ![s] = l]

\* mount(): spawn the task and replace the handle of the path.
Mount(p, s) ==
    /\ ftask[s] = "none" /\ Goto(s, "sleep")
    /\ FS' = [FS EXCEPT ![p] = s]
    /\ flushq' = IF FS[p] = Nothing THEN flushq ELSE Sent(flushq, FS[p])
    /\ UNCHANGED <<cloned, dirty, owed>>

\* unmount()
Unmount(p) ==
    /\ FS[p] # Nothing
    /\ FS' = [FS EXCEPT ![p] = Nothing] /\ flushq' = Sent(flushq, FS[p])
    /\ UNCHANGED <<cloned, ftask, dirty, owed>>

\* sync(): clone the table, then tell every task.
Sync(c) ==
    /\ cloned[c] = {} /\ Mounted # {} /\ cloned' = [cloned EXCEPT ![c] = Mounted]
    /\ UNCHANGED <<FS, flushq, ftask, dirty, owed>>

SyncEnd(c) ==
    /\ cloned[c] # {} /\ cloned' = [cloned EXCEPT ![c] = {}]
    /\ flushq' = [s \in Systems |-> IF s \in cloned[c] THEN 1 ELSE flushq[s]]
    /\ UNCHANGED <<FS, ftask, dirty, owed>>

\* Somebody changes the file system through an entry (an entry outlives the mount).
Write(s) ==
    /\ ftask[s] # "none" /\ dirty' = dirty \cup {s}
    /\ owed' = IF s \in Held(FS, cloned) THEN owed \cup {s} ELSE owed
    /\ UNCHANGED <<FS, flushq, cloned, ftask>>

\* sleep() is over; try_recv() takes the message, or says that the channel is empty or
\* that it is closed.
TryRecv(s) ==
    /\ ftask[s] = "sleep"
    /\ Goto(s, IF flushq[s] = 0 /\ s \notin Held(FS, cloned) THEN "last" ELSE "flush")
    /\ flushq' = [flushq EXCEPT ![s] = 0]
    /\ UNCHANGED <<FS, cloned, dirty, owed>>

\* flush() (its result is dropped; here it succeeds).
Flush(s) ==
    /\ ftask[s] \in {"flush", "last"}
    /\ Goto(s, IF ftask[s] = "last" THEN "over" ELSE "sleep")
    /\ dirty' = dirty \ {s} /\ owed' = owed \ {s}
    /\ UNCHANGED <<FS, flushq, cloned>>

Next ==
    \/ \E p \in Paths : Unmount(p) \/ \E s \in Systems : Mount(p, s)
    \/ \E c \in Callers : Sync(c) \/ SyncEnd(c)
    \/ \E s \in Systems : Write(s) \/ TryRecv(s) \/ Flush(s)

\* sync() runs to its end; timers expire and a flush comes to its end.
Spec ==
    /\ Init /\ [][Next]_vfvars
    /\ \A c \in Callers : WF_vfvars(SyncEnd(c))
    /\ \A s \in Systems : WF_vfvars(TryRecv(s) \/ Flush(s))
-----------------------------------------------------------------------------
IsPrefixOf(p, q) == Len(p) <= Len(q) /\ SubSeq(q, 1, Len(p)) = p

\* Path::cmp: lexicographic, a prefix before what it is a prefix of.
Less(p, q) ==
    \/ IsPrefixOf(p, q) /\ p # q
    \/ \E i \in 1 .. Len(p) :
          i <= Len(q) /\ SubSeq(p, 1, i - 1) = SubSeq(q, 1, i - 1) /\ p[i] < q[i]

\* The first mount point that the reversed iterator of the BTreeMap meets.
FirstMatch(M) == CHOOSE p \in M : \A q \in M \ {p} : Less(q, p)

\* get(): the mount point that serves a path and the rest of the path.
Get(path) ==
    LET M == {p \in Paths : FS[p] # Nothing /\ IsPrefixOf(p, path)}
    IN  IF M = {} THEN Nothing ELSE FirstMatch(M)

\* "Reverse the iterator for longest-prefix matching.": whatever is mounted, a path is
\* served by the longest mount point that is a prefix of it.
LongestPrefix ==
    \A path \in Paths :
        \A p \in Paths :
            FS[p] # Nothing /\ IsPrefixOf(p, path) =>
                Get(path) # Nothing /\ Len(p) <= Len(Get(path))

\* When the flush task of a file system is over, everything written while it could
\* still be told to flush is on the disk.
FlushedAtEnd == \A s \in Systems : ftask[s] = "over" => s \notin owed

\* The task of a file system that is no longer mounted ends.
UnmountEnds == \A s \in Systems : []<>(ftask[s] \in {"none", "over"} \/ s \in Mounted)
=============================================================================
