-------------------------------- MODULE Files --------------------------------
(***************************************************************************)
(* The file descriptor tables (mizu/kernel/src/task/fd.rs) and the system  *)
(* calls that change them (fd/syscall.rs, openat in fd/syscall/fs.rs).     *)
(* Tasks share a table (CLONE_FILES) or have one each.  An open file is an *)
(* Arc: descriptors and the calls under way hold it.  All of them are      *)
(* sockets here, the files for which the last close() has something to do. *)
(***************************************************************************)
EXTENDS Naturals, Sequences, FiniteSets, FiniteSetTheorems, TLAPS

CONSTANTS Tasks, Root,    \* the first task
          Tables,
          Entries,        \* open files
          MaxFd,          \* bound: descriptors 0..MaxFd
          Limit,          \* LIMIT_DEFAULT
          Fresh,          \* bound: dup3() takes a number that is not open while `reuse` is
                          \* shorter than this; 0 if tasks duplicate onto open ones only
          None

VARIABLES table,        \* Files.fds of each task; None before it is cloned and after its end
          map,          \* Fds.map
          ids,          \* Fds.id_alloc: [reuse, next]
          wlock,        \* the task inside a call that keeps map locked
          dpc, dop,     \* the call of each task: what it holds and what is left to do
          closed        \* the sockets that were closed

fdvars == <<table, map, ids, wlock, dpc, dop, closed>>

Fds == 0..MaxFd
\* A call: the file it holds, the flag it sets, the descriptor it is about, files to come.
Call(e, x, fd, more) == [e |-> e, x |-> x, fd |-> fd, more |-> more]
NoOp == Call(None, FALSE, 0, <<>>)
Fi(e, x) == [e |-> e, x |-> x]

Init ==
    /\ LET T == CHOOSE T \in Tables : TRUE
           e == CHOOSE e \in Entries : TRUE
       IN  /\ table = [t \in Tasks |-> IF t = Root THEN T ELSE None]
           /\ map = [S \in Tables |-> [fd \in Fds |-> IF S = T /\ fd = 0 THEN Fi(e, FALSE) ELSE None]]
    /\ ids = [S \in Tables |-> [reuse |-> <<>>, next |-> 1]]
    /\ wlock = [S \in Tables |-> None]
    /\ dpc = [t \in Tasks |-> "idle"] /\ dop = [t \in Tasks |-> NoOp]
    /\ closed = {}

Open(T) == {fd \in Fds : map[T][fd] # None}

\* Arc::strong_count() of an open file.
Later(t) == {dop[t].more[i] : i \in DOMAIN dop[t].more}
Refs(e) ==
    Cardinality({d \in Tables \X Fds : d[2] \in Open(d[1]) /\ map[d[1]][d[2]].e = e})
      + Cardinality({t \in Tasks : e \in {dop[t].e} \cup Later(t)})

Goto(t, l, o) == dpc' = [dpc EXCEPT ![t] = l] /\ dop' = [dop EXCEPT ![t] = o]
Idle(t) == dpc[t] = "idle" /\ table[t] # None
Access(t) == wlock[table[t]] = None
Set(T, fd, fi) == map' = [map EXCEPT ![T][fd] = fi]

\* IdAlloc
Alloc(a) == IF a.reuse = <<>> THEN a.next ELSE a.reuse[Len(a.reuse)]
Alloced(a) ==
    IF a.reuse = <<>> THEN [a EXCEPT !.next = @ + 1]
    ELSE [a EXCEPT !.reuse = SubSeq(@, 1, Len(@) - 1)]
Dealloc(T, fd) == ids' = [ids EXCEPT ![T].reuse = Append(@, fd)]
-----------------------------------------------------------------------------
\* A new file: nobody has it yet, or it is a socket nobody has any more and that was not
\* closed (its number is used again).
Unused == {e \in Entries : Refs(e) = 0 /\ e \notin closed}

\* openat(): the entry is opened first, then it gets its descriptor.
OpenAt(t, e, x) ==
    /\ Idle(t) /\ e \in Unused
    /\ Goto(t, "insert", Call(e, x, 0, <<>>))
    /\ UNCHANGED <<table, map, ids, wlock, closed>>

\* pipe_inner(): two descriptors, one after the other.
PipeInner(t, e, f) ==
    /\ Idle(t) /\ e # f /\ {e, f} \subseteq Unused
    /\ Goto(t, "insert", Call(e, FALSE, 0, <<f>>))
    /\ UNCHANGED <<table, map, ids, wlock, closed>>

\* Files::dup(): get_fi(), then open().
Dup(t, fd, x) ==
    /\ Idle(t) /\ Access(t) /\ fd \in Open(table[t])
    /\ Goto(t, "insert", Call(map[table[t]][fd].e, x, 0, <<>>))
    /\ UNCHANGED <<table, map, ids, wlock, closed>>

\* dup3(): get_fi(), then reopen().
Dup3(t, old, new, x) ==
    /\ Idle(t) /\ Access(t) /\ old \in Open(table[t])
    /\ Goto(t, "reopen", Call(map[table[t]][old].e, x, new, <<>>))
    /\ UNCHANGED <<table, map, ids, wlock, closed>>

\* Any other call on a descriptor: it holds the file until it ends.
Get(t, fd) ==
    /\ Idle(t) /\ Access(t) /\ fd \in Open(table[t])
    /\ Goto(t, "use", Call(map[table[t]][fd].e, FALSE, 0, <<>>))
    /\ UNCHANGED <<table, map, ids, wlock, closed>>

UseEnd(t) ==
    /\ dpc[t] = "use"
    /\ Goto(t, "idle", NoOp)
    /\ UNCHANGED <<table, map, ids, wlock, closed>>

\* Files::open(): EMFILE at the limit, and the call gives up (pipe() keeps its first).
\* What insert_unique_unchecked() does with a number that is open is not followed:
\* IdsUnique says when there is none.
Insert(t) ==
    LET T == table[t]
        fd == Alloc(ids[T])
        more == dop[t].more
    IN  /\ dpc[t] = "insert" /\ Access(t)
        /\ IF Cardinality(Open(T)) >= Limit
           THEN Goto(t, "idle", NoOp) /\ UNCHANGED <<map, ids>>
           ELSE /\ fd \in Fds \ Open(T)
                /\ Set(T, fd, Fi(dop[t].e, dop[t].x)) /\ ids' = [ids EXCEPT ![T] = Alloced(@)]
                /\ IF more = <<>> THEN Goto(t, "idle", NoOp)
                   ELSE Goto(t, "insert", Call(more[1], FALSE, 0, <<>>))
        /\ UNCHANGED <<table, wlock, closed>>

\* Files::reopen(): id_alloc is not told.  An old file is flushed under the lock, and
\* dropped at the end of the `if let`.
Reopen(t) ==
    LET T == table[t]
        old == map[T][dop[t].fd]
    IN  /\ dpc[t] = "reopen" /\ Access(t) /\ (old # None \/ Len(ids[T].reuse) < Fresh)
        /\ Set(T, dop[t].fd, Fi(dop[t].e, dop[t].x))
        /\ IF old = None
           THEN Goto(t, "idle", NoOp) /\ UNCHANGED wlock
           ELSE /\ Goto(t, "drop", Call(old.e, FALSE, 0, <<>>))
                /\ wlock' = [wlock EXCEPT ![T] = t]
        /\ UNCHANGED <<table, ids, closed>>

\* Files::set_fi().
SetFi(t, fd, x) ==
    /\ Idle(t) /\ Access(t) /\ fd \in Open(table[t])
    /\ Set(table[t], fd, [map[table[t]][fd] EXCEPT !.x = x])
    /\ UNCHANGED <<table, ids, wlock, dpc, dop, closed>>

\* fcntl(): DUPFD and DUPFD_CLOEXEC, SETFD and SETFL, GETFD and GETFL.
Fcntl(t, fd, x) == Dup(t, fd, x) \/ SetFi(t, fd, x) \/ Get(t, fd)
-----------------------------------------------------------------------------

\* Files::close(): the table stays locked to the end of the match.
Close(t, fd) ==
    /\ Idle(t) /\ Access(t) /\ fd \in Open(table[t])
    /\ Set(table[t], fd, None) /\ Dealloc(table[t], fd)
    /\ wlock' = [wlock EXCEPT ![table[t]] = t]
    /\ Goto(t, "unwrap", Call(map[table[t]][fd].e, FALSE, 0, <<>>))
    /\ UNCHANGED <<table, closed>>

\* execve(): Files::close_on_exec().
Exec(t) ==
    /\ Idle(t) /\ Access(t) /\ wlock' = [wlock EXCEPT ![table[t]] = t]
    /\ Goto(t, "exec", NoOp)
    /\ UNCHANGED <<table, map, ids, closed>>

ExecNext(t, fd) ==
    /\ dpc[t] = "exec" /\ fd \in Open(table[t]) /\ map[table[t]][fd].x
    /\ Set(table[t], fd, None) /\ Dealloc(table[t], fd)
    /\ Goto(t, "unwrap", Call(map[table[t]][fd].e, TRUE, 0, <<>>))
    /\ UNCHANGED <<table, wlock, closed>>

ExecEnd(t) ==
    /\ dpc[t] = "exec" /\ \A fd \in Open(table[t]) : ~map[table[t]][fd].x
    /\ wlock' = [wlock EXCEPT ![table[t]] = None] /\ Goto(t, "idle", NoOp)
    /\ UNCHANGED <<table, map, ids, closed>>

\* Arc::try_unwrap() gives the socket to close() if it is the last one.
Unwrap(t) ==
    /\ dpc[t] = "unwrap" /\ Goto(t, "drop", dop[t])
    /\ closed' = IF Refs(dop[t].e) = 1 THEN closed \cup {dop[t].e} ELSE closed
    /\ UNCHANGED <<table, map, ids, wlock>>

\* The end of the match: close() and reopen() unlock, close_on_exec() goes on.
DropEntry(t) ==
    /\ dpc[t] = "drop"
    /\ IF dop[t].x
       THEN Goto(t, "exec", NoOp) /\ UNCHANGED wlock
       ELSE Goto(t, "idle", NoOp) /\ wlock' = [wlock EXCEPT ![table[t]] = None]
    /\ UNCHANGED <<table, map, ids, closed>>
-----------------------------------------------------------------------------
FreeTables == {T \in Tables : \A t \in Tasks : table[t] # T}

DeepForkLate(t, c, T) ==    \* mutant: the map is cloned, and the numbers start again
    /\ Idle(t) /\ Access(t) /\ table[c] = None /\ T \in FreeTables
    /\ table' = [table EXCEPT ![c] = T] /\ map' = [map EXCEPT ![T] = map[table[t]]]
    /\ ids' = [ids EXCEPT ![T] = [reuse |-> <<>>, next |-> 1]]
    /\ UNCHANGED <<wlock, dpc, dop, closed>>

\* Files::deep_fork(): a copy, made while the map is locked for reading.
DeepFork(t, c, T) ==
    /\ Idle(t) /\ Access(t) /\ table[c] = None /\ T \in FreeTables
    /\ table' = [table EXCEPT ![c] = T] /\ map' = [map EXCEPT ![T] = map[table[t]]]
    /\ ids' = [ids EXCEPT ![T] = ids[table[t]]]
    /\ UNCHANGED <<wlock, dpc, dop, closed>>

Share(t, c) ==
    /\ Idle(t) /\ table[c] = None /\ table' = [table EXCEPT ![c] = table[t]]
    /\ UNCHANGED <<map, ids, wlock, dpc, dop, closed>>

\* The last task of a table drops its files without closing them.
Exit(t) ==
    /\ Idle(t) /\ table' = [table EXCEPT ![t] = None]
    /\ IF \E s \in Tasks \ {t} : table[s] = table[t]
       THEN UNCHANGED <<map, ids>>
       ELSE /\ map' = [map EXCEPT ![table[t]] = [fd \in Fds |-> None]]
            /\ ids' = [ids EXCEPT ![table[t]] = [reuse |-> <<>>, next |-> 1]]
    /\ UNCHANGED <<wlock, dpc, dop, closed>>

Next ==
    \E t \in Tasks :
        \/ \E e \in Entries, x \in BOOLEAN : OpenAt(t, e, x)
        \/ \E e, f \in Entries : PipeInner(t, e, f)
        \/ \E fd \in Fds, x \in BOOLEAN : Fcntl(t, fd, x)
        \/ \E fd, new \in Fds, x \in BOOLEAN : Dup3(t, fd, new, x)
        \/ \E fd \in Fds : Close(t, fd) \/ ExecNext(t, fd)
        \/ UseEnd(t) \/ Insert(t) \/ Reopen(t)
        \/ Exec(t) \/ ExecEnd(t) \/ Unwrap(t) \/ DropEntry(t) \/ Exit(t)
        \/ \E c \in Tasks : Share(t, c) \/ \E T \in Tables : DeepFork(t, c, T)

Spec == Init /\ [][Next]_fdvars
-----------------------------------------------------------------------------
Free(T) ==
    {ids[T].reuse[i] : i \in DOMAIN ids[T].reuse} \cup {fd \in Fds : fd >= ids[T].next}

\* open() inserts without looking (insert_unique_unchecked()): no number IdAlloc may
\* give out is open, and none is waiting twice in `reuse`, whichever of the tasks that
\* share the table closed, duplicated, forked or executed in between.
IdsUnique ==
    \A t \in Tasks : table[t] # None =>
        LET T == table[t] IN
        /\ Free(T) \cap Open(T) = {}
        /\ \A i, j \in DOMAIN ids[T].reuse : ids[T].reuse[i] = ids[T].reuse[j] => i = j

\* A socket is closed by the last one who has it: while a descriptor of some table or a
\* call under way still has it, it stays usable.
NoEarlyClose ==
    \A e \in closed :
        /\ \A T \in Tables, fd \in Fds : fd \in Open(T) => map[T][fd].e # e
        /\ \A t \in Tasks : dop[t].e = e => dpc[t] = "drop"
-----------------------------------------------------------------------------
(* PROOFS, for any number of tasks, tables, files and descriptors. *)

FileInfos == [e : Entries, x : BOOLEAN]
Points == {"idle", "insert", "reopen", "use", "exec", "unwrap", "drop"}
Calls == [e : Entries \cup {None}, x : BOOLEAN, fd : Fds, more : Seq(Entries)]
Numbers == [reuse : Seq(Fds), next : Nat]

Sizes ==
    /\ MaxFd \in Nat /\ Fresh \in Nat /\ IsFiniteSet(Tasks) /\ IsFiniteSet(Tables)
    /\ Tables # {} /\ Entries # {}
    /\ None \notin Tables /\ None \notin Entries /\ None \notin FileInfos

\* The types; and a task inside a call has a table, and a file unless it is in the loop of
\* close_on_exec(); only pipe() has a second one.
FilesOK ==
    /\ table \in [Tasks -> Tables \cup {None}]
    /\ map \in [Tables -> [Fds -> FileInfos \cup {None}]]
    /\ ids \in [Tables -> Numbers]
    /\ dpc \in [Tasks -> Points] /\ dop \in [Tasks -> Calls]
    /\ closed \subseteq Entries
    /\ \A t \in Tasks :
          /\ dpc[t] # "idle" => table[t] # None
          /\ dpc[t] \in {"insert", "reopen", "use", "unwrap", "drop"} => dop[t].e \in Entries
          /\ dpc[t] # "insert" => dop[t].more = <<>>

\* A map m and an allocator a agree: what is open was given out, and what is in `reuse`
\* was too, is not open and is there once.
Agree(m, a) ==
    /\ \A fd \in Fds : m[fd] # None => fd < a.next
    /\ \A i \in DOMAIN a.reuse : a.reuse[i] < a.next /\ m[a.reuse[i]] = None
    /\ \A i, j \in DOMAIN a.reuse : a.reuse[i] = a.reuse[j] => i = j

\* They do unless dup3() takes numbers by itself.
TableOK(m, a) == Fresh = 0 => Agree(m, a)

NumbersOK == \A T \in Tables : TableOK(map[T], ids[T])

\* Nobody has a closed file but the call that closed it, and no call is going to insert it.
Unheld(e) ==
    /\ \A T \in Tables, fd \in Fds : map[T][fd] # None => map[T][fd].e # e
    /\ \A t \in Tasks : (dop[t].e = e => dpc[t] = "drop") /\ e \notin Later(t)

ClosedOK == \A e \in closed : Unheld(e)

DescriptorInv == FilesOK /\ NumbersOK /\ ClosedOK

\* open() takes a number that is not open and gives it away.
LEMMA TakeNumber ==
    ASSUME MaxFd \in Nat, None \notin FileInfos,
           NEW m \in [Fds -> FileInfos \cup {None}], NEW a \in Numbers, Agree(m, a),
           Alloc(a) \in Fds, NEW fi \in FileInfos
    PROVE  /\ Alloced(a) \in Numbers
           /\ Agree([m EXCEPT ![Alloc(a)] = fi], Alloced(a))
  <1> DEFINE r == a.reuse
             n == a.next
             w == [m EXCEPT ![Alloc(a)] = fi]
  <1>1. r \in Seq(Fds) /\ n \in Nat /\ Len(r) \in Nat /\ DOMAIN r = 1 .. Len(r)
    BY DEF Numbers
  <1>2. CASE r = <<>>
    <2>1. Alloc(a) = n /\ Alloced(a) = [reuse |-> <<>>, next |-> n + 1]
      BY <1>2 DEF Alloc, Alloced, Numbers
    <2>2. \A fd \in Fds : w[fd] # None => fd < n + 1
      <3>1. \A fd \in Fds : fd # n => w[fd] = m[fd]
        BY <2>1
      <3>2. \A fd \in Fds : m[fd] # None => fd < n
        BY DEF Agree
      <3>3. n < n + 1 /\ \A fd \in Fds : fd < n => fd < n + 1
        BY <1>1 DEF Fds
      <3> HIDE DEF w, n
      <3>4. QED
        BY <3>1, <3>2, <3>3
    <2>3. QED
      BY <1>1, <2>1, <2>2 DEF Agree, Numbers
  <1>3. CASE r # <<>>
    <2> DEFINE l == Len(r)
               s == SubSeq(r, 1, l - 1)
    <2>1. l \in Nat /\ l >= 1
      BY <1>1, <1>3
    <2>2. Alloc(a) = r[l] /\ Alloced(a) = [reuse |-> s, next |-> n]
      BY <1>3 DEF Alloc, Alloced, Numbers
    <2>3. s \in Seq(Fds) /\ DOMAIN s = 1 .. l - 1 /\ \A i \in 1 .. l - 1 : s[i] = r[i]
      BY <1>1, <2>1
    <2>4. \A fd \in Fds : w[fd] # None => fd < n
      BY <1>1, <2>1, <2>2 DEF Agree
    <2>5. \A i \in 1 .. l - 1 : i \in 1 .. l /\ r[i] \in Fds /\ r[i] # r[l]
      BY <1>1, <2>1 DEF Agree
    <2>6. \A i \in 1 .. l - 1 : s[i] < n /\ w[s[i]] = None
      BY <1>1, <2>2, <2>3, <2>5 DEF Agree
    <2>7. \A i, j \in 1 .. l - 1 : s[i] = s[j] => i = j
      BY <1>1, <2>3, <2>5 DEF Agree
    <2> DEFINE b == [reuse |-> s, next |-> n]
    <2> HIDE DEF l, s, w, r, n
    <2>8. b.reuse = s /\ b.next = n /\ b \in Numbers
      BY <1>1, <2>3 DEF Numbers
    <2> HIDE DEF b
    <2>9. Agree(w, b)
      BY ONLY <2>3, <2>4, <2>6, <2>7, <2>8 DEF Agree
    <2>10. QED
      BY <2>2, <2>8, <2>9 DEF w, b
  <1>4. QED
    BY <1>2, <1>3

\* Giving out a number and taking one back, whatever the map says.
LEMMA NumberTypes ==
    ASSUME NEW a \in Numbers, NEW fd \in Fds
    PROVE  Alloced(a) \in Numbers /\ [a EXCEPT !.reuse = Append(@, fd)] \in Numbers
  <1> DEFINE r == a.reuse
             n == a.next
  <1>1. r \in Seq(Fds) /\ n \in Nat /\ Len(r) \in Nat /\ a = [reuse |-> r, next |-> n]
    BY DEF Numbers
  <1>2. r # <<>> => SubSeq(r, 1, Len(r) - 1) \in Seq(Fds)
    BY <1>1
  <1>3. Append(r, fd) \in Seq(Fds) /\ n + 1 \in Nat
    BY <1>1
  <1>4. QED
    BY <1>1, <1>2, <1>3 DEF Alloced, Numbers

\* close() and close_on_exec() give an open number back.
LEMMA ReturnNumber ==
    ASSUME MaxFd \in Nat,
           NEW m \in [Fds -> FileInfos \cup {None}], NEW a \in Numbers, Agree(m, a),
           NEW fd \in Fds, m[fd] # None
    PROVE  /\ [a EXCEPT !.reuse = Append(@, fd)] \in Numbers
           /\ Agree([m EXCEPT ![fd] = None], [a EXCEPT !.reuse = Append(@, fd)])
  <1> DEFINE r == a.reuse
             n == a.next
             l == Len(r)
             s == Append(r, fd)
             w == [m EXCEPT ![fd] = None]
  <1>1. r \in Seq(Fds) /\ n \in Nat /\ l \in Nat /\ DOMAIN r = 1 .. l
    BY DEF Numbers
  <1>2. [a EXCEPT !.reuse = Append(@, fd)] = [reuse |-> s, next |-> n]
    <2>1. a = [reuse |-> r, next |-> n]
      BY DEF Numbers
    <2> HIDE DEF r, n, s
    <2>2. [a EXCEPT !.reuse = s] = [reuse |-> s, next |-> n]
      BY <2>1
    <2>3. QED
      BY <2>2 DEF s, r
  <1>3. /\ s \in Seq(Fds) /\ DOMAIN s = 1 .. l + 1 /\ s[l + 1] = fd
        /\ \A i \in 1 .. l : s[i] = r[i]
    BY <1>1
  <1>4. \A i \in 1 .. l : r[i] \in Fds /\ r[i] # fd /\ r[i] < n /\ m[r[i]] = None
    BY <1>1 DEF Agree
  <1>5. fd < n /\ \A g \in Fds : w[g] # None => g < n
    BY <1>1 DEF Agree
  <1>6. \A i, j \in 1 .. l : r[i] = r[j] => i = j
    BY <1>1 DEF Agree
  <1>7. \A i \in 1 .. l + 1 : i \in 1 .. l \/ i = l + 1
    BY <1>1
  <1>8. \A i \in 1 .. l + 1 : s[i] < n /\ w[s[i]] = None
    BY <1>3, <1>4, <1>5, <1>7
  <1>9. \A i, j \in 1 .. l + 1 : s[i] = s[j] => i = j
    BY <1>3, <1>4, <1>6, <1>7
  <1> DEFINE b == [reuse |-> s, next |-> n]
  <1> HIDE DEF s, w, r, n, l
  <1>10. b.reuse = s /\ b.next = n /\ b \in Numbers
    BY <1>1, <1>3 DEF Numbers
  <1> HIDE DEF b
  <1>11. Agree(w, b)
    BY ONLY <1>3, <1>5, <1>8, <1>9, <1>10 DEF Agree
  <1>12. QED
    BY <1>2, <1>10, <1>11 DEF w, b

\* dup3() and set_fi() change what an open number stands for.
LEMMA KeepNumber ==
    ASSUME NEW m \in [Fds -> FileInfos \cup {None}], NEW a \in Numbers, Agree(m, a),
           NEW fd \in Fds, m[fd] # None, NEW fi \in FileInfos
    PROVE  Agree([m EXCEPT ![fd] = fi], a)
  BY DEF Agree, Numbers

\* An empty table.
LEMMA NewTable ==
    ASSUME MaxFd \in Nat, None \notin FileInfos
    PROVE  LET m == [fd \in Fds |-> None]
               a == [reuse |-> <<>>, next |-> 1]
           IN  m \in [Fds -> FileInfos \cup {None}] /\ a \in Numbers /\ TableOK(m, a)
  BY DEF TableOK, Agree, Numbers

\* When Arc::try_unwrap() succeeds nobody else has the file.
LEMMA LastOne ==
    ASSUME Sizes, FilesOK, NEW t \in Tasks, dpc[t] = "unwrap", Refs(dop[t].e) = 1
    PROVE  /\ \A T \in Tables, fd \in Fds : map[T][fd] # None => map[T][fd].e # dop[t].e
           /\ \A s \in Tasks : dop[t].e \in {dop[s].e} \cup Later(s) => s = t
  <1> DEFINE e == dop[t].e
             A == {d \in Tables \X Fds : d[2] \in Open(d[1]) /\ map[d[1]][d[2]].e = e}
             B == {s \in Tasks : e \in {dop[s].e} \cup Later(s)}
  <1>1. IsFiniteSet(Fds)
    BY FS_Interval DEF Fds, Sizes
  <1>2. IsFiniteSet(Tables \X Fds)
    BY <1>1, FS_Product DEF Sizes
  <1>3. A \subseteq Tables \X Fds /\ B \subseteq Tasks /\ t \in B
    OBVIOUS
  <1>4. IsFiniteSet(A) /\ IsFiniteSet(B)
    BY <1>2, <1>3, FS_Subset DEF Sizes
  <1>5. Cardinality(A) + Cardinality(B) = 1
    BY DEF Refs
  <1> HIDE DEF A, B
  <1>6. Cardinality(A) \in Nat /\ Cardinality(B) \in Nat /\ Cardinality(B) # 0
    BY <1>3, <1>4, FS_CardinalityType, FS_EmptySet
  <1>7. Cardinality(A) = 0 /\ Cardinality(B) = 1
    BY <1>5, <1>6
  <1>8. A = {}
    BY <1>4, <1>7, FS_EmptySet
  <1>9. PICK u : B = {u}
    BY <1>4, <1>7, FS_Singleton
  <1>10. \A s \in Tasks : e \in {dop[s].e} \cup Later(s) => s = t
    BY <1>3, <1>9 DEF B
  <1>11. \A T \in Tables, fd \in Fds : map[T][fd] # None => map[T][fd].e # e
    <2> SUFFICES ASSUME NEW T \in Tables, NEW fd \in Fds, map[T][fd] # None, map[T][fd].e = e PROVE FALSE
      OBVIOUS
    <2>1. <<T, fd>> \in A
      BY DEF A, Open
    <2>2. QED
      BY <1>8, <2>1
  <1>12. QED
    BY <1>10, <1>11

\* The tables of a state, and a call in it.
TablesOK ==
    /\ map \in [Tables -> [Fds -> FileInfos \cup {None}]] /\ ids \in [Tables -> Numbers]
    /\ NumbersOK
    /\ \A T \in Tables, fd \in Fds : map[T][fd] # None => map[T][fd].e \notin closed

CallOK(l, o) ==
    /\ l \in Points /\ o \in Calls
    /\ l \in {"insert", "reopen", "use", "unwrap", "drop"} => o.e \in Entries
    /\ l # "insert" => o.more = <<>>
    /\ o.e \in closed => l = "drop"
    /\ \A i \in DOMAIN o.more : o.more[i] \notin closed

LEMMA InvParts ==
    ASSUME DescriptorInv
    PROVE  TablesOK /\ \A t \in Tasks : CallOK(dpc[t], dop[t])
  BY DEF DescriptorInv, FilesOK, TablesOK, CallOK, ClosedOK, Unheld, Later

\* What is open is a file that is not closed.
LEMMA OpenFile ==
    ASSUME DescriptorInv, NEW T \in Tables, NEW fd \in Open(T)
    PROVE  /\ fd \in Fds /\ map[T][fd] # None /\ map[T][fd] \in FileInfos
           /\ map[T][fd].e \in Entries /\ map[T][fd].e \notin closed
  BY InvParts DEF TablesOK, Open, FileInfos

\* A step of a call.
LEMMA CallStep ==
    ASSUME DescriptorInv, NEW t \in Tasks, NEW l, NEW o, CallOK(l, o), Goto(t, l, o),
           table[t] # None, table' = table, closed' = closed, TablesOK'
    PROVE  DescriptorInv'
  <1>1. dpc' = [dpc EXCEPT ![t] = l] /\ dop' = [dop EXCEPT ![t] = o]
    BY DEF Goto
  <1>2. dpc \in [Tasks -> Points] /\ dop \in [Tasks -> Calls] /\ l \in Points /\ o \in Calls
    BY DEF DescriptorInv, FilesOK, CallOK
  <1>3. /\ dpc' \in [Tasks -> Points] /\ dop' \in [Tasks -> Calls] /\ dpc'[t] = l /\ dop'[t] = o
        /\ \A s \in Tasks \ {t} : dpc'[s] = dpc[s] /\ dop'[s] = dop[s]
    BY <1>1, <1>2
  <1>4. \A s \in Tasks : CallOK(dpc[s], dop[s])
    BY InvParts
  <1>5. \A s \in Tasks : CallOK(dpc[s], dop[s])'
    BY <1>3, <1>4 DEF CallOK
  <1>6. FilesOK'
    BY <1>3, <1>5 DEF DescriptorInv, FilesOK, TablesOK, CallOK
  <1>7. ClosedOK'
    BY <1>5 DEF TablesOK, CallOK, ClosedOK, Unheld, Later
  <1>8. QED
    BY <1>6, <1>7 DEF DescriptorInv, TablesOK

\* A step outside of calls.
LEMMA OtherStep ==
    ASSUME DescriptorInv, dpc' = dpc, dop' = dop, closed' = closed, TablesOK',
           table' \in [Tasks -> Tables \cup {None}],
           \A t \in Tasks : dpc[t] # "idle" => table'[t] # None
    PROVE  DescriptorInv'
  <1>1. FilesOK'
    BY DEF DescriptorInv, FilesOK, TablesOK
  <1>2. \A t \in Tasks : CallOK(dpc[t], dop[t])
    BY InvParts
  <1>3. ClosedOK'
    BY <1>2 DEF TablesOK, CallOK, ClosedOK, Unheld, Later
  <1>4. QED
    BY <1>1, <1>3 DEF DescriptorInv, TablesOK

\* A change of one table.
LEMMA TableStep ==
    ASSUME DescriptorInv, NEW T \in Tables,
           NEW m \in [Fds -> FileInfos \cup {None}], NEW a \in Numbers, TableOK(m, a),
           \A fd \in Fds : m[fd] # None => m[fd].e \notin closed,
           map' = [map EXCEPT ![T] = m], ids' = [ids EXCEPT ![T] = a], closed' = closed
    PROVE  TablesOK'
  <1>1. TablesOK
    BY InvParts
  <1>2. /\ map' \in [Tables -> [Fds -> FileInfos \cup {None}]] /\ ids' \in [Tables -> Numbers]
        /\ map'[T] = m /\ ids'[T] = a
        /\ \A S \in Tables \ {T} : map'[S] = map[S] /\ ids'[S] = ids[S]
    BY <1>1 DEF TablesOK
  <1>3. NumbersOK'
    <2>1. \A S \in Tables : TableOK(map'[S], ids'[S])
      BY <1>1, <1>2 DEF TablesOK, NumbersOK
    <2>2. QED
      BY <2>1 DEF NumbersOK, TableOK, Agree
  <1>4. \A S \in Tables, fd \in Fds : map'[S][fd] # None => map'[S][fd].e \notin closed'
    BY <1>1, <1>2 DEF TablesOK
  <1>5. QED
    BY <1>2, <1>3, <1>4 DEF TablesOK

LEMMA SameTables ==
    ASSUME DescriptorInv, map' = map, ids' = ids, closed' = closed
    PROVE  TablesOK'
  BY InvParts DEF TablesOK, NumbersOK, TableOK, Agree

LEMMA FileCall ==
    ASSUME NEW l \in Points, NEW e \in Entries, e \notin closed, NEW x \in BOOLEAN,
           NEW fd \in Fds, NEW more \in Seq(Entries),
           \A i \in DOMAIN more : more[i] \notin closed, l # "insert" => more = <<>>
    PROVE  CallOK(l, Call(e, x, fd, more))
  BY DEF CallOK, Calls, Call

LEMMA NoFileCall ==
    ASSUME Sizes, closed \subseteq Entries, NEW l \in {"idle", "exec"}
    PROVE  CallOK(l, NoOp)
  BY DEF CallOK, Calls, Call, NoOp, Sizes, Points, Fds

\* The steps that change nothing but the call of a task.
LEMMA StartSteps ==
    ASSUME Sizes, DescriptorInv, NEW t \in Tasks,
           \/ \E e \in Entries, x \in BOOLEAN : OpenAt(t, e, x)
           \/ \E e, f \in Entries : PipeInner(t, e, f)
           \/ \E fd \in Fds, x \in BOOLEAN : Dup(t, fd, x)
           \/ \E fd \in Fds : Get(t, fd)
           \/ \E fd, new \in Fds, x \in BOOLEAN : Dup3(t, fd, new, x)
    PROVE  DescriptorInv'
  <1>1. 0 \in Fds /\ <<>> \in Seq(Entries) /\ table[t] \in Tables \cup {None}
    BY DEF Sizes, Fds, DescriptorInv, FilesOK
  <1>2. CASE \E e \in Entries, x \in BOOLEAN : OpenAt(t, e, x)
    <2>1. PICK e \in Entries, x \in BOOLEAN : OpenAt(t, e, x)
      BY <1>2
    <2>2. e \notin closed
      BY <2>1 DEF OpenAt, Unused
    <2>3. CallOK("insert", Call(e, x, 0, <<>>))
      <3>1. \A i \in DOMAIN <<>> : <<>>[i] \notin closed
        OBVIOUS
      <3>2. "insert" \in Points
        BY DEF Points
      <3>3. QED
        BY <1>1, <2>2, <3>1, <3>2, FileCall
    <2>4. Goto(t, "insert", Call(e, x, 0, <<>>))
      BY <2>1 DEF OpenAt
    <2>5. table' = table /\ closed' = closed /\ map' = map /\ ids' = ids /\ table[t] # None
      BY <2>1 DEF OpenAt, Idle
    <2>6. QED
      BY <2>3, <2>4, <2>5, CallStep, SameTables
  <1>3. CASE \E e, f \in Entries : PipeInner(t, e, f)
    <2>1. PICK e \in Entries, f \in Entries : PipeInner(t, e, f)
      BY <1>3
    <2>2. e \notin closed /\ f \notin closed
      BY <2>1 DEF PipeInner, Unused
    <2>3. CallOK("insert", Call(e, FALSE, 0, <<f>>))
      <3>1. <<f>> \in Seq(Entries) /\ \A i \in DOMAIN <<f>> : <<f>>[i] \notin closed
        BY <2>2
      <3>2. QED
        BY <1>1, <2>2, <3>1, FileCall DEF Points
    <2>4. Goto(t, "insert", Call(e, FALSE, 0, <<f>>))
      BY <2>1 DEF PipeInner
    <2>5. table' = table /\ closed' = closed /\ map' = map /\ ids' = ids /\ table[t] # None
      BY <2>1 DEF PipeInner, Idle
    <2>6. QED
      BY <2>3, <2>4, <2>5, CallStep, SameTables
  <1>4. ASSUME NEW fd \in Fds, NEW new \in Fds, NEW x \in BOOLEAN, NEW l \in Points,
               NEW o, o = Call(map[table[t]][fd].e, x, new, <<>>),
               Idle(t), fd \in Open(table[t]), Goto(t, l, o),
               UNCHANGED <<table, map, ids, wlock, closed>>
        PROVE  DescriptorInv'
    <2>1. table[t] \in Tables /\ table[t] # None
      BY <1>1, <1>4 DEF Idle
    <2>2. map[table[t]][fd].e \in Entries /\ map[table[t]][fd].e \notin closed
      BY <1>4, <2>1, OpenFile
    <2>3. CallOK(l, o)
      <3>1. \A i \in DOMAIN <<>> : <<>>[i] \notin closed
        OBVIOUS
      <3>2. QED
        BY <1>1, <1>4, <2>2, <3>1, FileCall
    <2>4. QED
      BY <1>4, <2>1, <2>3, CallStep, SameTables
  <1>5. CASE \E fd \in Fds, x \in BOOLEAN : Dup(t, fd, x)
    <2>1. PICK fd \in Fds, x \in BOOLEAN : Dup(t, fd, x)
      BY <1>5
    <2>2. Goto(t, "insert", Call(map[table[t]][fd].e, x, 0, <<>>))
      BY <2>1 DEF Dup
    <2>3. QED
      BY <1>1, <1>4, <2>1, <2>2 DEF Dup, Points
  <1>6. CASE \E fd \in Fds : Get(t, fd)
    BY <1>1, <1>4, <1>6 DEF Get, Points
  <1>7. CASE \E fd, new \in Fds, x \in BOOLEAN : Dup3(t, fd, new, x)
    <2>1. PICK fd \in Fds, new \in Fds, x \in BOOLEAN : Dup3(t, fd, new, x)
      BY <1>7
    <2>2. Goto(t, "reopen", Call(map[table[t]][fd].e, x, new, <<>>))
      BY <2>1 DEF Dup3
    <2>3. QED
      BY <1>1, <1>4, <2>1, <2>2 DEF Dup3, Points
  <1>8. QED
    BY <1>2, <1>3, <1>5, <1>6, <1>7

\* The steps that end a call or a part of it.
LEMMA EndSteps ==
    ASSUME Sizes, DescriptorInv, NEW t \in Tasks,
           UseEnd(t) \/ Exec(t) \/ ExecEnd(t) \/ DropEntry(t)
    PROVE  DescriptorInv'
  <1>1. \E l \in {"idle", "exec"} : Goto(t, l, NoOp)
    BY DEF UseEnd, Exec, ExecEnd, DropEntry
  <1>2. table' = table /\ closed' = closed /\ map' = map /\ ids' = ids
    BY DEF UseEnd, Exec, ExecEnd, DropEntry
  <1>3. table[t] # None
    BY DEF UseEnd, Exec, ExecEnd, DropEntry, Idle, DescriptorInv, FilesOK
  <1>4. closed \subseteq Entries
    BY DEF DescriptorInv, FilesOK
  <1>5. QED
    BY <1>1, <1>2, <1>3, <1>4, NoFileCall, CallStep, SameTables

LEMMA InsertStep ==
    ASSUME Sizes, DescriptorInv, NEW t \in Tasks, Insert(t)
    PROVE  DescriptorInv'
  <1> DEFINE T == table[t]
             fd == Alloc(ids[T])
             more == dop[t].more
             fi == Fi(dop[t].e, dop[t].x)
             m == [map[T] EXCEPT ![fd] = fi]
  <1>1. T # None /\ T \in Tables /\ dpc[t] = "insert" /\ table' = table /\ closed' = closed
    BY DEF Insert, DescriptorInv, FilesOK
  <1>2. /\ dop[t] \in Calls /\ dop[t].e \in Entries /\ dop[t].e \notin closed
        /\ more \in Seq(Entries) /\ \A i \in DOMAIN more : more[i] \notin closed
    BY <1>1, InvParts DEF CallOK, Calls
  <1>3. closed \subseteq Entries
    BY DEF DescriptorInv, FilesOK
  <1>4. CASE Cardinality(Open(T)) >= Limit
    <2>1. Goto(t, "idle", NoOp) /\ map' = map /\ ids' = ids
      BY <1>4 DEF Insert
    <2>2. QED
      BY <1>1, <1>3, <2>1, NoFileCall, CallStep, SameTables
  <1>5. CASE ~(Cardinality(Open(T)) >= Limit)
    <2>1. /\ fd \in Fds /\ map' = [map EXCEPT ![T] = m] /\ ids' = [ids EXCEPT ![T] = Alloced(ids[T])]
          /\ IF more = <<>> THEN Goto(t, "idle", NoOp)
             ELSE Goto(t, "insert", Call(more[1], FALSE, 0, <<>>))
      BY <1>5 DEF Insert, Set
    <2>2. fi \in FileInfos
      BY <1>2 DEF Fi, FileInfos, Calls
    <2>3. /\ map[T] \in [Fds -> FileInfos \cup {None}] /\ ids[T] \in Numbers
          /\ TableOK(map[T], ids[T]) /\ \A g \in Fds : map[T][g] # None => map[T][g].e \notin closed
      BY <1>1, InvParts DEF TablesOK, NumbersOK
    <2>4. Alloced(ids[T]) \in Numbers /\ TableOK(m, Alloced(ids[T]))
      <3>1. Alloced(ids[T]) \in Numbers
        BY <2>1, <2>3, NumberTypes
      <3>2. ASSUME Fresh = 0 PROVE Agree(m, Alloced(ids[T]))
        BY <2>1, <2>2, <2>3, <3>2, TakeNumber DEF Sizes, TableOK
      <3>3. QED
        BY <3>1, <3>2 DEF TableOK
    <2>5. /\ m \in [Fds -> FileInfos \cup {None}]
          /\ \A g \in Fds : m[g] # None => m[g].e \notin closed
      BY <1>2, <2>1, <2>2, <2>3 DEF Fi
    <2> HIDE DEF m, fd, fi, T, more
    <2>6. TablesOK'
      BY <1>1, <2>1, <2>4, <2>5, TableStep
    <2>7. CASE more = <<>>
      BY <1>1, <1>3, <2>1, <2>6, <2>7, NoFileCall, CallStep DEF T
    <2>8. CASE more # <<>>
      <3>1. 1 \in DOMAIN more /\ more[1] \in Entries /\ more[1] \notin closed
        BY <1>2, <2>8
      <3>2. 0 \in Fds /\ <<>> \in Seq(Entries) /\ \A i \in DOMAIN <<>> : <<>>[i] \notin closed
        BY DEF Fds, Sizes
      <3>3. CallOK("insert", Call(more[1], FALSE, 0, <<>>))
        BY <3>1, <3>2, FileCall DEF Points
      <3>4. QED
        BY <1>1, <2>1, <2>6, <2>8, <3>3, CallStep DEF T
    <2>9. QED
      BY <2>7, <2>8
  <1>6. QED
    BY <1>4, <1>5

\* dup3() and set_fi().
LEMMA ReplaceSteps ==
    ASSUME Sizes, DescriptorInv, NEW t \in Tasks,
           Reopen(t) \/ \E fd \in Fds, x \in BOOLEAN : SetFi(t, fd, x)
    PROVE  DescriptorInv'
  <1> DEFINE T == table[t]
  <1>1. /\ T # None /\ T \in Tables /\ table' = table /\ closed' = closed /\ ids' = ids
        /\ closed \subseteq Entries /\ ids \in [Tables -> Numbers]
    BY DEF Reopen, SetFi, Idle, DescriptorInv, FilesOK
  <1>2. ASSUME NEW fd \in Fds, map[T][fd] # None \/ Fresh # 0,
               NEW fi \in FileInfos, fi.e \notin closed, Set(T, fd, fi)
        PROVE  TablesOK'
    <2> DEFINE m == [map[T] EXCEPT ![fd] = fi]
    <2>1. TableOK(m, ids[T])
      <3>1. ASSUME Fresh = 0 PROVE Agree(m, ids[T])
        <4>1. /\ map[T] \in [Fds -> FileInfos \cup {None}] /\ ids[T] \in Numbers
              /\ Agree(map[T], ids[T]) /\ map[T][fd] # None
          BY <1>1, <1>2, <3>1, InvParts DEF TablesOK, NumbersOK, TableOK
        <4>2. QED
          BY <1>2, <4>1, KeepNumber
      <3>2. QED
        BY <3>1 DEF TableOK
    <2>2. /\ map[T] \in [Fds -> FileInfos \cup {None}] /\ ids[T] \in Numbers
          /\ \A g \in Fds : map[T][g] # None => map[T][g].e \notin closed
      BY <1>1, InvParts DEF TablesOK
    <2>3. /\ m \in [Fds -> FileInfos \cup {None}]
          /\ \A g \in Fds : m[g] # None => m[g].e \notin closed
      BY <1>2, <2>2
    <2>4. map' = [map EXCEPT ![T] = m] /\ ids' = [ids EXCEPT ![T] = ids[T]]
      BY <1>1, <1>2 DEF Set
    <2> HIDE DEF m, T
    <2>5. QED
      BY <1>1, <2>1, <2>2, <2>3, <2>4, TableStep
  <1>3. CASE Reopen(t)
    <2> DEFINE fi == Fi(dop[t].e, dop[t].x)
               g == dop[t].fd
               old == map[T][g]
    <2>1. dpc[t] = "reopen" /\ Set(T, g, fi)
      BY <1>3 DEF Reopen
    <2>2. dop[t] \in Calls /\ dop[t].e \in Entries /\ dop[t].e \notin closed
      BY <2>1, InvParts DEF CallOK
    <2>3. fi \in FileInfos /\ fi.e \notin closed /\ g \in Fds
      BY <2>2 DEF Fi, FileInfos, Calls
    <2>4. old # None \/ Fresh # 0
      <3>1. Len(ids[T].reuse) \in Nat
        BY <1>1 DEF Numbers
      <3>2. old # None \/ Len(ids[T].reuse) < Fresh
        BY <1>3 DEF Reopen
      <3>3. QED
        BY <3>1, <3>2
    <2>5. TablesOK'
      <3> HIDE DEF fi, g
      <3>1. QED
        BY <1>2, <2>1, <2>3, <2>4
    <2>6. CASE old = None
      <3>1. Goto(t, "idle", NoOp)
        BY <1>3, <2>6 DEF Reopen
      <3>2. QED
        BY <1>1, <2>5, <3>1, NoFileCall, CallStep
    <2>7. CASE old # None
      <3>1. Goto(t, "drop", Call(old.e, FALSE, 0, <<>>))
        BY <1>3, <2>7 DEF Reopen
      <3>2. old.e \in Entries /\ old.e \notin closed
        BY <1>1, <2>3, <2>7, OpenFile DEF Open
      <3>3. 0 \in Fds /\ <<>> \in Seq(Entries) /\ \A i \in DOMAIN <<>> : <<>>[i] \notin closed
        BY DEF Fds, Sizes
      <3> HIDE DEF old
      <3>4. CallOK("drop", Call(old.e, FALSE, 0, <<>>))
        BY <3>2, <3>3, FileCall DEF Points
      <3>5. QED
        BY <1>1, <2>5, <3>1, <3>4, CallStep
    <2>8. QED
      BY <2>6, <2>7
  <1>4. CASE \E fd \in Fds, x \in BOOLEAN : SetFi(t, fd, x)
    <2>1. PICK fd \in Fds, x \in BOOLEAN : SetFi(t, fd, x)
      BY <1>4
    <2> DEFINE fi == [map[T][fd] EXCEPT !.x = x]
    <2>2. fd \in Open(T) /\ Set(T, fd, fi) /\ dpc' = dpc /\ dop' = dop
      BY <2>1 DEF SetFi
    <2>3. map[T][fd] \in FileInfos /\ map[T][fd].e \notin closed /\ map[T][fd] # None
      BY <1>1, <2>2, OpenFile
    <2>4. fi \in FileInfos /\ fi.e \notin closed
      BY <2>3 DEF FileInfos
    <2> HIDE DEF fi
    <2>5. TablesOK'
      BY <1>2, <2>2, <2>3, <2>4
    <2>6. table \in [Tasks -> Tables \cup {None}] /\ \A s \in Tasks : dpc[s] # "idle" => table[s] # None
      BY DEF DescriptorInv, FilesOK
    <2>7. QED
      BY <1>1, <2>2, <2>5, <2>6, OtherStep
  <1>5. QED
    BY <1>3, <1>4

\* close() and a round of close_on_exec().
LEMMA CloseSteps ==
    ASSUME Sizes, DescriptorInv, NEW t \in Tasks, NEW fd \in Fds, Close(t, fd) \/ ExecNext(t, fd)
    PROVE  DescriptorInv'
  <1> DEFINE T == table[t]
             e == map[T][fd].e
             m == [map[T] EXCEPT ![fd] = None]
             a == [ids[T] EXCEPT !.reuse = Append(@, fd)]
  <1>1. T # None /\ T \in Tables /\ table' = table /\ closed' = closed /\ fd \in Open(T)
    BY DEF Close, ExecNext, Idle, DescriptorInv, FilesOK
  <1>2. /\ map[T][fd] # None /\ e \in Entries /\ e \notin closed
    BY <1>1, OpenFile
  <1>3. map' = [map EXCEPT ![T] = m] /\ ids' = [ids EXCEPT ![T] = a]
    BY <1>1 DEF Close, ExecNext, Set, Dealloc, DescriptorInv, FilesOK
  <1>4. /\ map[T] \in [Fds -> FileInfos \cup {None}] /\ ids[T] \in Numbers
        /\ TableOK(map[T], ids[T]) /\ \A g \in Fds : map[T][g] # None => map[T][g].e \notin closed
    BY <1>1, InvParts DEF TablesOK, NumbersOK
  <1>5. a \in Numbers /\ TableOK(m, a)
    <2>1. a \in Numbers
      BY <1>4, NumberTypes
    <2>2. ASSUME Fresh = 0 PROVE Agree(m, a)
      BY <1>2, <1>4, <2>2, ReturnNumber DEF Sizes, TableOK
    <2>3. QED
      BY <2>1, <2>2 DEF TableOK
  <1>6. /\ m \in [Fds -> FileInfos \cup {None}]
        /\ \A g \in Fds : m[g] # None => m[g].e \notin closed
    BY <1>4
  <1>7. \E x \in BOOLEAN : Goto(t, "unwrap", Call(e, x, 0, <<>>))
    BY DEF Close, ExecNext
  <1> HIDE DEF m, a, e, T
  <1>8. TablesOK'
    BY <1>1, <1>3, <1>5, <1>6, TableStep
  <1>9. 0 \in Fds /\ <<>> \in Seq(Entries) /\ \A i \in DOMAIN <<>> : <<>>[i] \notin closed
    BY DEF Fds, Sizes
  <1>10. \A x \in BOOLEAN : CallOK("unwrap", Call(e, x, 0, <<>>))
    BY <1>2, <1>9, FileCall DEF Points
  <1>11. QED
    BY <1>1, <1>7, <1>8, <1>10, CallStep DEF T

LEMMA UnwrapStep ==
    ASSUME Sizes, DescriptorInv, NEW t \in Tasks, Unwrap(t)
    PROVE  DescriptorInv'
  <1> DEFINE e == dop[t].e
  <1>1. /\ dpc[t] = "unwrap" /\ table' = table /\ map' = map /\ ids' = ids
        /\ dpc' = [dpc EXCEPT ![t] = "drop"] /\ dop' = [dop EXCEPT ![t] = dop[t]]
        /\ closed' = IF Refs(e) = 1 THEN closed \cup {e} ELSE closed
    BY DEF Unwrap, Goto
  <1>2. /\ dpc \in [Tasks -> Points] /\ dop \in [Tasks -> Calls] /\ closed \subseteq Entries
        /\ e \in Entries /\ FilesOK
    BY <1>1 DEF DescriptorInv, FilesOK
  <1>3. /\ dop' = dop /\ dpc' \in [Tasks -> Points] /\ dpc'[t] = "drop"
        /\ \A s \in Tasks \ {t} : dpc'[s] = dpc[s]
    BY <1>1, <1>2 DEF Points
  <1>4. closed' \subseteq Entries
    BY <1>1, <1>2
  <1>5. FilesOK'
    BY <1>1, <1>2, <1>3, <1>4 DEF FilesOK
  <1>6. NumbersOK'
    BY <1>1 DEF DescriptorInv, NumbersOK, TableOK, Agree
  <1>7. \A c \in closed : Unheld(c)'
    BY <1>1, <1>2, <1>3 DEF DescriptorInv, ClosedOK, Unheld, Later
  <1>8. ASSUME Refs(e) = 1 PROVE Unheld(e)'
    <2>1. /\ \A T \in Tables, fd \in Fds : map[T][fd] # None => map[T][fd].e # e
          /\ \A s \in Tasks : e \in {dop[s].e} \cup Later(s) => s = t
      BY <1>1, <1>2, <1>8, LastOne
    <2>2. e \notin Later(t)
      BY <1>1, <1>2 DEF FilesOK, Later
    <2>3. QED
      BY <1>1, <1>3, <2>1, <2>2 DEF Unheld, Later
  <1>9. ClosedOK'
    BY <1>1, <1>7, <1>8 DEF ClosedOK
  <1>10. QED
    BY <1>5, <1>6, <1>9 DEF DescriptorInv

\* clone() with and without CLONE_FILES.
LEMMA ForkSteps ==
    ASSUME Sizes, DescriptorInv, NEW t \in Tasks, NEW c \in Tasks,
           Share(t, c) \/ \E T \in Tables : DeepFork(t, c, T)
    PROVE  DescriptorInv'
  <1>1. /\ table \in [Tasks -> Tables \cup {None}] /\ table[t] \in Tables
        /\ \A s \in Tasks : dpc[s] # "idle" => table[s] # None
    BY DEF DescriptorInv, FilesOK, Share, DeepFork, Idle
  <1>2. dpc' = dpc /\ dop' = dop /\ closed' = closed
    BY DEF Share, DeepFork
  <1>3. ASSUME NEW S \in Tables, table' = [table EXCEPT ![c] = S], TablesOK'
        PROVE  DescriptorInv'
    <2>1. table' \in [Tasks -> Tables \cup {None}]
      BY <1>1, <1>3
    <2>2. \A s \in Tasks : dpc[s] # "idle" => table'[s] # None
      BY <1>1, <1>3 DEF Sizes
    <2>3. QED
      BY <1>2, <1>3, <2>1, <2>2, OtherStep
  <1>4. CASE Share(t, c)
    BY <1>1, <1>2, <1>3, <1>4, SameTables DEF Share
  <1>5. CASE \E T \in Tables : DeepFork(t, c, T)
    <2>1. PICK T \in Tables : DeepFork(t, c, T)
      BY <1>5
    <2> DEFINE m == map[table[t]]
               a == ids[table[t]]
    <2>2. /\ table' = [table EXCEPT ![c] = T] /\ map' = [map EXCEPT ![T] = m]
          /\ ids' = [ids EXCEPT ![T] = a]
      BY <2>1 DEF DeepFork
    <2>3. /\ m \in [Fds -> FileInfos \cup {None}] /\ a \in Numbers /\ TableOK(m, a)
          /\ \A fd \in Fds : m[fd] # None => m[fd].e \notin closed
      BY <1>1, InvParts DEF TablesOK, NumbersOK
    <2> HIDE DEF m, a
    <2>4. TablesOK'
      BY <1>2, <2>2, <2>3, TableStep
    <2>5. QED
      BY <1>3, <2>2, <2>4
  <1>6. QED
    BY <1>4, <1>5

LEMMA ExitStep ==
    ASSUME Sizes, DescriptorInv, NEW t \in Tasks, Exit(t)
    PROVE  DescriptorInv'
  <1>1. /\ table \in [Tasks -> Tables \cup {None}] /\ table[t] \in Tables
        /\ \A s \in Tasks : dpc[s] # "idle" => table[s] # None
    BY DEF DescriptorInv, FilesOK, Exit, Idle
  <1>2. /\ dpc' = dpc /\ dop' = dop /\ closed' = closed /\ dpc[t] = "idle"
        /\ table' = [table EXCEPT ![t] = None]
    BY DEF Exit, Idle
  <1>3. /\ table' \in [Tasks -> Tables \cup {None}]
        /\ \A s \in Tasks : dpc[s] # "idle" => table'[s] # None
    BY <1>1, <1>2
  <1>4. TablesOK'
    <2> DEFINE m == [fd \in Fds |-> None]
               a == [reuse |-> <<>>, next |-> 1]
    <2>1. \/ map' = map /\ ids' = ids
          \/ map' = [map EXCEPT ![table[t]] = m] /\ ids' = [ids EXCEPT ![table[t]] = a]
      BY DEF Exit
    <2>2. m \in [Fds -> FileInfos \cup {None}] /\ a \in Numbers /\ TableOK(m, a)
      BY NewTable DEF Sizes
    <2>3. \A fd \in Fds : m[fd] # None => m[fd].e \notin closed
      OBVIOUS
    <2> HIDE DEF m, a
    <2>4. QED
      BY <1>1, <1>2, <2>1, <2>2, <2>3, TableStep, SameTables
  <1>5. QED
    BY <1>2, <1>3, <1>4, OtherStep

LEMMA InitDescriptors ==
    ASSUME Sizes, Init
    PROVE  DescriptorInv
  <1> DEFINE T0 == CHOOSE T \in Tables : TRUE
             e0 == CHOOSE e \in Entries : TRUE
             m0 == [fd \in Fds |-> IF fd = 0 THEN Fi(e0, FALSE) ELSE None]
             m1 == [fd \in Fds |-> None]
             a0 == [reuse |-> <<>>, next |-> 1]
  <1>1. T0 \in Tables /\ e0 \in Entries
    BY DEF Sizes
  <1>2. /\ table = [t \in Tasks |-> IF t = Root THEN T0 ELSE None]
        /\ map = [S \in Tables |-> [fd \in Fds |-> IF S = T0 /\ fd = 0 THEN Fi(e0, FALSE) ELSE None]]
        /\ ids = [S \in Tables |-> a0] /\ dpc = [t \in Tasks |-> "idle"]
        /\ dop = [t \in Tasks |-> NoOp] /\ closed = {}
    BY DEF Init
  <1>3. m1 \in [Fds -> FileInfos \cup {None}] /\ a0 \in Numbers /\ TableOK(m1, a0)
    BY NewTable DEF Sizes
  <1>4. m0 \in [Fds -> FileInfos \cup {None}] /\ TableOK(m0, a0)
    <2>1. Fi(e0, FALSE) \in FileInfos
      BY <1>1 DEF Fi, FileInfos
    <2>2. m0 \in [Fds -> FileInfos \cup {None}]
      BY <2>1
    <2>3. a0.next = 1 /\ a0.reuse = <<>> /\ \A fd \in Fds : m0[fd] # None => fd = 0
      OBVIOUS
    <2> HIDE DEF m0, a0
    <2>4. TableOK(m0, a0)
      BY <2>3 DEF TableOK, Agree
    <2>5. QED
      BY <2>2, <2>4
  <1>5. \A S \in Tables : map[S] = (IF S = T0 THEN m0 ELSE m1) /\ ids[S] = a0
    <2> HIDE DEF T0, e0, a0
    <2>1. ASSUME NEW S \in Tables, S = T0 PROVE map[S] = m0
      BY <1>2, <2>1
    <2>2. ASSUME NEW S \in Tables, S # T0 PROVE map[S] = m1
      BY <1>2, <2>2
    <2>3. \A S \in Tables : ids[S] = a0
      BY <1>2
    <2> HIDE DEF m0, m1
    <2>4. QED
      BY <2>1, <2>2, <2>3
  <1>6. NoOp \in Calls /\ NoOp.more = <<>>
    BY DEF NoOp, Call, Calls, Fds, Sizes
  <1> HIDE DEF T0, e0, m0, m1, a0
  <1>7. map \in [Tables -> [Fds -> FileInfos \cup {None}]] /\ ids \in [Tables -> Numbers]
    <2>1. DOMAIN map = Tables /\ DOMAIN ids = Tables
      BY <1>2
    <2>2. map = [S \in Tables |-> map[S]] /\ ids = [S \in Tables |-> ids[S]]
      BY <1>2
    <2>3. QED
      BY <1>3, <1>4, <1>5, <2>2
  <1>8. FilesOK
    BY <1>1, <1>2, <1>6, <1>7 DEF FilesOK, Points
  <1>9. NumbersOK
    BY <1>3, <1>4, <1>5 DEF NumbersOK
  <1>10. QED
    BY <1>2, <1>8, <1>9 DEF DescriptorInv, ClosedOK

LEMMA NextDescriptors ==
    ASSUME Sizes, DescriptorInv, [Next]_fdvars
    PROVE  DescriptorInv'
  <1>1. CASE UNCHANGED fdvars
    BY <1>1 DEF fdvars, DescriptorInv, FilesOK, NumbersOK, TableOK, Agree, ClosedOK, Unheld, Later
  <1>2. CASE Next
    <2>1. PICK t \in Tasks :
             \/ \E e \in Entries, x \in BOOLEAN : OpenAt(t, e, x)
             \/ \E e, f \in Entries : PipeInner(t, e, f)
             \/ \E fd \in Fds, x \in BOOLEAN : Fcntl(t, fd, x)
             \/ \E fd, new \in Fds, x \in BOOLEAN : Dup3(t, fd, new, x)
             \/ \E fd \in Fds : Close(t, fd) \/ ExecNext(t, fd)
             \/ UseEnd(t) \/ Insert(t) \/ Reopen(t)
             \/ Exec(t) \/ ExecEnd(t) \/ Unwrap(t) \/ DropEntry(t) \/ Exit(t)
             \/ \E c \in Tasks : Share(t, c) \/ \E T \in Tables : DeepFork(t, c, T)
      BY <1>2 DEF Next
    <2>2. CASE \/ \E e \in Entries, x \in BOOLEAN : OpenAt(t, e, x)
               \/ \E e, f \in Entries : PipeInner(t, e, f)
               \/ \E fd, new \in Fds, x \in BOOLEAN : Dup3(t, fd, new, x)
      BY <2>2, StartSteps
    <2>3. CASE \E fd \in Fds, x \in BOOLEAN : Fcntl(t, fd, x)
      <3>1. \/ \E fd \in Fds, x \in BOOLEAN : Dup(t, fd, x)
            \/ \E fd \in Fds, x \in BOOLEAN : SetFi(t, fd, x)
            \/ \E fd \in Fds : Get(t, fd)
        BY <2>3 DEF Fcntl
      <3>2. QED
        BY <3>1, StartSteps, ReplaceSteps
    <2>4. CASE \E fd \in Fds : Close(t, fd) \/ ExecNext(t, fd)
      BY <2>4, CloseSteps
    <2>5. CASE UseEnd(t) \/ Exec(t) \/ ExecEnd(t) \/ DropEntry(t)
      BY <2>5, EndSteps
    <2>6. CASE Insert(t)
      BY <2>6, InsertStep
    <2>7. CASE Reopen(t)
      BY <2>7, ReplaceSteps
    <2>8. CASE Unwrap(t)
      BY <2>8, UnwrapStep
    <2>9. CASE Exit(t)
      BY <2>9, ExitStep
    <2>10. CASE \E c \in Tasks : Share(t, c) \/ \E T \in Tables : DeepFork(t, c, T)
      BY <2>10, ForkSteps
    <2>11. QED
      BY <2>1, <2>2, <2>3, <2>4, <2>5, <2>6, <2>7, <2>8, <2>9, <2>10
  <1>3. QED
    BY <1>1, <1>2

LEMMA DescriptorsInvariant ==
    ASSUME Sizes
    PROVE  Spec => []DescriptorInv
  <1>1. Init => DescriptorInv
    BY InitDescriptors
  <1>2. DescriptorInv /\ [Next]_fdvars => DescriptorInv'
    BY NextDescriptors
  <1>3. QED
    BY <1>1, <1>2, PTL DEF Spec

\* IdAlloc gives out no number that is open, whichever of the tasks that share a table
\* opened, duplicated, closed, forked or executed in between: for any number of tasks,
\* tables, files and descriptors and any limit, as long as nobody calls dup3() for a
\* number that is not open (Files::reopen() does not tell IdAlloc of it).
THEOREM FilesIdsUnique ==
    ASSUME Sizes, Fresh = 0
    PROVE  Spec => []IdsUnique
  <1>1. DescriptorInv => IdsUnique
    <2> SUFFICES ASSUME DescriptorInv, NEW t \in Tasks, table[t] # None
                 PROVE  LET T == table[t] IN
                        /\ Free(T) \cap Open(T) = {}
                        /\ \A i, j \in DOMAIN ids[T].reuse : ids[T].reuse[i] = ids[T].reuse[j] => i = j
      BY DEF IdsUnique
    <2> DEFINE T == table[t]
    <2>1. T \in Tables /\ ids[T].next \in Nat /\ Agree(map[T], ids[T])
      BY DEF DescriptorInv, FilesOK, NumbersOK, Numbers, TableOK
    <2>2. ASSUME NEW fd \in Free(T), fd \in Open(T) PROVE FALSE
      <3>1. fd \in Fds /\ fd \in Nat /\ map[T][fd] # None /\ fd < ids[T].next
        BY <2>1, <2>2 DEF Open, Fds, Agree
      <3>2. QED
        BY <2>1, <2>2, <3>1 DEF Free, Agree
    <2>3. QED
      BY <2>1, <2>2 DEF Agree
  <1>2. QED
    BY <1>1, DescriptorsInvariant, PTL

\* Arc::try_unwrap() closes a socket only when no descriptor of any table and no call
\* under way has it any more, and nobody gets it afterwards; whatever dup3() is called for.
THEOREM FilesNoEarlyClose ==
    ASSUME Sizes
    PROVE  Spec => []NoEarlyClose
  <1>1. DescriptorInv => NoEarlyClose
    BY DEF DescriptorInv, ClosedOK, Unheld, NoEarlyClose, Open
  <1>2. QED
    BY <1>1, DescriptorsInvariant, PTL
=============================================================================
