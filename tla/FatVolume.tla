----------------------------- MODULE FatVolume -----------------------------
(***************************************************************************)
(* The allocation table of the FAT file system and the files on it         *)
(* (mizu/lib/afat32/src/table.rs, file.rs, fs.rs, raw.rs).  Each file has  *)
(* one FatFile, whose calls its `clusters` lock puts in order; the calls   *)
(* on different files interleave, at every access to the table.            *)
(***************************************************************************)
EXTENDS Naturals, Sequences, FiniteSets, FiniteSetsExt

CONSTANTS Files,
          NClusters,    \* Fat.cluster_count
          CS,           \* bytes in a cluster
          MaxLen,       \* bound: length of a file
          None

VARIABLES fat, alock,               \* Fat: the table, the owner of allocate_lock
          next_free, free_count,    \* FsInfoSector
          clusters, len,            \* FatFile: pairs (cluster, end of its run)
          first, size,              \* FatFile.entry: the DirEntryEditor
          vpc, vop                  \* the call on each file

fvvars == <<fat, alock, next_free, free_count, clusters, len, first, size, vpc, vop>>

Clusters == 2..(NClusters + 1)    \* Fat::allocable_range()
Free == 0
End == 1                          \* any other entry is FatEntry::Next

CeilDiv(n) == (n + CS - 1) \div CS
Smaller(a, b) == IF a < b THEN a ELSE b
Larger(a, b) == IF a > b THEN a ELSE b
NoCall == [offset |-> 0, n |-> 0, hint |-> 0, num |-> 0, new |-> 0, cluster |-> 0, count |-> 0]

Init ==
    /\ fat = [c \in Clusters |-> Free] /\ alock = None
    /\ next_free = None /\ free_count = NClusters
    /\ clusters = [f \in Files |-> <<>>] /\ len = [f \in Files |-> 0]
    /\ first = [f \in Files |-> None] /\ size = [f \in Files |-> 0]
    /\ vpc = [f \in Files |-> "idle"] /\ vop = [f \in Files |-> NoCall]

Goto(f, l) == vpc' = [vpc EXCEPT ![f] = l]
Call(f, r) == vop' = [vop EXCEPT ![f] = r]
Done(f) == Goto(f, "idle") /\ Call(f, NoCall)
-----------------------------------------------------------------------------
\* FatFile::decomp_end: the index of the cluster the last of n bytes is in.
EndIndex(n) == (n - 1) \div CS

\* Fat::all_clusters: the chain from c, each cluster with the end of its run.
Chain(c) ==
    LET at[k \in 0..NClusters] ==
            IF k = 0 THEN c ELSE IF at[k - 1] \in Clusters THEN fat[at[k - 1]] ELSE Free
    IN  [k \in 1..(Min({k \in 0..NClusters : at[k] \notin Clusters} \cup {NClusters})) |-> at[k - 1]]

RunEnd(s, i) ==
    s[Max({j \in i..Len(s) : \A k \in i..j : s[k] = s[i] + (k - i)})]

AllClusters(c) ==
    IF c = None THEN <<>>
    ELSE LET s == Chain(c) IN [i \in DOMAIN s |-> <<s[i], RunEnd(s, i)>>]

\* Fat::find_free on hint.. : batches of num entries, the first run of free ones in the
\* first batch that has any.  The search of ..hint that follows a failure starts
\* at the end of the table (its start bound is Unbounded) and finds nothing.
FreeIn(s, num) == {c \in Clusters : s <= c /\ c < s + num /\ fat[c] = Free}
Batches(hint, num) ==
    {s \in Clusters : s >= hint /\ (s - hint) % num = 0 /\ FreeIn(s, num) # {}}
FindFree(hint, num) ==
    LET s == Min(Batches(hint, num))
        c == Min(FreeIn(s, num))
    IN  [new |-> c, num |-> Max({n \in 1..num : c + n <= s + num /\ (c..(c + n - 1)) \subseteq FreeIn(s, num)})]
-----------------------------------------------------------------------------
\* FatFile::write_at, up to the allocation.  Writes start inside the file or at its end.
Write(f, offset, n) ==
    LET i == offset \div CS
    IN  /\ vpc[f] = "idle" /\ offset <= len[f] /\ offset + n <= MaxLen
        /\ IF i < Len(clusters[f])
           THEN LET c == clusters[f][i + 1]
                IN  /\ Call(f, [NoCall EXCEPT !.offset = offset, !.n = n, !.cluster = c[1],
                                              !.count = c[2] + 1 - c[1]])
                    /\ Goto(f, "data")
           ELSE /\ Call(f, [NoCall EXCEPT !.offset = offset, !.n = n,
                                          !.num = i + CeilDiv(n) - Len(clusters[f]),
                                          !.hint = IF next_free = None THEN 2 ELSE next_free])
                /\ Goto(f, "alloc")
        /\ UNCHANGED <<fat, alock, next_free, free_count, clusters, len, first, size>>


\* Fat::allocate: find the clusters under allocate_lock (a free() running beside it
\* can only add to them), then three writes to the table.
Allocate(f) ==
    LET o == vop[f]
    IN  /\ vpc[f] = "alloc" /\ alock = None
        /\ IF Batches(o.hint, o.num) = {}
           THEN Done(f) /\ UNCHANGED alock
           ELSE LET r == FindFree(o.hint, o.num)
                IN  /\ Call(f, [o EXCEPT !.new = r.new, !.num = r.num])
                    /\ alock' = f /\ Goto(f, "link")
        /\ UNCHANGED <<fat, next_free, free_count, clusters, len, first, size>>

AllocLink(f) ==
    LET s == clusters[f]
    IN  /\ vpc[f] = "link"
        /\ fat' = IF s = <<>> THEN fat ELSE [fat EXCEPT ![s[Len(s)][1]] = vop[f].new]
        /\ Goto(f, "range")
        /\ UNCHANGED <<alock, next_free, free_count, clusters, len, first, size, vop>>

AllocRange(f) ==
    LET o == vop[f]
    IN  /\ vpc[f] = "range"
        /\ fat' = [c \in Clusters |->
                      IF o.new <= c /\ c < o.new + o.num - 1 THEN c + 1 ELSE fat[c]]
        /\ Goto(f, "end")
        /\ UNCHANGED <<alock, next_free, free_count, clusters, len, first, size, vop>>

AllocEnd(f) ==
    /\ vpc[f] = "end"
    /\ fat' = [fat EXCEPT ![vop[f].new + vop[f].num - 1] = End]
    /\ alock' = None /\ Goto(f, "info")
    /\ UNCHANGED <<next_free, free_count, clusters, len, first, size, vop>>

\* The new clusters are appended; a run that goes on in them gets their end.

Extend(s, new, num) ==
    LET end == new + num - 1
        old == IF s = <<>> THEN 0 ELSE s[Len(s)][2]
    IN  [i \in DOMAIN s |-> IF s[i][2] = old /\ old + 1 = new THEN <<s[i][1], end>> ELSE s[i]]
          \o [i \in 1..num |-> <<new + i - 1, end>>]

\* FatFileSystem::alloc_cluster updates fs_info; write_at goes on with the new clusters.
AllocInfo(f) ==
    LET o == vop[f]
    IN  /\ vpc[f] = "info"
        /\ next_free' = o.new + o.num /\ free_count' = free_count - o.num
        /\ first' = IF clusters[f] = <<>> THEN [first EXCEPT ![f] = o.new] ELSE first
        /\ clusters' = [clusters EXCEPT ![f] = Extend(@, o.new, o.num)]
        /\ Call(f, [o EXCEPT !.cluster = o.new, !.count = o.num]) /\ Goto(f, "data")
        /\ UNCHANGED <<fat, alock, len, size>>

\* How many bytes write_at() puts into the run it chose.
Span(o) == Smaller(o.n, o.count * CS - (o.offset % CS))

\* The loop of write_at over the run, and update_write().
WriteData(f) ==
    LET end == vop[f].offset + Span(vop[f])
    IN  /\ vpc[f] = "data"
        /\ len' = [len EXCEPT ![f] = Larger(@, end)]
        /\ size' = [size EXCEPT ![f] = Larger(@, end)]
        /\ Done(f)
        /\ UNCHANGED <<fat, alock, next_free, free_count, clusters, first>>
-----------------------------------------------------------------------------

\* FatFile::truncate cuts the list behind index i: the last run ends there.
CutRuns(s, i) ==
    LET kept == SubSeq(s, 1, i)
    IN  [j \in DOMAIN kept |->
            IF kept[j][2] = kept[i][2] THEN <<kept[j][1], kept[i][1]>> ELSE kept[j]]

\* FatFile::truncate.  To nothing: the chain is freed.  Into another cluster: that cluster
\* becomes the end of the chain; Fat::truncate then looks for its successor in the
\* entry it has just overwritten and frees nothing.
Truncate(f, n) ==
    LET s == clusters[f]
    IN  /\ vpc[f] = "idle" /\ n < size[f]
        /\ IF n = 0
           THEN /\ first' = [first EXCEPT ![f] = None]
                /\ clusters' = [clusters EXCEPT ![f] = <<>>]
                /\ Call(f, [NoCall EXCEPT !.cluster = s[1][1]]) /\ Goto(f, "free")
                /\ UNCHANGED <<len, size>>
           ELSE IF EndIndex(n) # EndIndex(size[f])
           THEN /\ clusters' = [clusters EXCEPT ![f] = CutRuns(@, EndIndex(n) + 1)]
                /\ Call(f, [NoCall EXCEPT !.cluster = s[EndIndex(n) + 1][1], !.n = n])
                /\ Goto(f, "cut") /\ UNCHANGED <<first, len, size>>
           ELSE /\ len' = [len EXCEPT ![f] = n] /\ size' = [size EXCEPT ![f] = n]
                /\ UNCHANGED <<first, clusters, vpc, vop>>
        /\ UNCHANGED <<fat, alock, next_free, free_count>>

Cut(f) ==
    /\ vpc[f] = "cut"
    /\ fat' = [fat EXCEPT ![vop[f].cluster] = End]
    /\ len' = [len EXCEPT ![f] = vop[f].n] /\ size' = [size EXCEPT ![f] = vop[f].n]
    /\ Done(f)
    /\ UNCHANGED <<alock, next_free, free_count, clusters, first>>

\* FatDir::remove of a file nobody has open: its chain is freed with its entry.
Remove(f) ==
    /\ vpc[f] = "idle" /\ first[f] # None
    /\ first' = [first EXCEPT ![f] = None] /\ clusters' = [clusters EXCEPT ![f] = <<>>]
    /\ Call(f, [NoCall EXCEPT !.cluster = first[f]]) /\ Goto(f, "free")
    /\ UNCHANGED <<fat, alock, next_free, free_count, len, size>>

\* Fat::free: the successor of a cluster is read before the cluster is freed.
FreeNext(f) ==
    LET c == vop[f].cluster
    IN  /\ vpc[f] = "free" /\ c \in Clusters
        /\ fat' = [fat EXCEPT ![c] = Free]
        /\ Call(f, [vop[f] EXCEPT !.cluster = fat[c], !.count = @ + 1])
        /\ UNCHANGED <<alock, next_free, free_count, clusters, len, first, size, vpc>>

FreeInfo(f) ==
    /\ vpc[f] = "free" /\ vop[f].cluster \notin Clusters
    /\ free_count' = free_count + vop[f].count
    /\ len' = [len EXCEPT ![f] = 0] /\ size' = [size EXCEPT ![f] = 0] /\ Done(f)
    /\ UNCHANGED <<fat, alock, next_free, clusters, first>>

Next ==
    \E f \in Files :
        \/ \E o \in 0..MaxLen, n \in 1..MaxLen : Write(f, o, n)
        \/ Allocate(f) \/ AllocLink(f) \/ AllocRange(f) \/ AllocEnd(f) \/ AllocInfo(f)
        \/ WriteData(f)
        \/ \E n \in 0..MaxLen : Truncate(f, n)
        \/ Cut(f) \/ Remove(f) \/ FreeNext(f) \/ FreeInfo(f)

Spec == Init /\ [][Next]_fvvars
-----------------------------------------------------------------------------
\* The list of clusters a file keeps in memory is the one that opening it again would
\* build from the table, runs included, and its entry and length agree with it.
ListKept ==
    \A f \in Files : vpc[f] = "idle" =>
        /\ clusters[f] = AllClusters(first[f])
        /\ len[f] = size[f] /\ len[f] <= CS * Len(clusters[f])

\* Where read_at() ends a read at offset o of file f: at the end of the run of the cluster
\* it starts in, or of the file.
ReadEnd(f, o) ==
    LET c == clusters[f][o \div CS + 1]
        e == clusters[f][EndIndex(len[f]) + 1]
    IN  IF e[2] # c[2] THEN (c[2] + 1 - c[1]) * CS - (o % CS)
        ELSE (e[1] - c[1]) * CS + (len[f] - EndIndex(len[f]) * CS) - (o % CS)

\* n bytes on the device from byte o of cluster c on are n bytes of file f from o on.
Contiguous(f, c, o, n) ==
    \A i \in 0..(n - 1) : /\ (o + i) \div CS < Len(clusters[f])
                           /\ c + ((o % CS) + i) \div CS = clusters[f][(o + i) \div CS + 1][1]

\* A read or a write goes to the bytes of its file: the run write_at() chose holds the
\* bytes it counts; what read_at() counts is in one run and not beyond the length; and
\* no cluster is in the lists of two files, however the calls interleave.
IoInPlace ==
    /\ \A f \in Files : vpc[f] = "data" =>
           Contiguous(f, vop[f].cluster, vop[f].offset, Span(vop[f]))
    /\ \A f \in Files : vpc[f] = "idle" => \A o \in 0..(len[f] - 1) :
           /\ ReadEnd(f, o) > 0 /\ o + ReadEnd(f, o) <= len[f]
           /\ Contiguous(f, clusters[f][o \div CS + 1][1], o, ReadEnd(f, o))
    /\ \A f, g \in Files : \A i \in DOMAIN clusters[f], j \in DOMAIN clusters[g] :
           clusters[f][i][1] = clusters[g][j][1] => f = g /\ i = j

\* The count of free clusters that statfs() reports is the number of free entries,
\* whenever no call is under way.
FreeCounted ==
    (\A f \in Files : vpc[f] = "idle") =>
        free_count = Cardinality({c \in Clusters : fat[c] = Free})
=============================================================================
