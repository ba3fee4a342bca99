------------------------------- MODULE FatDir -------------------------------
(***************************************************************************)
(* The directories of the FAT file system (mizu/lib/afat32/src/dir.rs,     *)
(* dirent.rs).  A directory is an array of 32-byte entries: a name takes   *)
(* its long-name entries, in descending order, and a short entry behind    *)
(* them.  Nothing locks a directory: one task changes the directories      *)
(* while another looks a name up, entry by entry.  The short name, and so  *)
(* the checksum in the long-name entries, is that of the name; module      *)
(* FatNames has its generation.  The clusters of a new directory are taken *)
(* to hold zeros, as nothing clears them.                                  *)
(***************************************************************************)
EXTENDS Naturals, Sequences, FiniteSets, FiniteSetsExt

CONSTANTS Names,      \* names, outside of the 8.3 form
          Lfns,       \* number of long-name entries of each
          SubDirs,    \* directories that create_dir() can make
          NSlots,     \* bound: entries of a directory
          Cases,      \* {"mkdir_file"} lets create_dir() meet a file of its name
          None

VARIABLES slots,      \* the directories
          wpc, wop,   \* the task that changes them: where it is, its locals
          rpc, rop,   \* the task that looks a name up
          live,       \* the names in the directories: pairs (directory, name)
          steady,     \* those that were there since the lookup started
          ever,       \* those that were there at some time since
          panicked    \* an assertion failed

fdvars == <<slots, wpc, wop, rpc, rop, live, steady, ever, panicked>>

Root == "root"
Dirs == {Root} \cup SubDirs
Dot == "."
DotDot == ".."

EndSlot == [kind |-> "end", name |-> None, ord |-> 0, last |-> FALSE, node |-> None]
Deleted == [EndSlot EXCEPT !.kind = "deleted"]
LfnSlot(n, ord, last) == [EndSlot EXCEPT !.kind = "lfn", !.name = n, !.ord = ord, !.last = last]
SfnSlot(n, node) == [EndSlot EXCEPT !.kind = "sfn", !.name = n, !.node = node]

LfnCount(n) == IF n \in {Dot, DotDot} THEN 1 ELSE Lfns[n]
NoOp == [todo |-> <<>>, dir |-> None, from |-> 0, to |-> 0, ord |-> 0]
NoLookup == [dir |-> None, name |-> None, pos |-> 0, idx |-> 0, lfn |-> None, found |-> FALSE]

Init ==
    /\ slots = [d \in Dirs |-> [i \in 1..NSlots |-> EndSlot]]
    /\ wpc = "idle" /\ wop = NoOp /\ rpc = "idle" /\ rop = NoLookup
    /\ live = {} /\ steady = {} /\ ever = {} /\ panicked = FALSE
-----------------------------------------------------------------------------
\* LongNameBuilder after one more entry: the index it expects the next entry to precede,
\* and the name; 0 is an empty builder.
Process(b, s) ==
    IF s.last THEN [idx |-> s.ord, lfn |-> s.name]
    ELSE IF b.idx = 0 \/ s.ord # b.idx - 1 \/ s.name # b.lfn THEN [idx |-> 0, lfn |-> b.lfn]
    ELSE [idx |-> b.idx - 1, lfn |-> b.lfn]

\* The long name a short entry at i has: the entries before it, read from behind the
\* previous short or deleted entry on.
LongName(a, i) ==
    LET st == Max({0} \cup {j \in 1..(i - 1) : a[j].kind # "lfn"})
        b[j \in st..(i - 1)] == IF j = st THEN [idx |-> 0, lfn |-> None] ELSE Process(b[j - 1], a[j])
    IN  IF b[i - 1].idx = 1 /\ b[i - 1].lfn = a[i].name THEN a[i].name ELSE None

\* The short entries an iteration reaches: nothing behind an end.
Reached(a) == {i \in 1..NSlots : a[i].kind = "sfn" /\ \A j \in 1..i : a[j].kind # "end"}

\* find_entry() by the task that writes: nobody else changes the directory.
Find(d, n) == {i \in Reached(slots[d]) : LongName(slots[d], i) = n}
Exists(d, n) == Find(d, n) # {}
IsDir(d, n) == \E i \in Find(d, n) : slots[d][i].node \in SubDirs

\* FatDir::is_empty
IsEmpty(d) == \A i \in Reached(slots[d]) : slots[d][i].name \in {Dot, DotDot}


\* FatDir::find_free_entries: the first run of num deleted entries, or the deleted
\* entries before the end and what follows.
FindFreeEntries(d, num) ==
    LET a == slots[d]
        end == Min({i \in 1..NSlots : a[i].kind = "end"} \cup {NSlots + 1})
        runs == {i \in 1..(end - 1) :
                    i + num <= end /\ \A j \in i..(i + num - 1) : a[j].kind = "deleted"}
        tail == {i \in 1..(end - 1) : \A j \in i..(end - 1) : a[j].kind = "deleted"}
    IN  Min(runs \cup tail \cup {end})
-----------------------------------------------------------------------------
Entry(d, n, node) == [dir |-> d, name |-> n, node |-> node]
\* Directories that can be opened from the root.
Opened == ({Root} \cup {slots[Root][i].node : i \in Reached(slots[Root])}) \ {None}

Unused(d) == /\ d \in SubDirs /\ \A e \in Dirs : \A i \in Reached(slots[e]) : slots[e][i].node # d
             /\ \A i \in 1..NSlots : slots[d][i] = EndSlot

\* write_entry() for the first of the entries to write: room for it is looked for.
BeginEntry(todo) ==
    LET e  == todo[1]
        at == FindFreeEntries(e.dir, LfnCount(e.name) + 1)
    IN  /\ at + LfnCount(e.name) <= NSlots
        /\ wop' = [NoOp EXCEPT !.todo = todo, !.dir = e.dir, !.from = at,
                               !.to = at + LfnCount(e.name), !.ord = LfnCount(e.name)]
        /\ wpc' = "write"

\* FatDir::create_file
CreateFile(d, n) ==
    /\ wpc = "idle" /\ d \in Opened /\ ~Exists(d, n)
    /\ BeginEntry(<<Entry(d, n, None)>>)
    /\ UNCHANGED <<slots, rpc, rop, live, steady, ever, panicked>>

\* FatDir::create_dir.  An entry of the name makes find_entry() fail if it is a directory;
\* if it is a file, to_dir() is called on it.
CreateDir(n, d) ==
    /\ wpc = "idle" /\ Unused(d)
    /\ ~IsDir(Root, n) /\ ("mkdir_file" \in Cases \/ ~Exists(Root, n))
    /\ IF Exists(Root, n)
       THEN panicked' = TRUE /\ UNCHANGED <<wpc, wop>>
       ELSE /\ BeginEntry(<<Entry(Root, n, d), Entry(d, Dot, d), Entry(d, DotDot, Root)>>)
            /\ UNCHANGED panicked
    /\ UNCHANGED <<slots, rpc, rop, live, steady, ever>>

\* alloc_and_write_lfn_entries() and the short entry, one device write each.
WriteSlot ==
    LET e == wop.todo[1]
        s == IF wop.ord = 0 THEN SfnSlot(e.name, e.node)
             ELSE LfnSlot(e.name, wop.ord, wop.ord = LfnCount(e.name))
        named == IF wop.ord = 0 /\ e.name \in Names THEN {<<e.dir, e.name>>} ELSE {}
    IN  /\ wpc = "write"
        /\ slots' = [slots EXCEPT ![wop.dir][wop.from] = s]
        /\ live' = live \cup named /\ ever' = ever \cup named
        /\ IF wop.ord > 0
           THEN wop' = [wop EXCEPT !.from = @ + 1, !.ord = @ - 1] /\ UNCHANGED wpc
           ELSE wop' = [NoOp EXCEPT !.todo = Tail(wop.todo)] /\ wpc' = "next"
        /\ UNCHANGED <<rpc, rop, steady, panicked>>

WriteNext ==
    /\ wpc = "next"
    /\ \/ wop.todo = <<>> /\ wpc' = "idle" /\ wop' = NoOp
       \/ wop.todo # <<>> /\ BeginEntry(wop.todo)
    /\ UNCHANGED <<slots, rpc, rop, live, steady, ever, panicked>>

\* Where the entries of the name with its short entry at i start: DirEntry.offset_range,
\* from behind the entry that is no long-name entry.
RangeStart(d, i) == 1 + Max({0} \cup {j \in 1..(i - 1) : slots[d][j].kind # "lfn"})

BeginDelete(d, i, todo) ==
    /\ wop' = [NoOp EXCEPT !.todo = todo, !.dir = d, !.from = RangeStart(d, i), !.to = i]
    /\ wpc' = "delete"
    /\ live' = live \ {<<d, slots[d][i].name>>} /\ steady' = steady \ {<<d, slots[d][i].name>>}

\* FatDir::remove of a name of this directory.
RemoveEntry(d, n) ==
    /\ wpc = "idle"
    /\ \E i \in Find(d, n) :
           /\ slots[d][i].node \in SubDirs => IsEmpty(slots[d][i].node)
           /\ BeginDelete(d, i, <<>>)
    /\ UNCHANGED <<slots, rpc, rop, ever, panicked>>

\* FatDir::rename_internal: the entry is freed, then written under its new name.
\* A directory is not moved into itself.
Rename(d, n, e, m) ==
    /\ wpc = "idle" /\ {d, e} \subseteq Opened /\ ~Exists(e, m)
    /\ \E i \in Find(d, n) :
           /\ slots[d][i].node # e
           /\ BeginDelete(d, i, <<Entry(e, m, slots[d][i].node)>>)
    /\ UNCHANGED <<slots, rpc, rop, ever, panicked>>

\* free_all_entries(): one entry after the other is marked.
DeleteSlot ==
    /\ wpc = "delete"
    /\ slots' = [slots EXCEPT ![wop.dir][wop.from] = Deleted]
    /\ IF wop.from < wop.to
       THEN wop' = [wop EXCEPT !.from = @ + 1] /\ UNCHANGED wpc
       ELSE wop' = [NoOp EXCEPT !.todo = wop.todo] /\ wpc' = "next"
    /\ UNCHANGED <<rpc, rop, live, steady, ever, panicked>>
-----------------------------------------------------------------------------
\* A name whose entries are being freed.
Leaving == IF wpc = "delete" THEN {<<wop.dir, slots[wop.dir][wop.to].name>>} ELSE {}

\* find_entry() by the other task.
Lookup(d, n) ==
    /\ rpc = "idle" /\ d \in Opened /\ rpc' = "scan"
    /\ rop' = [NoLookup EXCEPT !.dir = d, !.name = n, !.pos = 1]
    /\ steady' = live /\ ever' = live \cup Leaving
    /\ UNCHANGED <<slots, wpc, wop, live, panicked>>

\* FatDir::next_dirent reads one entry; find_entry compares a name that is complete.
ScanSlot ==
    LET s == slots[rop.dir][rop.pos]
        b == IF s.kind = "lfn" THEN Process(rop, s) ELSE [idx |-> 0, lfn |-> None]
        hit == s.kind = "sfn" /\ rop.idx = 1 /\ rop.lfn = s.name /\ s.name = rop.name
        over == hit \/ s.kind = "end" \/ rop.pos = NSlots
    IN  /\ rpc = "scan"
        /\ rpc' = IF over THEN "done" ELSE "scan"
        /\ rop' = [rop EXCEPT !.pos = @ + 1, !.idx = b.idx, !.lfn = b.lfn, !.found = hit]
        /\ UNCHANGED <<slots, wpc, wop, live, steady, ever, panicked>>

LookupEnd ==
    /\ rpc = "done" /\ rpc' = "idle" /\ rop' = NoLookup /\ steady' = {} /\ ever' = {}
    /\ UNCHANGED <<slots, wpc, wop, live, panicked>>

Next ==
    \/ \E d \in Dirs, n \in Names : CreateFile(d, n) \/ RemoveEntry(d, n) \/ Lookup(d, n)
    \/ \E n \in Names, d \in SubDirs : CreateDir(n, d)
    \/ \E d, e \in Dirs, n, m \in Names : Rename(d, n, e, m)
    \/ WriteSlot \/ WriteNext \/ DeleteSlot \/ ScanSlot \/ LookupEnd

Spec == Init /\ [][Next]_fdvars
-----------------------------------------------------------------------------
\* A directory lists what was put into it: between two changes the names it holds are
\* those created or renamed to and not removed, each of them once.
DirSound ==
    wpc = "idle" => \A d \in Dirs, n \in Names :
        Cardinality(Find(d, n)) = IF <<d, n>> \in live THEN 1 ELSE 0

\* A lookup that runs while entries around it are written and freed is right: it finds a
\* name that was there all the time, and none that was not there at any time.
LookupSound ==
    rpc = "done" =>
        /\ <<rop.dir, rop.name>> \in steady => rop.found
        /\ rop.found => <<rop.dir, rop.name>> \in ever

\* to_dir() is called on directories: its assertion holds.
NoPanic == ~panicked
=============================================================================
