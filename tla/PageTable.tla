----------------------------- MODULE PageTable -----------------------------
(***************************************************************************)
(* The Sv39 page tables (mizu/lib/paging/src/entry.rs and level.rs): three *)
(* levels of tables whose pages come from an allocator, walked, filled and *)
(* emptied by page ranges.  An entry is unset, a leaf or a table.          *)
(* Addresses are page numbers.  `flat` is the reference: what each page    *)
(* was last mapped to.                                                     *)
(***************************************************************************)
EXTENDS Integers, FiniteSetsExt

CONSTANTS NR_ENTRIES,   \* entries of a table
          Frames,       \* bound: pages the allocator has
          MaxPages,     \* bound: pages of one call
          Attrs,
          Cases         \* "partial": unmap() of a range that ends inside an entry of the root;
                        \* "hole": reprotect() of pages that are not mapped

VARIABLES root, used,   \* the root table; pages taken from the allocator
          flat

ptvars == <<root, used, flat>>

MAX == 2    \* Level::max()
Pages == 0..(NR_ENTRIES ^ 3 - 1)
Slots == 0..(NR_ENTRIES - 1)
Unset == [kind |-> "unset"]
Leaf(pa, attr) == [kind |-> "leaf", pa |-> pa, attr |-> attr]
Table(t) == [kind |-> "table", sub |-> t]
EmptyTable == [i \in Slots |-> Unset]

\* Level::page_size and addr_idx
PageSize(level) == NR_ENTRIES ^ level
Idx(level, la) == (la \div PageSize(level)) % NR_ENTRIES
EndIdxPlain(level, la) == Idx(level, la)    \* mutant: the end of the last entry is 0
EndIdx(level, la) == IF Idx(level, la) = 0 THEN NR_ENTRIES ELSE Idx(level, la)

Init == root = EmptyTable /\ used = 0 /\ flat = [p \in Pages |-> Unset]
-----------------------------------------------------------------------------
\* la2pte(): the entry of a page at level 0, Unset where a table is missing.
RECURSIVE La2Pte(_, _, _)
La2Pte(t, level, la) ==
    LET e == t[Idx(level, la)]
    IN  IF level = 0 THEN e ELSE IF e.kind = "table" THEN La2Pte(e.sub, level - 1, la) ELSE Unset
HasPte(t, la) ==
    LET e == t[Idx(2, la)] IN e.kind = "table" /\ e.sub[Idx(1, la)].kind = "table"

RECURSIVE SetPte(_, _, _, _)
SetPte(t, level, la, e) ==
    LET i == Idx(level, la)
    IN  [t EXCEPT ![i] = IF level = 0 THEN e ELSE Table(SetPte(@.sub, level - 1, la, e))]

\* Entry::table_or_create(), with `free` pages left to take.
TableOrCreate(e, free) ==
    CASE e.kind = "leaf" -> [res |-> "existent", took |-> 0]
      [] e.kind = "table" -> [res |-> "ok", took |-> 0, sub |-> e.sub]
      [] OTHER -> IF free = 0 THEN [res |-> "oom", took |-> 0]
                  ELSE [res |-> "ok", took |-> 1, sub |-> EmptyTable]

\* la2pte_alloc()
RECURSIVE La2PteAlloc(_, _, _, _)
La2PteAlloc(t, level, la, free) ==
    LET i == Idx(level, la)
        c == TableOrCreate(t[i], free)
        below == La2PteAlloc(c.sub, level - 1, la, free - c.took)
    IN  IF level = 0 THEN [t |-> t, took |-> 0, res |-> "ok"]
        ELSE IF c.res # "ok" THEN [t |-> t, took |-> 0, res |-> c.res]
        ELSE [t |-> [t EXCEPT ![i] = Table(below.t)], took |-> c.took + below.took,
              res |-> below.res]

\* Entry::destroy with unmap_impl() as its drop function: what is left of the entry,
\* the pages given back, and whether the entry is empty.
Destroy(e, sub) ==
    IF e.kind # "table" THEN [e |-> Unset, gave |-> 0, empty |-> TRUE]
    ELSE IF sub.empty THEN [e |-> Unset, gave |-> sub.gave + 1, empty |-> TRUE]
    ELSE [e |-> Table(sub.t), gave |-> sub.gave, empty |-> FALSE]

LeastOf(a, b) == IF a < b THEN a ELSE b
Indices(level, start, end, base) ==
    LET first == Idx(level, IF start > base THEN start ELSE base)
        last == EndIdx(level, LeastOf(end, base + PageSize(level) * NR_ENTRIES))
    IN  first..(last - 1)
RECURSIVE UnmapImpl(_, _, _, _, _)
UnmapImpl(t, level, start, end, base) ==
    LET Sub(i) == IF t[i].kind # "table" THEN [t |-> EmptyTable, gave |-> 0, empty |-> TRUE]
                  ELSE UnmapImpl(t[i].sub, level - 1, start, end, base + i * PageSize(level))
        r == [i \in Slots |->
                IF i \in Indices(level, start, end, base) THEN Destroy(t[i], Sub(i))
                ELSE [e |-> t[i], gave |-> 0, empty |-> t[i].kind = "unset"]]
    IN  [t |-> [i \in Slots |-> r[i].e],
         gave |-> FoldSet(LAMBDA i, n : r[i].gave + n, 0, Slots),
         empty |-> \A i \in Slots : r[i].empty]

Unmap(start, end) ==
    LET r == UnmapImpl(root, MAX, start, end, 0)
    IN  /\ "partial" \in Cases \/ end % PageSize(MAX) = 0
        /\ root' = r.t /\ used' = used - r.gave
        /\ flat' = [p \in Pages |-> IF p \in start..(end - 1) THEN Unset ELSE flat[p]]

\* mappages(): page by page.  A page that is mapped stops it and the pages before it
\* stay; a table that cannot be made undoes it.
RECURSIVE MapFrom(_, _, _, _, _, _)
MapFrom(t, n, la, end, d, attr) ==
    LET w == La2PteAlloc(t, MAX, la, Frames - n)
    IN  IF la = end THEN [t |-> t, used |-> n, res |-> "ok", last |-> end]
        ELSE IF w.res # "ok" THEN [t |-> w.t, used |-> n + w.took, res |-> w.res, last |-> la]
        ELSE IF La2Pte(w.t, MAX, la).kind # "unset"
        THEN [t |-> w.t, used |-> n + w.took, res |-> "mapped", last |-> la]
        ELSE MapFrom(SetPte(w.t, MAX, la, Leaf(la + d, attr)), n + w.took, la + 1, end, d, attr)
MapPages(la, d, attr, n) ==
    LET r == MapFrom(root, used, la, la + n, d, attr)
        u == UnmapImpl(r.t, MAX, la, r.last + 1, 0)
    IN  IF r.res \in {"ok", "mapped"}
        THEN /\ root' = r.t /\ used' = r.used
             /\ flat' = [p \in Pages |-> IF p \in la..(r.last - 1) THEN Leaf(p + d, attr) ELSE flat[p]]
        ELSE /\ "partial" \in Cases \/ (r.last + 1) % PageSize(MAX) = 0
             /\ root' = u.t /\ used' = r.used - u.gave
             /\ flat' = [p \in Pages |-> IF p \in la..r.last THEN Unset ELSE flat[p]]

\* reprotect(): the frame stays, and the entry is valid afterwards whatever it was.
RECURSIVE ReprotectFrom(_, _, _, _)
ReprotectFrom(t, la, end, attr) ==
    LET e == La2Pte(t, MAX, la)
        pa == IF e.kind = "leaf" THEN e.pa ELSE 0
    IN  IF la = end \/ ~HasPte(t, la) THEN [t |-> t, last |-> la]
        ELSE ReprotectFrom(SetPte(t, MAX, la, Leaf(pa, attr)), la + 1, end, attr)
Reprotect(la, n, attr) ==
    LET r == ReprotectFrom(root, la, la + n, attr)
    IN  /\ "hole" \in Cases \/ \A p \in la..(la + n - 1) : flat[p] # Unset
        /\ root' = r.t /\ UNCHANGED used
        /\ flat' = [p \in Pages |-> IF p \in la..(r.last - 1) /\ flat[p] # Unset
                                    THEN Leaf(flat[p].pa, attr) ELSE flat[p]]
-----------------------------------------------------------------------------
Ranges == {r \in Pages \X (1..MaxPages) : r[1] + r[2] <= NR_ENTRIES ^ 3}
Next ==
    \/ \E r \in Ranges, a \in Attrs : MapPages(r[1], 100, a, r[2])
    \/ \E r \in Ranges, a \in Attrs : Reprotect(r[1], r[2], a)
    \/ \E s, e \in 0..(NR_ENTRIES ^ 3) : s < e /\ Unmap(s, e)
Spec == Init /\ [][Next]_ptvars
-----------------------------------------------------------------------------
(* PROPERTIES *)

\* A walk finds for every page what it was last mapped to: an operation on a range
\* changes the pages of the range and no page of a neighbouring table.
WalkExact == \A p \in Pages : La2Pte(root, MAX, p) = flat[p]

RECURSIVE Nodes(_)
Nodes(t) ==
    FoldSet(LAMBDA i, n : n + (IF t[i].kind = "table" THEN 1 + Nodes(t[i].sub) ELSE 0), 0, Slots)
RECURSIVE NoEmpty(_)
NoEmpty(t) ==
    \A i \in Slots : t[i].kind = "table" =>
        (\E j \in Slots : t[i].sub[j] # Unset) /\ NoEmpty(t[i].sub)

\* The pages taken from the allocator are the tables that are reachable, and none of
\* these is empty: unmap() gives every table back that it emptied, on every level.
NoTableLost == used = Nodes(root) /\ NoEmpty(root)

\* A page that was unmapped, and not mapped again, has no entry: the test beside the
\* code asserts it of the first page of a range it unmapped.
UnmappedGone == \A p \in Pages : flat[p] = Unset => La2Pte(root, MAX, p) = Unset
=============================================================================
