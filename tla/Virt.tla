-------------------------------- MODULE Virt --------------------------------
(***************************************************************************)
(* An address space (mizu/lib/kmem/src/virt.rs and virt/tlb.rs): the map   *)
(* of the mappings, the page table, and the TLBs of the harts that have it *)
(* loaded.  The operations hold the map's write lock and the table's lock, *)
(* so there is one at a time; the harts walk the table meanwhile.  Every   *)
(* entry that is reset is preceded by an await, so a step is one page.     *)
(* A frame is named by the Phys it comes from and its index (Phys itself   *)
(* is modelled in Phys.tla); it lives as long as a mapping refers to it.   *)
(***************************************************************************)
EXTENDS Naturals, FiniteSets, FiniteSetsExt, Sequences, SequencesExt

CONSTANTS NPages,     \* the pages of the space
          LeafPages,  \* pages per leaf table
          NPhys,      \* bound: the Phys objects mapped at a time
          Offsets,    \* the first indices of new mappings
          Attrs,      \* the attributes, sets of "R" and "W"
          Harts,
          NoEntry,
          Cases       \* what may happen besides: "inside_end", a range that ends inside an
                      \* entry; "flush_fails" while an entry is taken out of the map;
                      \* "late_load", a hart loads the space during an operation

Pages == 0..NPages - 1
Root == [start |-> 0, end |-> NPages]

VARIABLES vmap,     \* Virt::map, from start to [end, value |-> Mapping]
          pte,      \* the leaf entries: a Mapping's frame and attributes, or NoEntry
          leaves,   \* the leaf tables that are allocated
          cpu_mask, \* Virt::cpu_mask
          tlb,      \* per hart: the entries it may have cached
          job,      \* the operation that holds the locks
          guard     \* the VirtCommitGuard alive: its attribute and pages

RM == INSTANCE RangeMap WITH rmap <- vmap, Align <- 1, Values <- {}, Entropy <- 0
vtvars == <<vmap, pte, leaves, cpu_mask, tlb, job, guard>>

NoJob == [op |-> "none", todo |-> <<>>]
NoGuard == [attr |-> {}, pages |-> {}, held |-> FALSE]
Ranges == {r \in [start : Pages, end : 1..NPages] : r.start < r.end}

Init ==
    /\ vmap = RM!Empty /\ leaves = {}
    /\ pte = [p \in Pages |-> NoEntry]
    /\ cpu_mask = {} /\ tlb = [h \in Harts |-> [p \in Pages |-> NoEntry]]
    /\ job = NoJob /\ guard = NoGuard

Leaf(p) == p \div LeafPages
Entry(m, i) == [phys |-> m.phys, index |-> m.start_index + i, attr |-> m.attr]

\* map.write().await: no other operation and no commit guard holds the lock.
Free == job = NoJob /\ ~guard.held
-----------------------------------------------------------------------------
(* The TLB: a hart that has the space loaded may cache any entry at any time. *)
\* set_virt(): the mask, then satp and a full fence; unset_virt() and the switch to
\* another space: satp and a full fence, then the mask.
Load(h) ==
    /\ h \notin cpu_mask /\ ("late_load" \in Cases \/ job = NoJob)
    /\ cpu_mask' = cpu_mask \cup {h}
    /\ UNCHANGED <<vmap, pte, leaves, tlb, job, guard>>


Unload(h) ==
    /\ h \in cpu_mask /\ cpu_mask' = cpu_mask \ {h}
    /\ tlb' = [tlb EXCEPT ![h] = [p \in Pages |-> NoEntry]]
    /\ UNCHANGED <<vmap, pte, leaves, job, guard>>

Walk(h, p) ==
    /\ h \in cpu_mask /\ pte[p] # NoEntry
    /\ tlb' = [tlb EXCEPT ![h][p] = pte[p]]
    /\ UNCHANGED <<vmap, pte, leaves, cpu_mask, job, guard>>

\* tlb::flush: the harts of the mask forget count pages from addr on.
Flushed(mask, addr, count) ==
    [h \in Harts |-> [p \in Pages |->
        IF h \in mask /\ addr <= p /\ p < addr + count THEN NoEntry ELSE tlb[h][p]]]
-----------------------------------------------------------------------------
(* Mapping::decommit, the part of every operation that takes pages away.   *)
(* A piece of work is [at, count, held, done]: the pages, the map while it *)
(* runs (what is left if it fails) and the map after it.                   *)
Work(at, count, held, done) == [at |-> at, count |-> count, held |-> held, done |-> done]

Start(op, todo) ==
    job' = [op |-> op, todo |-> todo, c |-> 0, mask |-> {}, from |-> 0, n |-> 0, on |-> FALSE]

DecommitStart ==
    /\ job.todo # <<>> /\ ~job.on
    /\ job' = [job EXCEPT !.on = TRUE, !.c = 0, !.mask = cpu_mask,
                          !.from = Head(job.todo).at, !.n = 0]
    /\ vmap' = Head(job.todo).held
    /\ UNCHANGED <<pte, leaves, cpu_mask, tlb, guard>>

\* One page: phys.flush(..).await?, then the entry is reset.  Where there is no
\* table the flush so far is done and another one begun behind the page.
DecommitPage ==
    /\ job.todo # <<>> /\ job.on /\ job.c < Head(job.todo).count
    /\ LET p == Head(job.todo).at + job.c
       IN  \/ /\ p \in Pages /\ Leaf(p) \in leaves
              /\ pte' = [pte EXCEPT ![p] = NoEntry]
              /\ job' = [job EXCEPT !.c = @ + 1, !.n = @ + 1]
              /\ UNCHANGED tlb
           \/ /\ ~(p \in Pages /\ Leaf(p) \in leaves)
              /\ tlb' = Flushed(job.mask, job.from, job.n)
              /\ job' = [job EXCEPT !.c = @ + 1, !.from = p + 1, !.n = 0]
              /\ UNCHANGED pte
           \/ /\ job.op \in {"decommit", "fork"} \/ "flush_fails" \in Cases
              /\ p \in Pages /\ Leaf(p) \in leaves
              /\ tlb' = Flushed(job.mask, job.from, job.n)
              /\ job' = NoJob /\ UNCHANGED pte
    /\ UNCHANGED <<vmap, leaves, cpu_mask, guard>>

\* TlbFlushOnDrop, then the operation goes on with the map.
DecommitEnd ==
    /\ job.todo # <<>> /\ job.on /\ job.c = Head(job.todo).count
    /\ tlb' = Flushed(job.mask, job.from, job.n)
    /\ vmap' = Head(job.todo).done
    /\ job' = [job EXCEPT !.todo = Tail(@), !.on = FALSE]
    /\ UNCHANGED <<pte, leaves, cpu_mask, guard>>

Finish ==
    /\ job.op # "none" /\ job.todo = <<>> /\ job' = NoJob
    /\ UNCHANGED <<vmap, pte, leaves, cpu_mask, tlb, guard>>
-----------------------------------------------------------------------------
(* The operations.                                                         *)
\* Virt::map, at an address or where find_free_with_aslr() finds room.
Map(r, m) ==
    /\ Free /\ RM!Fits(vmap, r)
    /\ vmap' = RM!Insert(vmap, r.start, r.end, m)
    /\ UNCHANGED <<pte, leaves, cpu_mask, tlb, job, guard>>

\* Virt::commit, the page fault: one page, EFAULT without a mapping, EPERM if the
\* mapping does not allow the access; phys.commit may fail.
Commit(p, expect) ==
    /\ Free /\ RM!Intersection(vmap, [start |-> p, end |-> p + 1]) # {}
    /\ LET s == Max(RM!Intersection(vmap, [start |-> p, end |-> p + 1]))
       IN  /\ expect \subseteq vmap[s].value.attr
           /\ \/ pte' = [pte EXCEPT ![p] = IF @ = NoEntry THEN Entry(vmap[s].value, p - s) ELSE @]
              \/ UNCHANGED pte
           /\ leaves' = leaves \cup {Leaf(p)}
    /\ UNCHANGED <<vmap, cpu_mask, tlb, job, guard>>

\* start_commit() and the first push(); drop of the guard.  The mappings of the range
\* are committed from the last to the first; a failure leaves the ones done so far,
\* and the guard without the range.
StartCommit(expect) ==
    /\ Free /\ guard' = [attr |-> expect, pages |-> {}, held |-> TRUE]
    /\ UNCHANGED <<vmap, pte, leaves, cpu_mask, tlb, job>>

Push(r) ==
    /\ guard.held
    /\ LET inter == RM!Intersection(vmap, r)
           mapped == {p \in Pages : r.start <= p /\ p < r.end /\ \E s \in inter : s <= p /\ p < vmap[s].end}
           Of(p) == Max({s \in inter : s <= p})
           Committed(done) == [p \in Pages |->
               IF p \in done /\ pte[p] = NoEntry THEN Entry(vmap[Of(p)].value, p - Of(p)) ELSE pte[p]]
       IN  IF \E s \in inter : ~(guard.attr \subseteq vmap[s].value.attr)
           THEN guard' = NoGuard /\ UNCHANGED <<pte, leaves>>
           ELSE \/ /\ pte' = Committed(mapped)
                   /\ guard' = [guard EXCEPT !.pages = @ \cup mapped]
                   /\ leaves' = leaves \cup {Leaf(p) : p \in mapped}
                \/ \E s \in inter, n \in Pages :
                     LET done == {p \in mapped : Of(p) > s \/ (Of(p) = s /\ p < s + n)}
                     IN  /\ pte' = Committed(done) /\ UNCHANGED guard
                         /\ leaves' = leaves \cup {Leaf(p) : p \in done}
    /\ UNCHANGED <<vmap, cpu_mask, tlb, job>>

GuardDrop ==
    /\ guard.held /\ guard' = NoGuard
    /\ UNCHANGED <<vmap, pte, leaves, cpu_mask, tlb, job>>

\* The order in which an operation goes through entries of the map.
Ordered(S) == [i \in 1..Cardinality(S) |-> CHOOSE s \in S : Cardinality({t \in S : t < s}) = i - 1]

DecommitRange(r) ==
    /\ Free
    /\ LET S == RM!Intersection(vmap, r)
           One(s) == LET from == Max({s, r.start})
                         to   == Min({vmap[s].end, r.end})
                     IN  Work(from, to - from, vmap, vmap)
       IN  Start("decommit", Reverse([i \in 1..Cardinality(S) |-> One(Ordered(S)[i])]))
    /\ UNCHANGED <<vmap, pte, leaves, cpu_mask, tlb, guard>>

\* The two splits at the ends of a range; map is the map that is left by the work on
\* the entries inside.  Keep(m, n) makes the value of the half that stays, Cut(m, n)
\* the one of the half in the range, {} when it goes.
SplitStart(map, r, Cut(_, _)) ==
    [work |-> [s \in RM!SplitEntry(map, r.start) |->
        LET m == map[s].value
        IN  Work(r.start, map[s].end - r.start, RM!Without(map, {s}),
                 RM!SetHalves(map, s, r.start, {m}, Cut(m, r.start - s)))]]

\* The code decommits from the end of the range on, as many pages as are before it.
SplitEnd(map, r, Cut(_, _)) ==
    [work |-> [s \in RM!SplitEntry(map, r.end) |->
        LET m == map[s].value
            count == r.end - s
        IN  Work(r.end, count, RM!Without(map, {s}),
                 RM!SetHalves(map, s, r.end, Cut(m, 0), {[m EXCEPT !.start_index = @ + count]}))]]

\* Both splits in their order, as a sequence of pieces of work.
Splits(map, r, Cut(_, _)) ==
    LET first == SplitStart(map, r, Cut).work
        one == IF DOMAIN first = {} THEN <<>> ELSE <<first[Max(DOMAIN first)]>>
        after == IF one = <<>> THEN map ELSE one[1].done
        second == SplitEnd(after, r, Cut).work
    IN  one \o (IF DOMAIN second = {} THEN <<>> ELSE <<second[Max(DOMAIN second)]>>)

RangeAllowed(r) == "inside_end" \in Cases \/ RM!SplitEntry(vmap, r.end) = {}

SetAttr(map, S, attr) == [s \in DOMAIN map |-> IF s \in S THEN [map[s] EXCEPT !.value.attr = attr] ELSE map[s]]

\* Virt::reprotect: the entries inside get the attribute once they are decommitted.
Reprotect(r, attr) ==
    /\ Free /\ RangeAllowed(r)
    /\ LET S == Ordered(RM!Within(vmap, r))
           After(i) == SetAttr(vmap, {S[j] : j \in 1..i}, attr)
           inside == [i \in DOMAIN S |-> Work(S[i], vmap[S[i]].end - S[i], After(i - 1), After(i))]
           cut(m, n) == {[m EXCEPT !.start_index = @ + n, !.attr = attr]}
       IN  Start("reprotect", inside \o Splits(After(Len(S)), r, cut))
    /\ UNCHANGED <<vmap, pte, leaves, cpu_mask, tlb, guard>>

\* Virt::unmap: drain() takes the entries inside out at once.
Unmap(r) ==
    /\ Free /\ RangeAllowed(r)
    /\ LET S == Ordered(RM!Drain(vmap, r))
           rest == RM!Without(vmap, RM!Drain(vmap, r))
           inside == [i \in DOMAIN S |-> Work(S[i], vmap[S[i]].end - S[i], rest, rest)]
           cut(m, n) == {}
       IN  Start("unmap", inside \o Splits(rest, r, cut))
    /\ UNCHANGED <<vmap, pte, leaves, cpu_mask, tlb, guard>>

\* Virt::clear, and drop: the whole table goes, then one flush.
Clear ==
    /\ Free /\ vmap' = RM!Empty /\ leaves' = {}
    /\ pte' = [p \in Pages |-> NoEntry]
    /\ tlb' = Flushed(cpu_mask, 0, NPages)
    /\ UNCHANGED <<cpu_mask, job, guard>>

\* Virt::deep_fork: what is writable is decommitted before it is shared.
DeepFork ==
    /\ Free
    /\ LET S == Ordered({s \in DOMAIN vmap : "W" \in vmap[s].value.attr})
       IN  Start("fork", [i \in DOMAIN S |-> Work(S[i], vmap[S[i]].end - S[i], vmap, vmap)])
    /\ UNCHANGED <<vmap, pte, leaves, cpu_mask, tlb, guard>>

InUse == {vmap[s].value.phys : s \in DOMAIN vmap}

Next ==
    \/ \E r \in Ranges, attr \in Attrs : Reprotect(r, attr)
    \/ \E r \in Ranges, attr \in Attrs, i \in Offsets :
          /\ 1..NPhys # InUse
          /\ Map(r, [phys |-> Min(1..NPhys \ InUse), start_index |-> i, attr |-> attr])
    \/ \E p \in Pages, attr \in Attrs : Commit(p, attr)
    \/ \E attr \in Attrs : StartCommit(attr)
    \/ \E r \in Ranges : Push(r) \/ DecommitRange(r) \/ Unmap(r)
    \/ Clear \/ DeepFork \/ GuardDrop
    \/ DecommitStart \/ DecommitPage \/ DecommitEnd \/ Finish
    \/ \E h \in Harts : Load(h) \/ Unload(h) \/ \E p \in Pages : Walk(h, p)

Spec == Init /\ [][Next]_vtvars
-----------------------------------------------------------------------------
\* The map stays a map of disjoint ranges of the space.
MapSound ==
    \A s \in DOMAIN vmap : /\ s < vmap[s].end /\ vmap[s].end <= NPages
                           /\ \A t \in DOMAIN vmap : t > s => vmap[s].end <= t

Mapped(p) == {s \in DOMAIN vmap : s <= p /\ p < vmap[s].end}

\* Between operations the page table says what the map says: an entry belongs to a
\* page that is mapped, and has the frame and the attributes of that mapping.  So
\* munmap() and mprotect() take effect, and no entry refers to a frame that is freed.
TableSound ==
    job = NoJob => \A p \in Pages : pte[p] # NoEntry =>
        \E s \in Mapped(p) : pte[p] = Entry(vmap[s].value, p - s)

\* Between operations no hart can use an entry that the table does not have.
TlbSound ==
    job = NoJob => \A h \in Harts, p \in Pages : tlb[h][p] \in {NoEntry, pte[p]}

\* As long as the guard lives, every mapped page the kernel was given through it is
\* there, with the access it was asked for.
GuardSound == \A p \in guard.pages : pte[p] # NoEntry /\ guard.attr \subseteq pte[p].attr

\* When an address space has been forked, neither the table nor a TLB lets the parent
\* write to a page it now shares.
ForkReadOnly ==
    job.op = "fork" /\ job.todo = <<>> =>
        \A p \in Pages : /\ pte[p] # NoEntry => "W" \notin pte[p].attr
                         /\ \A h \in Harts : tlb[h][p] # NoEntry => "W" \notin tlb[h][p].attr

\* The contract of Arena::deallocate, to whom the frames of a Phys return with its
\* last mapping: a page that is deallocated is no longer used, by any entry.
FreedUnused ==
    job = NoJob => \A p \in Pages : pte[p] # NoEntry => pte[p].phys \in InUse
=============================================================================
