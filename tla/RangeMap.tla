------------------------------ MODULE RangeMap ------------------------------
(***************************************************************************)
(* The operations of range-map (mizu/lib/range-map/src/lib.rs) on a map    *)
(* from start to [end, value], a BTreeMap in the code.  Root is the range  *)
(* of the map; a range is a record [start, end], empty when they are equal.*)
(* The properties compare the operations with what an address means to the *)
(* users of a map: an entry that covers it, or none.                       *)
(***************************************************************************)
EXTENDS Integers, FiniteSets, FiniteSetsExt, Sequences, SequencesExt, Functions

CONSTANTS Root,    \* RangeMap::range
          Align,   \* AslrKey: layout.align()
          Values,
          Entropy  \* bound: the random numbers

VARIABLE rmap      \* RangeMap::map

Empty == [s \in {} |-> 0]
Upto(map, k) == {s \in DOMAIN map : s < k}    \* map.range(..k)
From(map, k) == {s \in DOMAIN map : s >= k}   \* map.range(k..)
Insert(map, s, e, v) == [t \in DOMAIN map \cup {s} |-> IF t = s THEN [end |-> e, value |-> v] ELSE map[t]]
Without(map, S) == Restrict(map, DOMAIN map \ S)

FitsFirst(map, r) ==    \* mutant: only an entry with the same start is in the way
    /\ r.start < r.end /\ Root.start <= r.start /\ r.end <= Root.end
    /\ r.start \notin DOMAIN map

\* The guard of try_insert() and try_entry(): the last entry that starts before the
\* end of the range must not reach into it.
Fits(map, r) ==
    /\ r.start < r.end /\ Root.start <= r.start /\ r.end <= Root.end
    /\ LET prev == Upto(map, r.end)
       IN  prev # {} => map[Max(prev)].end <= r.start

\* range(), range_mut(): from the start on, as long as the entries end in the range.
Within(map, r) ==
    {s \in From(map, r.start) : \A t \in From(map, r.start) : t <= s => map[t].end <= r.end}

\* intersection(), intersection_mut(), intersects(): from the end back, as long as
\* the entries end after the start.
Intersection(map, r) ==
    {s \in Upto(map, r.end) : \A t \in Upto(map, r.end) : t >= s => r.start < map[t].end}

\* drain(): what is split off at both ends, without a last entry that ends later.
Drain(map, r) ==
    LET ret == {s \in From(map, r.start) : s < r.end}
    IN  {s \in ret : s # Max(ret) \/ map[s].end <= r.end}

\* split_entry(): the entry strictly around the key, {} for None.
SplitEntry(map, k) ==
    LET before == Upto(map, k)
    IN  IF before # {} /\ k < map[Max(before)].end THEN {Max(before)} ELSE {}

\* SplitEntry::drop: the halves that were set are put in the place of the entry s;
\* a half is a value or {} for None.
SetHalves(map, s, k, former, latter) ==
    LET rest == Without(map, {s})
        first == IF former = {} THEN rest
                 ELSE Insert(rest, s, k, CHOOSE v \in former : TRUE)
    IN  IF latter = {} THEN first
        ELSE Insert(first, k, map[s].end, CHOOSE v \in latter : TRUE)
-----------------------------------------------------------------------------
\* find_gap(): the gaps in their order, the empty ones left out.
Gaps(map) ==
    LET starts == [i \in 1..Cardinality(DOMAIN map) |->
                     CHOOSE s \in DOMAIN map : Cardinality(Upto(map, s)) = i - 1]
        ends   == [i \in DOMAIN starts |-> map[starts[i]].end]
        all    == [i \in 1..Len(starts) + 1 |->
                     [start |-> IF i = 1 THEN Root.start ELSE ends[i - 1],
                      end   |-> IF i > Len(starts) THEN Root.end ELSE starts[i]]]
    IN  SelectSeq(all, LAMBDA g : g.start < g.end)

RoundUp(k) == ((k + Align - 1) \div Align) * Align
RoundDown(k) == (k \div Align) * Align

\* AslrKey::find_key_usize on one gap of a round.
FindKey(size, acc, gap) ==
    LET base == RoundUp(gap.start)
        end  == RoundDown(gap.end)
        nr_positions == ((end - base - size) \div Align) + 1
    IN  IF acc.found # {} \/ size > end - base THEN acc
        ELSE IF acc.entropy < nr_positions
             THEN [acc EXCEPT !.found = {base + acc.entropy * Align}]
             ELSE [acc EXCEPT !.entropy = @ - nr_positions, !.count = @ + nr_positions]

Round(map, size, entropy) ==
    FoldLeft(LAMBDA acc, gap : FindKey(size, acc, gap),
             [found |-> {}, entropy |-> entropy, count |-> 0], Gaps(map))

\* find_free_with_aslr(), allocate_with_aslr(): a first round with the key's entropy,
\* a second one within the positions the first one counted.  {} for None.
FindFree(map, size, entropy, random) ==
    LET first == Round(map, size, entropy)
    IN  IF first.found # {} \/ first.count = 0 THEN first.found
        ELSE Round(map, size, random % first.count).found
-----------------------------------------------------------------------------
Ranges == {r \in [start : 0..Root.end + 1, end : 0..Root.end + 1] : r.start <= r.end}
Addresses == Root.start..Root.end - 1

Init == rmap = Empty

TryInsert(r, v) == rmap' = IF Fits(rmap, r) THEN Insert(rmap, r.start, r.end, v) ELSE rmap

\* allocate_with_aslr() and Entry::insert; find_free_with_aslr() is its first half.
Allocate(size, v) ==
    \E e, random \in 0..Entropy :
        \E start \in FindFree(rmap, size, e, random) :
            rmap' = Insert(rmap, start, start + size, v)

RemoveEntry(s) == s \in DOMAIN rmap /\ rmap' = Without(rmap, {s})

DrainEntries(r) == rmap' = Without(rmap, Drain(rmap, r))

\* split_entry() and the drop() of what it returns; keep says which halves are set.
Split(k, keep) ==
    \E s \in SplitEntry(rmap, k) :
        LET half(h) == IF h \in keep THEN {rmap[s].value} ELSE {}
        IN  rmap' = SetHalves(rmap, s, k, half("former"), half("latter"))

Next ==
    \/ \E r \in Ranges : DrainEntries(r) \/ \E v \in Values : TryInsert(r, v)
    \/ \E size \in {Align, 2 * Align}, v \in Values : Allocate(size, v)
    \/ \E k \in Addresses : RemoveEntry(k) \/ \E keep \in SUBSET {"former", "latter"} : Split(k, keep)

Spec == Init /\ [][Next]_rmap
-----------------------------------------------------------------------------
Covering(a) == {s \in DOMAIN rmap : s <= a /\ a < rmap[s].end}
Cut(r) == {a \in Addresses : r.start <= a /\ a < r.end}
Free(A) == \A a \in A : Covering(a) = {}

\* The entries are ranges inside the root, and no two of them overlap: after any
\* sequence of operations every address belongs to one entry at most.
Disjoint ==
    /\ \A s \in DOMAIN rmap : Root.start <= s /\ s < rmap[s].end /\ rmap[s].end <= Root.end
    /\ \A a \in Addresses : Cardinality(Covering(a)) <= 1

\* try_insert() takes a range exactly when it is a range of the root in which every
\* address is free, although it looks at one entry only.
InsertExact ==
    \A r \in Ranges : Fits(rmap, r) <=>
        r.start < r.end /\ Root.start <= r.start /\ r.end <= Root.end /\ Free(Cut(r))

\* The iterators, which stop at the first entry that does not qualify, miss none and
\* yield no other: intersection() the entries that share an address with the range,
\* range() those that lie in it; drain() takes out the same as range() would.
LookExact ==
    \A r \in {q \in Ranges : q.start < q.end} :
        LET inside == {s \in DOMAIN rmap : r.start <= s /\ rmap[s].end <= r.end}
        IN  /\ Intersection(rmap, r) = UNION {Covering(a) : a \in Cut(r)}
            /\ Within(rmap, r) = inside
            /\ Drain(rmap, r) = inside

\* A split is found exactly when an entry spans the key, and putting back both halves
\* changes the value of no address.
SplitExact ==
    \A k \in Addresses :
        LET s == SplitEntry(rmap, k)
        IN  /\ s = {t \in Covering(k) : t # k}
            /\ \A t \in s :
                 LET v == {rmap[t].value}
                     halves == SetHalves(rmap, t, k, v, v)
                 IN  \A a \in Addresses :
                        {halves[u].value : u \in {w \in DOMAIN halves : w <= a /\ a < halves[w].end}}
                            = {rmap[u].value : u \in Covering(a)}

\* The address space layout randomisation finds a place whenever there is one, and
\* what it finds is aligned, inside the root and free, for every random number.
AllocateExact ==
    \A size \in {Align, 2 * Align} :
        LET places == {b \in Addresses : b % Align = 0 /\ b + size <= Root.end /\ Free(b..b + size - 1)}
        IN  \A e, random \in 0..Entropy :
               LET found == FindFree(rmap, size, e, random)
               IN  found \subseteq places /\ (found = {} <=> places = {})
=============================================================================
