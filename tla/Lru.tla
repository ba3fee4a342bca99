--------------------------------- MODULE Lru ---------------------------------
(***************************************************************************)
(* The cache of kmem (mizu/lib/kmem/src/lru.rs, the frames of a Phys): a   *)
(* hash map from keys to nodes and a doubly linked list of the nodes       *)
(* between two sigils, with raw pointers.                                  *)
(***************************************************************************)
EXTENDS Naturals, FiniteSets, Sequences, FiniteSetsExt

CONSTANTS Keys, Vals,
          Caps,     \* the capacities
          NNodes    \* bound: nodes allocated at a time

Nodes == 1..NNodes
head == 0
tail == NNodes + 1
Cells == head..tail

VARIABLES lmap,          \* LruCache::map
          lcap,          \* LruCache::cap
          nkey, nval,    \* LruEntry: key, val
          prev, next,    \* LruEntry: the pointers
          alive,         \* the nodes that are allocated
          iter           \* an iterator, [len, ptr, end]

lrvars == <<lmap, lcap, nkey, nval, prev, next, alive, iter>>

NoIter == [len |-> 0, ptr |-> head, end |-> head]

\* construct()
Init ==
    /\ lmap = [k \in {} |-> 0] /\ lcap \in Caps
    /\ nkey = [n \in Nodes |-> CHOOSE k \in Keys : TRUE]
    /\ nval = [n \in Nodes |-> CHOOSE v \in Vals : TRUE]
    /\ prev = [n \in Cells |-> head] /\ next = [n \in Cells |-> tail]
    /\ alive = {} /\ iter = NoIter

\* The pointers of a list are a record [prev, next].
List == [prev |-> prev, next |-> next]

DetachOneWay(l, n) ==    \* mutant: the pointer back is not updated
    [l EXCEPT !.next = [@ EXCEPT ![l.prev[n]] = l.next[n]]]

Detach(l, n) ==
    [prev |-> [l.prev EXCEPT ![l.next[n]] = l.prev[n]],
     next |-> [l.next EXCEPT ![l.prev[n]] = l.next[n]]]

\* attach(): the four assignments in their order.
Attach(l, n) ==
    LET first == l.next[head]
    IN  [prev |-> [[l.prev EXCEPT ![n] = head] EXCEPT ![first] = n],
         next |-> [[l.next EXCEPT ![n] = first] EXCEPT ![head] = n]]

AttachLast(l, n) ==
    LET last == l.prev[tail]
    IN  [prev |-> [[l.prev EXCEPT ![n] = last] EXCEPT ![tail] = n],
         next |-> [[l.next EXCEPT ![n] = tail] EXCEPT ![last] = n]]

SetList(l) == prev' = l.prev /\ next' = l.next

\* The memory of the freed nodes holds no state: it reads as at the start.
Freed(gone) ==
    /\ alive' = alive \ gone
    /\ nkey' = [n \in Nodes |-> IF n \in gone THEN CHOOSE k \in Keys : TRUE ELSE nkey[n]]
    /\ nval' = [n \in Nodes |-> IF n \in gone THEN CHOOSE v \in Vals : TRUE ELSE nval[n]]
Unlinked(l, gone) ==
    [prev |-> [n \in Cells |-> IF n \in gone THEN head ELSE l.prev[n]],
     next |-> [n \in Cells |-> IF n \in gone THEN tail ELSE l.next[n]]]
Full == Cardinality(DOMAIN lmap) = lcap
Bind(m, k, n) == [j \in DOMAIN m \cup {k} |-> IF j = k THEN n ELSE m[j]]
Unbind(m, k) == [j \in DOMAIN m \ {k} |-> m[j]]
Unborrowed == iter.len = 0    \* no iterator borrows the cache
-----------------------------------------------------------------------------
\* The hit of put(), push(), get(), get_mut(), get_or_insert(), get_or_insert_mut()
\* and promote(): v is the value after it.
Touch(k, v) ==
    /\ Unborrowed /\ k \in DOMAIN lmap
    /\ nval' = [nval EXCEPT ![lmap[k]] = v]
    /\ SetList(Attach(Detach(List, lmap[k]), lmap[k]))
    /\ UNCHANGED <<lmap, lcap, nkey, alive, iter>>

PutFullFirst(k, v) ==    \* mutant: the most recently used entry is evicted
    /\ Unborrowed /\ k \notin DOMAIN lmap /\ Full
    /\ LET n == next[head]
       IN  /\ nkey' = [nkey EXCEPT ![n] = k] /\ nval' = [nval EXCEPT ![n] = v]
           /\ lmap' = Bind(Unbind(lmap, nkey[n]), k, n)
           /\ SetList(Attach(Detach(List, n), n))
    /\ UNCHANGED <<lcap, alive, iter>>

\* The miss of put(), push() and get_or_insert(): replace_or_create_node() reuses the
\* last node of a full cache ...
PutFull(k, v) ==
    /\ Unborrowed /\ k \notin DOMAIN lmap /\ Full
    /\ LET n == prev[tail]
       IN  /\ nkey' = [nkey EXCEPT ![n] = k] /\ nval' = [nval EXCEPT ![n] = v]
           /\ lmap' = Bind(Unbind(lmap, nkey[n]), k, n)
           /\ SetList(Attach(Detach(List, n), n))
    /\ UNCHANGED <<lcap, alive, iter>>

\* ... or allocates one.
PutNew(k, v) ==
    /\ Unborrowed /\ k \notin DOMAIN lmap /\ ~Full
    /\ Nodes # alive
    /\ LET n == Min(Nodes \ alive)
       IN  /\ alive' = alive \cup {n}
           /\ nkey' = [nkey EXCEPT ![n] = k] /\ nval' = [nval EXCEPT ![n] = v]
           /\ lmap' = Bind(lmap, k, n)
           /\ SetList(Attach(List, n))
    /\ UNCHANGED <<lcap, iter>>

PeekMut(k, v) ==
    /\ Unborrowed /\ k \in DOMAIN lmap
    /\ nval' = [nval EXCEPT ![lmap[k]] = v]
    /\ UNCHANGED <<lmap, lcap, nkey, prev, next, alive, iter>>

DemoteKey(k) ==
    /\ Unborrowed /\ k \in DOMAIN lmap
    /\ SetList(AttachLast(Detach(List, lmap[k]), lmap[k]))
    /\ UNCHANGED <<lmap, lcap, nkey, nval, alive, iter>>

\* pop(), pop_entry(): the node is freed, its copy detached.
PopKey(k) ==
    /\ Unborrowed /\ k \in DOMAIN lmap
    /\ Freed({lmap[k]}) /\ SetList(Unlinked(Detach(List, lmap[k]), {lmap[k]}))
    /\ lmap' = Unbind(lmap, k)
    /\ UNCHANGED <<lcap, iter>>

\* pop_lru() and the remove_last() it calls.
PopLast ==
    /\ Unborrowed /\ prev[tail] # head
    /\ LET n == prev[tail]
       IN  /\ lmap' = Unbind(lmap, nkey[n])
           /\ Freed({n}) /\ SetList(Unlinked(Detach(List, n), {n}))
    /\ UNCHANGED <<lcap, iter>>

\* resize(): as many calls of pop_lru() as there are entries too many, in one step.
ResizeTo(c) ==
    /\ Unborrowed /\ c # lcap /\ lcap' = c
    /\ LET n == Cardinality(DOMAIN lmap)
           back[i \in 0..n] == IF i = 0 THEN tail ELSE prev[back[i - 1]]
           gone == {back[i] : i \in 1..(IF n > c THEN n - c ELSE 0)}
           last == IF n > c THEN back[n - c + 1] ELSE prev[tail]
       IN  /\ lmap' = [k \in {j \in DOMAIN lmap : lmap[j] \notin gone} |-> lmap[k]]
           /\ Freed(gone)
           /\ SetList(Unlinked([prev |-> [prev EXCEPT ![tail] = last],
                                next |-> [next EXCEPT ![last] = tail]], gone))
    /\ UNCHANGED iter

\* clear(): pop_lru() until it returns None.
ClearAll ==
    /\ Unborrowed /\ lmap' = [k \in {} |-> 0] /\ Freed(alive)
    /\ SetList(Unlinked([prev |-> [prev EXCEPT ![tail] = head],
                         next |-> [next EXCEPT ![head] = tail]], alive))
    /\ UNCHANGED <<lcap, iter>>

\* iter(), iter_mut(); into_iter() is pop_lru() again and again.
IterNew ==
    /\ Unborrowed /\ lmap # [k \in {} |-> 0]
    /\ iter' = [len |-> Cardinality(DOMAIN lmap), ptr |-> next[head], end |-> prev[tail]]
    /\ UNCHANGED <<lmap, lcap, nkey, nval, prev, next, alive>>

Advanced(it) == IF it.len = 0 THEN NoIter ELSE it

IterNext ==
    /\ iter.len > 0 /\ iter' = Advanced([iter EXCEPT !.len = @ - 1, !.ptr = next[@]])
    /\ UNCHANGED <<lmap, lcap, nkey, nval, prev, next, alive>>

IterNextBack ==
    /\ iter.len > 0 /\ iter' = Advanced([iter EXCEPT !.len = @ - 1, !.end = prev[@]])
    /\ UNCHANGED <<lmap, lcap, nkey, nval, prev, next, alive>>

IterDrop ==
    /\ iter.len > 0 /\ iter' = NoIter
    /\ UNCHANGED <<lmap, lcap, nkey, nval, prev, next, alive>>

Next ==
    \/ \E k \in Keys, v \in Vals : Touch(k, v) \/ PutFull(k, v) \/ PutNew(k, v) \/ PeekMut(k, v)
    \/ \E k \in Keys : DemoteKey(k) \/ PopKey(k)
    \/ \E c \in Caps : ResizeTo(c)
    \/ PopLast \/ ClearAll \/ IterNew \/ IterNext \/ IterNextBack \/ IterDrop

Spec == Init /\ [][Next]_lrvars
-----------------------------------------------------------------------------
\* The entries from a node on, n of them.
Walk(from, n) ==
    LET at[i \in 1..n] == IF i = 1 THEN from ELSE next[at[i - 1]]
    IN  [i \in 1..n |-> [key |-> nkey[at[i]], val |-> nval[at[i]]]]

\* The map and the list are the same set of live nodes: every key of the map leads to
\* a node that has it, the list visits these nodes and no other in both directions, so
\* no pointer of the cache dangles and no node leaks.
ListSound ==
    LET n == Cardinality(DOMAIN lmap)
        fwd[i \in 0..n + 1] == IF i = 0 THEN head ELSE next[fwd[i - 1]]
        bwd[i \in 0..n + 1] == IF i = 0 THEN tail ELSE prev[bwd[i - 1]]
    IN  /\ \A k \in DOMAIN lmap : nkey[lmap[k]] = k
        /\ {lmap[k] : k \in DOMAIN lmap} = alive
        /\ {fwd[i] : i \in 1..n} = alive /\ fwd[n + 1] = tail
        /\ \A i \in 0..n + 1 : bwd[i] = fwd[n + 1 - i]
        /\ n <= lcap

\* The two ends of an iterator enclose the entries it has still to yield: taken from
\* both ends it gives no entry twice and never a sigil.
IterSound ==
    LET at[i \in 1..iter.len] == IF i = 1 THEN iter.ptr ELSE next[at[i - 1]]
    IN  iter.len > 0 => at[iter.len] = iter.end /\ \A i \in DOMAIN at : at[i] \in alive

\* The cache implements LruOrder: the list is the order of use, and iterators yield
\* what is between their two ends.
O == INSTANCE LruOrder WITH
        order <- Walk(next[head], Cardinality(DOMAIN lmap)),
        cap   <- lcap,
        rest  <- IF iter.len = 0 THEN {} ELSE {Walk(iter.ptr, iter.len)}
ImplementsLru == O!Spec
=============================================================================
