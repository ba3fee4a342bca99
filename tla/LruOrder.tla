------------------------------ MODULE LruOrder ------------------------------
(***************************************************************************)
(* What the cache of kmem promises (the documentation of                   *)
(* mizu/lib/kmem/src/lru.rs): at most cap entries, kept from the most to   *)
(* the least recently used; a new entry evicts the last one.               *)
(***************************************************************************)
EXTENDS Naturals, Sequences

CONSTANTS Keys, Vals, Caps

VARIABLES order,   \* the entries [key, val], the most recently used first
          cap,
          rest     \* what an iterator has still to yield, {} without an iterator

ovars == <<order, cap, rest>>

Init == order = <<>> /\ cap \in Caps /\ rest = {}

Has(k) == \E i \in DOMAIN order : order[i].key = k
Val(k) == order[CHOOSE i \in DOMAIN order : order[i].key = k].val
Others(k) == SelectSeq(order, LAMBDA e : e.key # k)
Entry(k, v) == <<[key |-> k, val |-> v]>>
Full == Len(order) = cap
Idle == rest = {}

\* put() or push(): the value of the key is v, and the key is the most recent one.
Put(k, v) ==
    /\ Idle
    /\ order' = Entry(k, v) \o (IF Has(k) \/ ~Full THEN Others(k) ELSE Others(order[Len(order)].key))
    /\ UNCHANGED <<cap, rest>>

\* get(), get_mut() (which may change the value), promote().
Use(k, v) ==
    /\ Idle /\ Has(k) /\ order' = Entry(k, v) \o Others(k)
    /\ UNCHANGED <<cap, rest>>

\* peek_mut(): a new value in the old place.
Set(k, v) ==
    /\ Idle /\ Has(k)
    /\ order' = [i \in DOMAIN order |-> IF order[i].key = k THEN [key |-> k, val |-> v] ELSE order[i]]
    /\ UNCHANGED <<cap, rest>>

Demote(k) ==
    /\ Idle /\ Has(k) /\ order' = Others(k) \o Entry(k, Val(k))
    /\ UNCHANGED <<cap, rest>>

Pop(k) == Idle /\ order' = Others(k) /\ UNCHANGED <<cap, rest>>

PopLru ==
    /\ Idle /\ order # <<>> /\ order' = SubSeq(order, 1, Len(order) - 1)
    /\ UNCHANGED <<cap, rest>>

Resize(c) ==
    /\ Idle /\ cap' = c /\ UNCHANGED rest
    /\ order' = IF Len(order) > c THEN SubSeq(order, 1, c) ELSE order

Clear == Idle /\ order' = <<>> /\ UNCHANGED <<cap, rest>>

\* An iterator yields the entries from the front or from the back, each of them once.
Iterate == Idle /\ order # <<>> /\ rest' = {order} /\ UNCHANGED <<order, cap>>

Yield ==
    /\ \E s \in rest :
          \/ Len(s) > 1 /\ rest' \in {{Tail(s)}, {SubSeq(s, 1, Len(s) - 1)}}
          \/ rest' = {}
    /\ UNCHANGED <<order, cap>>

Next ==
    \/ \E k \in Keys, v \in Vals : Put(k, v) \/ Use(k, v) \/ Set(k, v)
    \/ \E k \in Keys : Demote(k) \/ Pop(k)
    \/ \E c \in Caps : Resize(c)
    \/ PopLru \/ Clear \/ Iterate \/ Yield

Spec == Init /\ [][Next]_ovars
=============================================================================
