-------------------------------- MODULE Arena --------------------------------
(***************************************************************************)
(* The frame allocator (mizu/lib/kmem/src/frame.rs): a stack of free runs  *)
(* of pages whose nodes are in the pages themselves, a tagged head, and a  *)
(* top above which no page was ever used.  No lock: a thread may read the  *)
(* node of a page that another one has allocated meanwhile, and then sees  *)
(* anything.                                                               *)
(***************************************************************************)
EXTENDS Integers, FiniteSets

CONSTANTS Threads, NPages, Counts,
          IdMod,    \* the tag counts modulo this, 2^5 in the code
          MaxOps    \* bound: exchanges of the head

Pages == 1..NPages    \* page numbers from base; 0 is the null address

VARIABLES head,    \* [addr, id]
          top, used, \* Arena::top, Arena::count
          node,    \* what is written at the start of a page: [next, count]
          owned,   \* the runs each thread has allocated
          local,   \* the variables of the function a thread is in
          arpc,
          ops      \* exchanges so far

arvars == <<head, top, used, node, owned, local, arpc, ops>>

Run(a, n) == [addr |-> a, count |-> n]
PagesOf(r) == r.addr..r.addr + r.count - 1
NoLocal == [head |-> [addr |-> 0, id |-> 0], next |-> 0, rest |-> 0, run |-> Run(0, 0), push |-> Run(0, 0)]

Init ==
    /\ head = [addr |-> 0, id |-> 0] /\ top = 1 /\ used = 0
    /\ node = [p \in Pages |-> [next |-> 0, count |-> 0]]
    /\ owned = [t \in Threads |-> {}]
    /\ local = [t \in Threads |-> NoLocal]
    /\ arpc = [t \in Threads |-> "idle"]
    /\ ops = 0

Goto(t, l) == arpc' = [arpc EXCEPT ![t] = l]
Owned == UNION {PagesOf(r) : r \in UNION {owned[t] : t \in Threads}}

\* allocate(): the list first.
Look(h) == IF h.addr = 0 THEN "fresh" ELSE "read"
Allocate(t) ==
    /\ arpc[t] = "idle" /\ ops < MaxOps
    /\ \E n \in Counts : local' = [local EXCEPT ![t] = [NoLocal EXCEPT !.head = head, !.run = Run(0, n)]]
    /\ Goto(t, Look(head))
    /\ UNCHANGED <<head, top, used, node, owned, ops>>

\* allocate_list(): read the node of the first run.
AllocateRead(t) ==
    /\ arpc[t] = "read"
    /\ LET a == local[t].head.addr
           n == local[t].run.count
           contents == IF a \in Owned THEN [next : 0..NPages, count : 0..NPages] ELSE {node[a]}
       IN  \E seen \in contents :
              IF seen.count < n THEN Goto(t, "fresh") /\ UNCHANGED local
              ELSE /\ Goto(t, "cas")
                   /\ local' = [local EXCEPT ![t].next = seen.next, ![t].rest = seen.count - n]
    /\ UNCHANGED <<head, top, used, node, owned, ops>>

Tagged(a, id) == [addr |-> a, id |-> (id + 1) % IdMod]

Take(t) ==
    /\ head' = Tagged(local[t].next, head.id) /\ ops' = ops + 1
    /\ LET a == local[t].head.addr
           n == local[t].run.count
       IN  IF local[t].rest = 0
           THEN Goto(t, "got") /\ local' = [local EXCEPT ![t].run.addr = a]
           ELSE /\ Goto(t, "push")
                /\ local' = [local EXCEPT ![t].run.addr = a, ![t].push = Run(a + n, local[t].rest)]

AllocateCasAddr(t) ==    \* mutant: the tag is not compared
    /\ arpc[t] = "cas"
    /\ \/ head.addr = local[t].head.addr /\ Take(t)
       \/ /\ head.addr # local[t].head.addr /\ UNCHANGED <<head, ops>>
          /\ local' = [local EXCEPT ![t].head = head] /\ Goto(t, Look(head))
    /\ UNCHANGED <<top, used, node, owned>>

\* The exchange of the head; what is too much goes back to the list.
AllocateCas(t) ==
    /\ arpc[t] = "cas"
    /\ \/ head = local[t].head /\ Take(t)
       \/ /\ head # local[t].head /\ UNCHANGED <<head, ops>>
          /\ local' = [local EXCEPT ![t].head = head] /\ Goto(t, Look(head))
    /\ UNCHANGED <<top, used, node, owned>>

\* allocate_fresh(): the loop on top is one atomic addition if it fits.
AllocateFresh(t) ==
    /\ arpc[t] = "fresh"
    /\ LET n == local[t].run.count
       IN  IF top + n - 1 \in 1..NPages
           THEN top' = top + n /\ local' = [local EXCEPT ![t].run.addr = top] /\ Goto(t, "got")
           ELSE UNCHANGED top /\ local' = [local EXCEPT ![t] = NoLocal] /\ Goto(t, "idle")
    /\ UNCHANGED <<head, used, node, owned, ops>>

Got(t) ==
    /\ arpc[t] = "got"
    /\ owned' = [owned EXCEPT ![t] = @ \cup {local[t].run}]
    /\ used' = used + local[t].run.count
    /\ local' = [local EXCEPT ![t] = NoLocal] /\ Goto(t, "idle")
    /\ UNCHANGED <<head, top, node, ops>>

\* deallocate(): of a run the thread has.
Deallocate(t) ==
    /\ arpc[t] = "idle" /\ ops < MaxOps
    /\ \E r \in owned[t] :
          /\ owned' = [owned EXCEPT ![t] = @ \ {r}]
          /\ local' = [local EXCEPT ![t].push = r]
    /\ Goto(t, "push")
    /\ UNCHANGED <<head, top, used, node, ops>>

\* deallocate_list(): write the node in front of the head that was read.
PushWrite(t) ==
    /\ arpc[t] = "push"
    /\ local' = [local EXCEPT ![t].head = head]
    /\ node' = [node EXCEPT ![local[t].push.addr] = [next |-> head.addr, count |-> local[t].push.count]]
    /\ Goto(t, "pushcas")
    /\ UNCHANGED <<head, top, used, owned, ops>>

PushCas(t) ==
    /\ arpc[t] = "pushcas"
    /\ IF head = local[t].head
       THEN /\ head' = Tagged(local[t].push.addr, head.id) /\ ops' = ops + 1
            /\ Goto(t, IF local[t].run.addr # 0 THEN "got" ELSE "uncount")
       ELSE UNCHANGED <<head, ops>> /\ Goto(t, "push")
    /\ UNCHANGED <<top, used, node, owned, local>>

Uncount(t) ==
    /\ arpc[t] = "uncount" /\ used' = used - local[t].push.count
    /\ local' = [local EXCEPT ![t] = NoLocal] /\ Goto(t, "idle")
    /\ UNCHANGED <<head, top, node, owned, ops>>

Next == \E t \in Threads :
    \/ Allocate(t) \/ AllocateRead(t) \/ AllocateCas(t) \/ AllocateFresh(t) \/ Got(t)
    \/ Deallocate(t) \/ PushWrite(t) \/ PushCas(t) \/ Uncount(t)

Spec == Init /\ [][Next]_arvars
-----------------------------------------------------------------------------
\* The runs of the list, from the head on.
List ==
    LET reach[k \in 0..NPages] ==
          IF k = 0 THEN {head.addr} \ {0}
          ELSE reach[k - 1] \cup ({node[a].next : a \in reach[k - 1]} \ {0})
    IN  reach[NPages]

\* What the threads have or are about to have or to give back.
InHand(t) ==
    owned[t] \cup (IF arpc[t] = "got" \/ (arpc[t] \in {"push", "pushcas"} /\ local[t].run.addr # 0)
                   THEN {local[t].run} ELSE {})
             \cup (IF arpc[t] \in {"push", "pushcas"} THEN {local[t].push} ELSE {})

\* No page is handed out twice or is both free and used: the runs of the list and of
\* the threads are disjoint, in spite of the nodes read after they were allocated.
NoDoubleUse ==
    LET free == {Run(a, node[a].count) : a \in List}
        held == UNION {InHand(t) : t \in Threads}
    IN  /\ \A r, s \in free \cup held : r # s => PagesOf(r) \cap PagesOf(s) = {}
        /\ \A t, u \in Threads : t # u => InHand(t) \cap InHand(u) = {}
        /\ free \cap held = {}
        /\ \A r \in free \cup held : PagesOf(r) \subseteq Pages

\* No page is lost: every page below top is free or in somebody's hands, and when no
\* call is under way the counter is the number of the pages that are allocated.
NoPageLost ==
    LET held == UNION {InHand(t) : t \in Threads}
    IN  /\ UNION {PagesOf(r) : r \in held \cup {Run(a, node[a].count) : a \in List}} = 1..top - 1
        /\ (\A t \in Threads : arpc[t] = "idle") => used = Cardinality(Owned)
=============================================================================
