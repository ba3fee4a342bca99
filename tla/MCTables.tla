------------------------------- MODULE MCTables ------------------------------
(***************************************************************************)
(* The executor with more tasks than a queue holds, the frame allocator,   *)
(* the futex queues, the LRU cache and the descriptor tables for TLC: one  *)
(* structure that several tasks change.  They share no state, so one run   *)
(* checks them one after the other: `part` names the component that takes  *)
(* the steps of a behaviour.                                               *)
(***************************************************************************)
EXTENDS Executor

VARIABLES part,
          head, top, used, node, owned, local, arpc, ops,
          word, wakers, prewoken, fpc, fq, fid, owed,
          lmap, lcap, nkey, nval, prev, next, alive, iter,
          table, map, ids, wlock, dpc, dop, closed

\* The tag of the head as wide as in the code.
Frames == INSTANCE Arena WITH
    Threads <- {"t1", "t2"}, NPages <- 3, Counts <- {1, 2}, IdMod <- 32, MaxOps <- 4
\* Two waiters; then one, with FUTEX_REQUEUE.
Fut == INSTANCE Futex WITH
    Waiters <- {"p1", "p2"}, Wakers <- {"w1"}, Keys <- {"k1", "k2"}, NIds <- 3, MaxDebt <- 3,
    Counts <- {0, 1, 2}, Requeues <- {}
FutMove == INSTANCE Futex WITH
    Waiters <- {"p1"}, Wakers <- {"w1"}, Keys <- {"k1", "k2"}, NIds <- 2, MaxDebt <- 3,
    Counts <- {1}, Requeues <- {<<0, 2>>, <<1, 1>>}
Cache == INSTANCE Lru WITH
    Keys <- {"a", "b", "c", "d"}, Vals <- {"x", "y"}, Caps <- {1, 3}, NNodes <- 3
\* Descriptors duplicated onto open ones only, of one file in two tables and of two files
\* in one; then onto any.
Fd == INSTANCE Files WITH
    Tasks <- {"t1", "t2"}, Root <- "t1", Tables <- {"A", "B"}, Entries <- {"a"},
    MaxFd <- 1, Limit <- 2, Fresh <- 0
FdTwo == INSTANCE Files WITH
    Tasks <- {"t1", "t2"}, Root <- "t1", Tables <- {"A"}, Entries <- {"a", "b"},
    MaxFd <- 1, Limit <- 2, Fresh <- 0
FdAny == INSTANCE Files WITH
    Tasks <- {"t1", "t2"}, Root <- "t1", Tables <- {"A"}, Entries <- {"a", "b"},
    MaxFd <- 1, Limit <- 2, Fresh <- 1

arena == <<head, top, used, node, owned, local, arpc, ops>>
futex == <<word, wakers, prewoken, fpc, fq, fid, owed>>
lru == <<lmap, lcap, nkey, nval, prev, next, alive, iter>>
fds == <<table, map, ids, wlock, dpc, dop, closed>>
allVars == <<part, vars, arena, futex, lru, fds>>

TablesInit ==
    /\ part \in {"exec", "arena", "futex", "requeue", "lru", "fd", "fd2", "dup3"}
    /\ Init /\ Frames!Init
    /\ IF part = "fd" THEN Fd!Init ELSE FdTwo!Init
    /\ IF part = "requeue" THEN FutMove!Init ELSE Fut!Init
    /\ Cache!Init /\ (part # "lru" => lcap = 1)

TablesNext ==
    /\ UNCHANGED part
    /\ IF part = "exec" THEN Next ELSE UNCHANGED vars
    /\ IF part = "arena" THEN Frames!Next ELSE UNCHANGED arena
    /\ CASE part = "futex" -> Fut!Next
         [] part = "requeue" -> FutMove!Next
         [] OTHER -> UNCHANGED futex
    /\ IF part = "lru" THEN Cache!Next ELSE UNCHANGED lru
    /\ CASE part = "fd" -> Fd!Next
         [] part = "fd2" -> FdTwo!Next
         [] part = "dup3" -> FdAny!Next
         [] OTHER -> UNCHANGED fds

TablesSpec == TablesInit /\ [][TablesNext]_allVars
-----------------------------------------------------------------------------
\* A page belongs to the free list, to one owner or to nobody yet, and between calls every
\* page that was handed out is owned or in the list (Arena).
PagesSound == part = "arena" => Frames!NoDoubleUse /\ Frames!NoPageLost


\* The list of the cache is a doubly linked list of exactly the entries of the map, and an
\* iterator has as many entries before it as it says (Lru).
LruSound == part = "lru" => Cache!ListSound /\ Cache!IterSound

\* The cache behaves like a sequence in the order of use (Lru, LruOrder).
ImplementsLru == Cache!O!Init /\ [][part = "lru" => Cache!O!Next]_(Cache!O!ovars)

\* The allocator and the map of a descriptor table agree: no number is given out that is in
\* use, whoever forks, closes or executes meanwhile, unless dup3() took one by itself; and
\* no entry is closed while a descriptor or a call still uses it (Files).
DescriptorsSound ==
    /\ part = "fd" => Fd!IdsUnique /\ Fd!NoEarlyClose
    /\ part = "fd2" => FdTwo!IdsUnique /\ FdTwo!NoEarlyClose
    /\ part = "dup3" => FdAny!NoEarlyClose
=============================================================================
