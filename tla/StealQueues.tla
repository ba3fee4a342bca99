---------------------------- MODULE StealQueues ----------------------------
(***************************************************************************)
(* What the run queues of the executor promise: every worker has a FIFO    *)
(* queue and a hand, tasks move between queues, hands and the injector,    *)
(* and a move never loses or copies a task.  Module RunQueue implements    *)
(* this specification.                                                     *)
(***************************************************************************)
EXTENDS Naturals, Sequences

CONSTANTS Workers, Tasks, N

VARIABLES queue,      \* queue[w]: what w and its thieves can take, oldest first
          hand,       \* hand[w]: what an operation of w carries
          injected,   \* the injector
          out         \* the tasks that are in no queue and in no hand

queueVars == <<queue, hand, injected, out>>

QInit ==
    /\ queue = [w \in Workers |-> <<>>]
    /\ hand = [w \in Workers |-> <<>>]
    /\ injected = <<>>
    /\ out = Tasks

\* push(t) begins; the task of w has run and is in no queue.
QBring(w, t) ==
    /\ hand[w] = <<>> /\ t \in out
    /\ hand' = [hand EXCEPT ![w] = <<t>>]
    /\ out' = out \ {t}
    /\ UNCHANGED <<queue, injected>>

QLeave(w) ==
    /\ Len(hand[w]) = 1
    /\ hand' = [hand EXCEPT ![w] = <<>>]
    /\ out' = out \cup {hand[w][1]}
    /\ UNCHANGED <<queue, injected>>

QAppend(w) ==
    /\ Len(hand[w]) = 1
    /\ queue' = [queue EXCEPT ![w] = @ \o hand[w]]
    /\ hand' = [hand EXCEPT ![w] = <<>>]
    /\ UNCHANGED <<injected, out>>

\* A full queue gives its older half away ...
QSpill(w) ==
    /\ Len(hand[w]) = 1 /\ Len(queue[w]) = N
    /\ hand' = [hand EXCEPT ![w] = @ \o SubSeq(queue[w], 1, N \div 2)]
    /\ queue' = [queue EXCEPT ![w] = SubSeq(@, N \div 2 + 1, N)]
    /\ UNCHANGED <<injected, out>>

\* ... to the injector.
QInject(w) ==
    /\ hand[w] # <<>>
    /\ injected' = injected \o hand[w]
    /\ hand' = [hand EXCEPT ![w] = <<>>]
    /\ UNCHANGED <<queue, out>>

QPop(w) ==
    /\ hand[w] = <<>> /\ queue[w] # <<>>
    /\ hand' = [hand EXCEPT ![w] = <<Head(queue[w])>>]
    /\ queue' = [queue EXCEPT ![w] = Tail(@)]
    /\ UNCHANGED <<injected, out>>

QPopInjected(w) ==
    /\ hand[w] = <<>> /\ injected # <<>>
    /\ hand' = [hand EXCEPT ![w] = <<Head(injected)>>]
    /\ injected' = Tail(injected)
    /\ UNCHANGED <<queue, out>>

\* A thief takes at most half a queue of the oldest tasks ...
QSteal(w, v) ==
    /\ hand[w] = <<>>
    /\ \E n \in 1..(N \div 2) :
         /\ n <= Len(queue[v])
         /\ hand' = [hand EXCEPT ![w] = SubSeq(queue[v], 1, n)]
         /\ queue' = [queue EXCEPT ![v] = SubSeq(@, n + 1, Len(@))]
    /\ UNCHANGED <<injected, out>>

\* ... queues all but the last, and keeps that one.
QSettle(w) ==
    /\ LET n == Len(hand[w])
       IN  /\ n > 1
           /\ queue' = [queue EXCEPT ![w] = @ \o SubSeq(hand[w], 1, n - 1)]
           /\ hand' = [hand EXCEPT ![w] = <<hand[w][n]>>]
    /\ UNCHANGED <<injected, out>>

QNext ==
    \E w \in Workers :
        \/ \E t \in Tasks : QBring(w, t)
        \/ QLeave(w) \/ QAppend(w) \/ QSpill(w) \/ QInject(w) \/ QPop(w)
        \/ QPopInjected(w) \/ QSettle(w)
        \/ \E v \in Workers : QSteal(w, v)

QSpec == QInit /\ [][QNext]_queueVars
=============================================================================
