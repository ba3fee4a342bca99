------------------------------- MODULE MCSync -------------------------------
(***************************************************************************)
(* The mutex, the channels, the semaphore and the RCU slots of ksync for   *)
(* TLC.  They share no state, so one run checks them one after the other:  *)
(* `part` names the component that takes the steps of a behaviour.  The    *)
(* mutex keeps the names of its module.                                    *)
(***************************************************************************)
EXTENDS Mutex

CONSTANT Null

VARIABLES part,
          os_state, waker, woken, data, spc, rpc, place,
          queue, send, recv, closed, sender, receiver, cpc, leaving, item, sent,
          count, event, seen, smpc,
          slot, pinned, current, temp, rupc, made, garbage, destroyed

Once == INSTANCE Oneshot WITH state <- os_state
\* Two senders and a receiver, then a sender of two items and two receivers.
ChanS == INSTANCE Mpmc WITH
    Senders <- {"p1", "p2"}, Receivers <- {"p3"}, FirstSender <- "p1", FirstReceiver <- "p3",
    Capacity <- 1, MaxSend <- 1
ChanR == INSTANCE Mpmc WITH
    Senders <- {"p1"}, Receivers <- {"p2", "p3"}, FirstSender <- "p1", FirstReceiver <- "p3",
    Capacity <- 1, MaxSend <- 2
Sem == INSTANCE Semaphore WITH Waiters <- {"p1", "p2", "p3"}, Owned <- {"p3"}, Permits <- 2
Slots == INSTANCE Rcu WITH Threads <- {"t1", "t2"}, Objects <- {"o1", "o2", "o3"}

once == <<os_state, waker, woken, data, spc, rpc, place>>
chan == <<queue, send, recv, closed, sender, receiver, cpc, leaving, item, sent>>
sem == <<count, event, seen, smpc>>
rcu == <<slot, pinned, current, temp, rupc, made, garbage, destroyed>>
syncVars == <<part, vars, once, chan, sem, rcu>>

SyncInit ==
    /\ part \in {"mutex", "once", "chan_s", "chan_r", "sem", "rcu"}
    /\ Init /\ Once!Init /\ Sem!Init /\ Slots!Init
    /\ IF part = "chan_s" THEN ChanS!Init ELSE ChanR!Init

SyncNext ==
    \/ /\ UNCHANGED part
       /\ IF part = "mutex" THEN Next ELSE UNCHANGED vars
       /\ IF part = "once" THEN Once!Next ELSE UNCHANGED once
       /\ CASE part = "chan_s" -> ChanS!Next
            [] part = "chan_r" -> ChanR!Next
            [] OTHER -> UNCHANGED chan
       /\ IF part = "sem" THEN Sem!Next ELSE UNCHANGED sem
       /\ IF part = "rcu" THEN Slots!Next ELSE UNCHANGED rcu
    \* A channel whose ends are gone, and threads that made all their objects, may stop.
    \/ part \in {"once", "chan_s", "chan_r", "rcu"} /\ UNCHANGED syncVars

\* The fairness of each component.
SyncSpec ==
    /\ SyncInit /\ [][SyncNext]_syncVars
    /\ \A p \in Procs : WF_vars(part = "mutex" /\ Progress(p)) /\ WF_vars(part = "mutex" /\ Elapse(p))
    /\ WF_once(part = "once" /\ Once!SenderStep) /\ WF_once(part = "once" /\ Once!ReceiverStep)
    /\ \A p \in {"p1", "p2", "p3"} :
          WF_chan(part = "chan_s" /\ ChanS!Run(p)) /\ WF_chan(part = "chan_r" /\ ChanR!Run(p))
-----------------------------------------------------------------------------
\* In the one-shot channel no assertion can fail, sender and receiver are never in the
\* slot at the same time, and the item is taken, given back or dropped once (Oneshot).
OneshotSafe == part = "once" => Once!NoPanic /\ Once!SlotExclusive /\ Once!ItemOnce



\* Permits are neither made nor lost (Semaphore).
PermitsConserved == part = "sem" => Sem!PermitsConserved

\* A thread under a guard holds no destroyed value (Rcu).
NoUseAfterFree == part = "rcu" => Slots!NoUseAfterFree

\* A value is in one place and is destroyed at most once (Rcu).
OneOwner == part = "rcu" => Slots!OneOwner
=============================================================================
