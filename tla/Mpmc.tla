-------------------------------- MODULE Mpmc --------------------------------
(***************************************************************************)
(* The channel of ksync (mizu/lib/ksync/src/channel/mpmc.rs): a concurrent *)
(* queue (external: crossbeam's ArrayQueue or SegQueue, one step each), a  *)
(* flag, two events and the counts of the handles.  A step is an access to *)
(* one of them.  Every process owns one Sender or one Receiver.            *)
(***************************************************************************)
EXTENDS Event

CONSTANTS Senders, Receivers, \* the processes
          FirstSender,        \* the ones that hold the handles of with_flavor()
          FirstReceiver,
          Capacity,           \* slots of the queue
          MaxSend             \* bound: items per sender

Users == Senders \cup Receivers

VARIABLES queue, send, recv, closed, sender, receiver, \* Channel
          cpc,    \* where each process is
          leaving, \* it is dropping its handle
          item,   \* the data it holds, <<>> for None
          sent    \* how many items each sender has made

channel == <<queue, send, recv, closed, sender, receiver>>
chvars == <<channel, cpc, leaving, item, sent>>

NoItem == <<>>

Init ==
    /\ queue = <<>> /\ send = NewEvent /\ recv = NewEvent /\ closed = FALSE
    /\ sender = 1 /\ receiver = 1
    /\ cpc = [p \in Users |-> IF p \in {FirstSender, FirstReceiver} THEN "idle" ELSE "new"]
    /\ leaving = [p \in Users |-> FALSE]
    /\ item = [p \in Users |-> NoItem]
    /\ sent = [p \in Senders |-> 0]

Goto(p, l) == cpc' = [cpc EXCEPT ![p] = l]
Hold(p, d) == item' = [item EXCEPT ![p] = d]

\* The event on which a process waits, and the one of those it makes room for.
Mine(p) == IF p \in Senders THEN send ELSE recv
SetMine(p, e) ==
    IF p \in Senders THEN send' = e /\ UNCHANGED recv ELSE recv' = e /\ UNCHANGED send
-----------------------------------------------------------------------------
\* Sender::clone, Receiver::clone: a new process gets the handle.
CloneSender(p, q) ==
    /\ {p, q} \subseteq Senders /\ cpc[p] = "idle" /\ cpc[q] = "new"
    /\ sender' = sender + 1 /\ Goto(q, "idle")
    /\ UNCHANGED <<queue, send, recv, closed, receiver, leaving, item, sent>>

CloneReceiver(p, q) ==
    /\ {p, q} \subseteq Receivers /\ cpc[p] = "idle" /\ cpc[q] = "new"
    /\ receiver' = receiver + 1 /\ Goto(q, "idle")
    /\ UNCHANGED <<queue, send, recv, closed, sender, leaving, item, sent>>

\* Sender::drop, Receiver::drop: the last one closes the channel.
DropSender(p) ==
    /\ p \in Senders /\ cpc[p] = "idle"
    /\ sender' = sender - 1 /\ Goto(p, IF sender = 1 THEN "swap" ELSE "gone")
    /\ leaving' = [leaving EXCEPT ![p] = TRUE]
    /\ UNCHANGED <<queue, send, recv, closed, receiver, item, sent>>

DropReceiver(p) ==
    /\ p \in Receivers /\ cpc[p] = "idle"
    /\ receiver' = receiver - 1 /\ Goto(p, IF receiver = 1 THEN "swap" ELSE "gone")
    /\ leaving' = [leaving EXCEPT ![p] = TRUE]
    /\ UNCHANGED <<queue, send, recv, closed, sender, item, sent>>

\* close() of either side.
CloseStart(p) ==
    /\ cpc[p] = "idle"
    /\ Goto(p, "swap")
    /\ UNCHANGED <<channel, leaving, item, sent>>

Closing(p) == IF leaving[p] THEN "gone" ELSE "idle"

\* Channel::close: swap the flag; the first one wakes everybody.
CloseSwap(p) ==
    /\ cpc[p] = "swap"
    /\ closed' = TRUE
    /\ Goto(p, IF closed THEN Closing(p) ELSE "wake_send")
    /\ UNCHANGED <<queue, send, recv, sender, receiver, leaving, item, sent>>

CloseWakeSend(p) ==
    /\ cpc[p] = "wake_send"
    /\ send' = Notify(send, Cardinality(Users))
    /\ Goto(p, "wake_recv")
    /\ UNCHANGED <<queue, recv, closed, sender, receiver, leaving, item, sent>>


CloseWakeRecv(p) ==
    /\ cpc[p] = "wake_recv"
    /\ recv' = Notify(recv, Cardinality(Users))
    /\ Goto(p, Closing(p))
    /\ UNCHANGED <<queue, send, closed, sender, receiver, leaving, item, sent>>
-----------------------------------------------------------------------------
\* try_send() or the first poll of a Send; try_recv() or the first poll of a
\* Recv (RecvOnce owns its receiver and is the same).  Which of the two it was
\* matters only when the queue is full or empty, and is chosen there: "done" is
\* the return of the try, "blocked" the way on of the poll.
Start(p) ==
    /\ cpc[p] = "idle"
    /\ \/ /\ p \in Senders /\ sent[p] < MaxSend
          /\ sent' = [sent EXCEPT ![p] = @ + 1]
          /\ Hold(p, <<p, sent[p] + 1>>) /\ Goto(p, "flag")
       \/ p \in Receivers /\ Goto(p, "pop") /\ UNCHANGED <<item, sent>>
    /\ UNCHANGED <<channel, leaving>>

\* Every poll begins with another try.
Again(p) == IF p \in Senders THEN "flag" ELSE "pop"

\* try_send(): "closed" hands the data back, which ends the operation.
SendFlag(p) ==
    /\ cpc[p] = "flag" /\ p \in Senders
    /\ IF closed THEN Hold(p, NoItem) /\ Goto(p, "done") ELSE UNCHANGED item /\ Goto(p, "push")
    /\ UNCHANGED <<channel, leaving, sent>>

SendPush(p) ==
    /\ cpc[p] = "push"
    /\ \/ /\ Len(queue) < Capacity
          /\ queue' = Append(queue, item[p])
          /\ Hold(p, NoItem) /\ Goto(p, "notify")
       \/ /\ Len(queue) = Capacity
          /\ \/ Hold(p, NoItem) /\ Goto(p, "done")
             \/ UNCHANGED item /\ Goto(p, "blocked")
          /\ UNCHANGED queue
    /\ UNCHANGED <<send, recv, closed, sender, receiver, leaving, sent>>

SendNotify(p) ==
    /\ cpc[p] = "notify" /\ p \in Senders
    /\ recv' = NotifyAdditional(recv, 1)
    /\ Goto(p, "done")
    /\ UNCHANGED <<queue, send, closed, sender, receiver, leaving, item, sent>>

\* try_recv(): pop, then look at the flag, then tell the senders.
RecvPop(p) ==
    /\ cpc[p] = "pop"
    /\ IF queue = <<>> THEN UNCHANGED <<queue, item>>
                       ELSE queue' = Tail(queue) /\ Hold(p, Head(queue))
    /\ Goto(p, "flag")
    /\ UNCHANGED <<send, recv, closed, sender, receiver, leaving, sent>>

RecvFlag(p) ==
    /\ cpc[p] = "flag" /\ p \in Receivers
    /\ \/ closed /\ Goto(p, "done")
       \/ ~closed /\ item[p] # NoItem /\ Goto(p, "notify")
       \/ ~closed /\ item[p] = NoItem /\ \E l \in {"done", "blocked"} : Goto(p, l)
    /\ UNCHANGED <<channel, leaving, item, sent>>

RecvNotify(p) ==
    /\ cpc[p] = "notify" /\ p \in Receivers
    /\ send' = NotifyAdditional(send, 1)
    /\ Goto(p, "done")
    /\ UNCHANGED <<queue, recv, closed, sender, receiver, leaving, item, sent>>

\* Send::poll, Recv::poll after a try that found the queue full or empty.
Block(p) ==
    /\ cpc[p] = "blocked"
    /\ LET e == Mine(p)
       IN  \/ p \notin Listeners(e) /\ SetMine(p, Listen(e, p)) /\ Goto(p, Again(p))
           \/ IsNotified(e, p) /\ SetMine(p, Consume(e, p)) /\ Goto(p, Again(p))
           \/ p \in Range(e.waiting) /\ UNCHANGED <<send, recv>> /\ Goto(p, "wait")
    /\ UNCHANGED <<queue, closed, sender, receiver, leaving, item, sent>>

\* The future is polled again.
Poll(p) ==
    /\ cpc[p] = "wait"
    /\ Goto(p, Again(p))
    /\ UNCHANGED <<channel, leaving, item, sent>>

\* The operation is over or its future is dropped, and its listener with it.
DropFuture(p) ==
    /\ SetMine(p, IF p \in Listeners(Mine(p)) THEN DropListener(Mine(p), p) ELSE Mine(p))
    /\ Hold(p, NoItem) /\ Goto(p, "idle")
    /\ UNCHANGED <<queue, closed, sender, receiver, leaving, sent>>

Done(p) == cpc[p] = "done" /\ DropFuture(p)
Cancel(p) == cpc[p] = "wait" /\ DropFuture(p)
-----------------------------------------------------------------------------
\* What a process does once it was told to: it finishes what it began, and the
\* executor polls a future whose listener was notified.
Run(p) ==
    \/ CloseSwap(p) \/ CloseWakeSend(p) \/ CloseWakeRecv(p)
    \/ SendFlag(p) \/ SendPush(p) \/ SendNotify(p)
    \/ RecvPop(p) \/ RecvFlag(p) \/ RecvNotify(p)
    \/ Block(p) \/ Done(p)
    \/ IsNotified(Mine(p), p) /\ Poll(p)

Next ==
    \/ \E p, q \in Users : CloneSender(p, q) \/ CloneReceiver(p, q)
    \/ \E p \in Users : DropSender(p) \/ DropReceiver(p) \/ CloseStart(p) \/ Start(p) \/ Run(p) \/ Poll(p) \/ Cancel(p)

Spec == Init /\ [][Next]_chvars /\ \A p \in Users : WF_chvars(Run(p))
-----------------------------------------------------------------------------
Parked(p) == cpc[p] = "wait" /\ ~IsNotified(Mine(p), p)
AllParked == \A p \in Users : cpc[p] \in {"idle", "new", "gone"} \/ Parked(p)

\* The two notifications of the channel are enough: when nobody is about to do
\* anything, no receiver sleeps beside an item, no sender beside a free slot, and
\* nobody at all in a closed channel, whatever was cancelled or raced before.
NoLostWakeup ==
    AllParked => \A p \in Users : Parked(p) =>
        /\ ~closed
        /\ p \in Receivers => queue = <<>>
        /\ p \in Senders => Len(queue) = Capacity

\* Closing (also by dropping the last handle of a side) ends every operation
\* that waits, on both sides.
CloseEnds == \A p \in Users : []<>(closed => cpc[p] # "wait")
-----------------------------------------------------------------------------
(* PROOFS, for any finite sets of senders and receivers and any capacity. *)

Handles ==
    /\ IsFiniteSet(Users) /\ Senders \cap Receivers = {}
    /\ FirstSender \in Senders /\ FirstReceiver \in Receivers
    /\ Capacity \in Nat

Data == Senders \X Nat

\* Where a process is in a send or a receive, and where it is otherwise.
Busy == {"flag", "push", "pop", "notify", "done", "blocked", "wait"}
Rest == {"new", "idle", "gone", "swap", "wake_send", "wake_recv"}

ChannelOK ==
    /\ queue \in Seq(Data) /\ Len(queue) <= Capacity
    /\ closed \in BOOLEAN
    /\ EventOK(send, Senders) /\ EventOK(recv, Receivers)
    /\ cpc \in [Users -> Busy \cup Rest]
    /\ item \in [Users -> Data \cup {NoItem}]
    /\ sent \in [Senders -> Nat]
    /\ \A p \in Receivers : cpc[p] # "push"
    /\ \A p \in Senders : /\ cpc[p] # "pop"
                          /\ cpc[p] \in {"flag", "push", "blocked", "wait"} => item[p] # NoItem

\* A listener belongs to an operation under way.
Placed ==
    /\ \A p \in Listeners(send) \cup Listeners(recv) : cpc[p] \in Busy
    /\ \A p \in Senders : cpc[p] = "wait" => p \in Listeners(send)
    /\ \A p \in Receivers : cpc[p] = "wait" => p \in Listeners(recv)

\* Until the channel is closed every notification is an additional one.
OpenOK ==
    ~closed => /\ send.notified \subseteq send.extra /\ recv.notified \subseteq recv.extra
               /\ \A p \in Users : cpc[p] \notin {"wake_send", "wake_recv"}

\* In a closed channel somebody is about to wake those who found it open.
ClosePending ==
    closed =>
        /\ (\E p \in Range(send.waiting) : cpc[p] \in {"push", "blocked", "wait"})
              => \E q \in Users : cpc[q] = "wake_send"
        /\ (\E p \in Range(recv.waiting) : cpc[p] \in {"blocked", "wait"})
              => \E q \in Users : cpc[q] \in {"wake_send", "wake_recv"}

\* The receivers that have seen an empty queue since they began to listen, and those who
\* will take an item or tell one of the former about it.
Hungry == {p \in Range(recv.waiting) :
               cpc[p] \in {"blocked", "wait"} \/ (cpc[p] = "flag" /\ item[p] = NoItem)}
Serving == {q \in Users : \/ q \in recv.notified
                          \/ q \in Senders /\ cpc[q] = "notify"
                          \/ q \in Receivers /\ cpc[q] = "pop" /\ q \notin Listeners(recv)}

RecvPending == ~closed /\ Hungry # {} => Len(queue) <= Cardinality(Serving)

\* The same for the senders that have seen a full queue, and the free slots.
Stuck == {p \in Range(send.waiting) : cpc[p] \in {"blocked", "wait"}}
Freeing == {q \in Users : \/ q \in send.notified
                          \/ q \in Receivers /\ (cpc[q] = "notify" \/ (cpc[q] = "flag" /\ item[q] # NoItem))
                          \/ q \in Senders /\ cpc[q] \in {"flag", "push"} /\ q \notin Listeners(send)}

SendPending == ~closed /\ Stuck # {} => Capacity <= Len(queue) + Cardinality(Freeing)

ChannelInv == ChannelOK /\ Placed /\ OpenOK /\ ClosePending /\ RecvPending /\ SendPending

\* The sets that are counted are finite, and a listener is of the side of its event.
LEMMA Basics ==
    ASSUME Handles, ChannelOK
    PROVE  /\ Listeners(send) \subseteq Senders /\ Listeners(recv) \subseteq Receivers
           /\ send.notified \cap Range(send.waiting) = {} /\ recv.notified \cap Range(recv.waiting) = {}
           /\ IsFiniteSet(Serving) /\ Cardinality(Serving) \in Nat
           /\ IsFiniteSet(Freeing) /\ Cardinality(Freeing) \in Nat
           /\ Len(queue) \in Nat
  <1>1. Listeners(send) \subseteq Senders /\ Listeners(recv) \subseteq Receivers
    BY DEF ChannelOK, EventOK, Listeners, Range
  <1>2. Serving \subseteq Users /\ Freeing \subseteq Users
    BY DEF Serving, Freeing
  <1>3. QED
    BY <1>1, <1>2, FS_Subset, FS_CardinalityType DEF Handles, ChannelOK, EventOK

\* A step that takes nobody out of Serving and puts no item into the queue.
LEMMA RecvPendingKept ==
    ASSUME Handles, ChannelOK, ChannelOK', RecvPending, ~closed' => ~closed,
           ~closed' /\ Hungry' # {} => Hungry # {}, ~closed' => Serving \subseteq Serving',
           Len(queue') <= Len(queue)
    PROVE  RecvPending'
  <1> SUFFICES ASSUME ~closed', Hungry' # {} PROVE Len(queue') <= Cardinality(Serving')
    BY DEF RecvPending
  <1>1. IsFiniteSet(Serving') /\ Cardinality(Serving') \in Nat /\ Len(queue') \in Nat
    <2>1. Serving' \subseteq Users
      BY DEF Serving
    <2>2. QED
      BY <2>1, FS_Subset, FS_CardinalityType DEF Handles, ChannelOK
  <1>2. Cardinality(Serving) <= Cardinality(Serving') /\ Cardinality(Serving) \in Nat
    BY <1>1, FS_Subset, Basics
  <1>3. Len(queue) <= Cardinality(Serving) /\ Len(queue) \in Nat
    BY Basics DEF RecvPending
  <1>4. QED
    BY <1>1, <1>2, <1>3

\* A step that takes nobody out of Freeing and no item from the queue.
LEMMA SendPendingKept ==
    ASSUME Handles, ChannelOK, ChannelOK', SendPending, ~closed' => ~closed,
           ~closed' /\ Stuck' # {} => Stuck # {}, ~closed' => Freeing \subseteq Freeing',
           Len(queue') >= Len(queue)
    PROVE  SendPending'
  <1> SUFFICES ASSUME ~closed', Stuck' # {} PROVE Capacity <= Len(queue') + Cardinality(Freeing')
    BY DEF SendPending
  <1>1. IsFiniteSet(Freeing') /\ Cardinality(Freeing') \in Nat /\ Len(queue') \in Nat
    <2>1. Freeing' \subseteq Users
      BY DEF Freeing
    <2>2. QED
      BY <2>1, FS_Subset, FS_CardinalityType DEF Handles, ChannelOK
  <1>2. Cardinality(Freeing) <= Cardinality(Freeing') /\ Cardinality(Freeing) \in Nat
    BY <1>1, FS_Subset, Basics
  <1>3. Capacity <= Len(queue) + Cardinality(Freeing) /\ Len(queue) \in Nat /\ Capacity \in Nat
    BY Basics DEF SendPending, Handles
  <1>4. QED
    BY <1>1, <1>2, <1>3

\* Steps of a process that is in no operation: clone(), drop() and the call of close().
LEMMA RestStep ==
    ASSUME Handles, ChannelInv, NEW p \in Users, cpc[p] \in {"new", "idle"},
           NEW l \in {"idle", "swap", "gone"}, Goto(p, l),
           UNCHANGED <<queue, send, recv, closed, item, sent>>
    PROVE  ChannelInv'
  <1>1. ChannelOK /\ Placed /\ OpenOK /\ ClosePending /\ RecvPending /\ SendPending
    BY DEF ChannelInv
  <1>2. cpc' = [cpc EXCEPT ![p] = l] /\ p \notin Listeners(send) \cup Listeners(recv)
    BY <1>1 DEF Goto, Placed, Busy
  <1>3. /\ \A q \in Users : cpc'[q] = IF q = p THEN l ELSE cpc[q]
        /\ cpc' \in [Users -> Busy \cup Rest]
    BY <1>1, <1>2 DEF ChannelOK, Busy, Rest
  <1>4. Listeners(send) \subseteq Users /\ Listeners(recv) \subseteq Users
    BY <1>1, Basics DEF Users
  <1>5. ChannelOK'
    BY <1>1, <1>3 DEF ChannelOK, Users
  <1>6. Placed'
    BY <1>1, <1>2, <1>3, <1>4 DEF Placed, Users
  <1>7. OpenOK'
    BY <1>1, <1>3 DEF OpenOK
  <1>8. ClosePending'
    BY <1>1, <1>2, <1>3, <1>4 DEF ClosePending, Listeners
  <1>9. Hungry' = Hungry /\ Stuck' = Stuck /\ Serving' = Serving /\ Freeing' = Freeing
    BY <1>1, <1>2, <1>3, <1>4 DEF Hungry, Stuck, Serving, Freeing, Listeners
  <1>10. RecvPending' /\ SendPending'
    BY <1>1, <1>9 DEF RecvPending, SendPending
  <1>11. QED
    BY <1>5, <1>6, <1>7, <1>8, <1>10 DEF ChannelInv

\* Channel::close().
LEMMA CloseStep ==
    ASSUME Handles, ChannelInv, NEW p \in Users,
           CloseSwap(p) \/ CloseWakeSend(p) \/ CloseWakeRecv(p)
    PROVE  ChannelInv'
  <1>1. ChannelOK /\ Placed /\ OpenOK /\ ClosePending
    BY DEF ChannelInv
  <1>2. /\ cpc[p] \in {"swap", "wake_send", "wake_recv"} /\ p \notin Listeners(send) \cup Listeners(recv)
        /\ Listeners(send) \subseteq Users /\ Listeners(recv) \subseteq Users
    BY <1>1, Basics DEF CloseSwap, CloseWakeSend, CloseWakeRecv, Placed, Busy, Users
  <1>3. /\ closed' = TRUE /\ cpc' \in [Users -> Busy \cup Rest]
        /\ \A q \in Users \ {p} : cpc'[q] = cpc[q]
        /\ cpc'[p] \in {"gone", "idle", "wake_send", "wake_recv"}
        /\ UNCHANGED <<queue, item, sent>>
    BY <1>1 DEF CloseSwap, CloseWakeSend, CloseWakeRecv, ChannelOK, OpenOK, Goto, Closing, Busy, Rest
  <1>4. /\ EventOK(send', Senders) /\ Listeners(send') = Listeners(send)
        /\ Range(send'.waiting) \subseteq Range(send.waiting)
        /\ CloseWakeSend(p) => Range(send'.waiting) = {}
    <2>1. CASE send' = send /\ ~CloseWakeSend(p)
      BY <1>1, <2>1 DEF ChannelOK
    <2>2. CASE CloseWakeSend(p)
      <3>1. /\ IsFiniteSet(Senders) /\ Cardinality(Senders) <= Cardinality(Users)
            /\ Cardinality(Users) \in Nat
        BY FS_Subset, FS_CardinalityType DEF Handles, Users
      <3>2. send' = Notify(send, Cardinality(Users))
        BY <2>2 DEF CloseWakeSend
      <3>3. EventOK(send, Senders)
        BY <1>1 DEF ChannelOK
      <3>4. /\ EventOK(send', Senders)
            /\ Range(send'.waiting) = {} /\ send'.notified = Listeners(send)
        BY ONLY <3>1, <3>2, <3>3, NotifyWakesAll
      <3>5. QED
        BY ONLY <3>4 DEF Listeners
    <2>3. QED
      BY <2>1, <2>2 DEF CloseSwap, CloseWakeSend, CloseWakeRecv
  <1>5. /\ EventOK(recv', Receivers) /\ Listeners(recv') = Listeners(recv)
        /\ Range(recv'.waiting) \subseteq Range(recv.waiting)
        /\ CloseWakeRecv(p) => Range(recv'.waiting) = {}
    <2>1. CASE recv' = recv /\ ~CloseWakeRecv(p)
      BY <1>1, <2>1 DEF ChannelOK
    <2>2. CASE CloseWakeRecv(p)
      <3>1. /\ IsFiniteSet(Receivers) /\ Cardinality(Receivers) <= Cardinality(Users)
            /\ Cardinality(Users) \in Nat
        BY FS_Subset, FS_CardinalityType DEF Handles, Users
      <3>2. recv' = Notify(recv, Cardinality(Users))
        BY <2>2 DEF CloseWakeRecv
      <3>3. EventOK(recv, Receivers)
        BY <1>1 DEF ChannelOK
      <3>4. /\ EventOK(recv', Receivers)
            /\ Range(recv'.waiting) = {} /\ recv'.notified = Listeners(recv)
        BY ONLY <3>1, <3>2, <3>3, NotifyWakesAll
      <3>5. QED
        BY ONLY <3>4 DEF Listeners
    <2>3. QED
      BY <2>1, <2>2 DEF CloseSwap, CloseWakeSend, CloseWakeRecv
  <1>6. ChannelOK'
    BY <1>1, <1>3, <1>4, <1>5 DEF ChannelOK, Users
  <1>7. Placed'
    BY <1>1, <1>2, <1>3, <1>4, <1>5 DEF Placed, Users
  <1>8. \A q \in Range(send.waiting) \cup Range(recv.waiting) : cpc'[q] = cpc[q]
    BY <1>2, <1>3 DEF Listeners
  <1>9. ClosePending'
    <2>1. CASE CloseSwap(p)
      <3>1. send' = send /\ recv' = recv /\ cpc[p] = "swap"
        BY <2>1 DEF CloseSwap
      <3>2. closed \/ cpc'[p] = "wake_send"
        BY <1>1, <2>1 DEF CloseSwap, ChannelOK, Goto
      <3>3. QED
        BY <1>1, <1>3, <1>8, <3>1, <3>2 DEF ClosePending
    <2>2. CASE CloseWakeSend(p)
      <3>1. cpc'[p] = "wake_recv"
        BY <1>1, <2>2 DEF CloseWakeSend, ChannelOK, Goto
      <3>2. QED
        BY <1>4, <2>2, <3>1 DEF ClosePending
    <2>3. CASE CloseWakeRecv(p)
      <3>1. send' = send /\ cpc[p] = "wake_recv" /\ closed
        BY <1>1, <2>3 DEF CloseWakeRecv, OpenOK
      <3>2. QED
        BY <1>1, <1>3, <1>5, <1>8, <2>3, <3>1 DEF ClosePending
    <2>4. QED
      BY <2>1, <2>2, <2>3
  <1>10. QED
    BY <1>3, <1>6, <1>7, <1>9 DEF ChannelInv, OpenOK, RecvPending, SendPending

\* The first try of an operation.
LEMMA StartStep ==
    ASSUME Handles, ChannelInv, NEW p \in Users, Start(p) PROVE ChannelInv'
  <1>1. ChannelOK /\ Placed /\ OpenOK /\ ClosePending /\ RecvPending /\ SendPending
    BY DEF ChannelInv
  <1>2. /\ cpc[p] = "idle" /\ UNCHANGED <<queue, send, recv, closed>>
        /\ p \notin Listeners(send) \cup Listeners(recv)
        /\ Listeners(send) \subseteq Users /\ Listeners(recv) \subseteq Users
    BY <1>1, Basics DEF Start, channel, Placed, Busy, Users
  <1>3. /\ cpc' \in [Users -> Busy \cup Rest] /\ \A q \in Users \ {p} : cpc'[q] = cpc[q]
        /\ IF p \in Senders THEN cpc'[p] = "flag" ELSE cpc'[p] = "pop"
    BY <1>1 DEF Start, Handles, ChannelOK, Goto, Busy, Rest, Users
  <1>4. /\ item' \in [Users -> Data \cup {NoItem}] /\ sent' \in [Senders -> Nat]
        /\ \A q \in Users \ {p} : item'[q] = item[q]
        /\ p \in Senders => item'[p] # NoItem
    <2>1. CASE /\ p \in Senders /\ sent' = [sent EXCEPT ![p] = @ + 1]
               /\ item' = [item EXCEPT ![p] = <<p, sent[p] + 1>>]
      <3> DEFINE d == <<p, sent[p] + 1>>
      <3>1. sent[p] \in Nat /\ sent' \in [Senders -> Nat]
        BY <1>1, <2>1 DEF ChannelOK
      <3>2. d \in Data /\ d # NoItem
        BY <2>1, <3>1 DEF Data, NoItem
      <3> HIDE DEF d
      <3>3. item' = [item EXCEPT ![p] = d]
        BY <2>1 DEF d
      <3>4. QED
        BY <1>1, <3>1, <3>2, <3>3 DEF ChannelOK
    <2>2. CASE p \in Receivers /\ UNCHANGED <<item, sent>>
      BY <1>1, <2>2 DEF ChannelOK, Handles
    <2>3. QED
      BY <2>1, <2>2 DEF Start, Hold
  <1>5. ChannelOK'
    BY <1>1, <1>2, <1>3, <1>4 DEF ChannelOK, Users, Handles
  <1>6. Placed' /\ OpenOK' /\ ClosePending'
    <2>1. Placed'
      BY <1>1, <1>2, <1>3 DEF Placed, Users
    <2>2. OpenOK'
      BY <1>1, <1>2, <1>3 DEF OpenOK
    <2>3. ClosePending'
      BY <1>1, <1>2, <1>3 DEF ClosePending, Listeners
    <2>4. QED
      BY <2>1, <2>2, <2>3
  <1>7. Hungry' = Hungry /\ Stuck' = Stuck
    BY <1>1, <1>2, <1>3, <1>4 DEF Hungry, Stuck, Listeners
  <1>8. Serving \subseteq Serving' /\ Freeing \subseteq Freeing'
    BY <1>1, <1>2, <1>3, <1>4 DEF Serving, Freeing, Listeners
  <1>9. Len(queue') <= Len(queue) /\ Len(queue') >= Len(queue)
    BY <1>1, <1>2, Basics
  <1>10. RecvPending' /\ SendPending'
    BY <1>1, <1>2, <1>5, <1>7, <1>8, <1>9, RecvPendingKept, SendPendingKept
  <1>11. QED
    BY <1>5, <1>6, <1>10 DEF ChannelInv

\* The flag of the channel is read, or a future is polled again.
LEMMA FlagStep ==
    ASSUME Handles, ChannelInv, NEW p \in Users, SendFlag(p) \/ RecvFlag(p) \/ Poll(p)
    PROVE  ChannelInv'
  <1>1. ChannelOK /\ Placed /\ OpenOK /\ ClosePending /\ RecvPending /\ SendPending
    BY DEF ChannelInv
  <1>2. /\ UNCHANGED <<queue, send, recv, closed, sent>> /\ cpc[p] \in {"flag", "wait"}
        /\ Listeners(send) \subseteq Senders /\ Listeners(recv) \subseteq Receivers
    BY <1>1, Basics DEF SendFlag, RecvFlag, Poll, channel
  <1>3. /\ cpc' \in [Users -> Busy \cup Rest] /\ \A q \in Users \ {p} : cpc'[q] = cpc[q]
        /\ item' \in [Users -> Data \cup {NoItem}] /\ \A q \in Users \ {p} : item'[q] = item[q]
    BY <1>1 DEF SendFlag, RecvFlag, Poll, ChannelOK, Goto, Hold, Again, Busy, Rest
  <1>4. p \in Senders => /\ cpc'[p] \in {"done", "push", "flag"}
                         /\ cpc'[p] = "done" <=> (cpc[p] = "flag" /\ closed)
                         /\ cpc'[p] = "push" <=> (cpc[p] = "flag" /\ ~closed)
                         /\ cpc'[p] # "done" => item'[p] = item[p]
    BY <1>1 DEF SendFlag, RecvFlag, Poll, ChannelOK, Goto, Hold, Again, Handles
  <1>5. p \in Receivers => /\ cpc'[p] \in {"done", "notify", "blocked", "pop"} /\ item'[p] = item[p]
                           /\ closed => cpc'[p] \in {"done", "pop"}
                           /\ cpc[p] = "flag" /\ item[p] # NoItem /\ ~closed => cpc'[p] = "notify"
                           /\ cpc'[p] = "blocked" => cpc[p] = "flag" /\ item[p] = NoItem
    BY <1>1 DEF SendFlag, RecvFlag, Poll, ChannelOK, Goto, Again, Handles
  <1>6. p \in Senders \/ p \in Receivers
    BY DEF Users
  <1>7. ChannelOK'
    BY <1>1, <1>2, <1>3, <1>4, <1>5, <1>6 DEF ChannelOK, Users, Handles
  <1>8. Placed'
    BY <1>1, <1>2, <1>3, <1>4, <1>5, <1>6 DEF Placed, Users, Handles, Busy
  <1>9. OpenOK'
    BY <1>1, <1>2, <1>3, <1>4, <1>5, <1>6 DEF OpenOK
  <1>10. ClosePending'
    <2> SUFFICES ASSUME closed
                 PROVE  /\ (\E q \in Range(send.waiting) : cpc'[q] \in {"push", "blocked", "wait"})
                              => \E q \in Users : cpc'[q] = "wake_send"
                        /\ (\E q \in Range(recv.waiting) : cpc'[q] \in {"blocked", "wait"})
                              => \E q \in Users : cpc'[q] \in {"wake_send", "wake_recv"}
      BY <1>2 DEF ClosePending
    <2>1. \A q \in Range(send.waiting) :
              cpc'[q] \in {"push", "blocked", "wait"} => cpc[q] \in {"push", "blocked", "wait"}
      BY <1>2, <1>3, <1>4 DEF Listeners, Users
    <2>2. \A q \in Range(recv.waiting) : cpc'[q] \in {"blocked", "wait"} => cpc[q] \in {"blocked", "wait"}
      BY <1>2, <1>3, <1>5 DEF Listeners, Users
    <2>3. \A q \in Users : cpc[q] \in {"wake_send", "wake_recv"} => cpc'[q] = cpc[q]
      BY <1>2, <1>3
    <2>4. QED
      BY <1>1, <2>1, <2>2, <2>3 DEF ClosePending
  <1>11. Hungry' \subseteq Hungry
    BY <1>2, <1>3, <1>5 DEF Hungry, Listeners, Users
  <1>12. Stuck' \subseteq Stuck
    BY <1>2, <1>3, <1>4 DEF Stuck, Listeners, Users
  <1>13. Serving \subseteq Serving'
    BY <1>2, <1>3 DEF Serving
  <1>14. ~closed => Freeing \subseteq Freeing'
    BY <1>2, <1>3, <1>4, <1>5, <1>6 DEF Freeing, Handles
  <1>15. Len(queue') <= Len(queue) /\ Len(queue') >= Len(queue)
    BY <1>1, <1>2, Basics
  <1>16. RecvPending'
    BY <1>1, <1>2, <1>7, <1>11, <1>13, <1>15, RecvPendingKept
  <1>17. SendPending'
    BY <1>1, <1>2, <1>7, <1>12, <1>14, <1>15, SendPendingKept
  <1>18. QED
    BY <1>7, <1>8, <1>9, <1>10, <1>16, <1>17 DEF ChannelInv

\* What a set can lose with one of its elements.
LEMMA LoseOne ==
    ASSUME NEW S, IsFiniteSet(S), NEW T, IsFiniteSet(T), NEW p, S \ {p} \subseteq T
    PROVE  /\ Cardinality(S) \in Nat /\ Cardinality(T) \in Nat
           /\ Cardinality(S) <= Cardinality(T) + 1
  <1>1. Cardinality(S) \in Nat /\ Cardinality(T) \in Nat
    BY FS_CardinalityType
  <1>2. Cardinality(S \ {p}) = IF p \in S THEN Cardinality(S) - 1 ELSE Cardinality(S)
    BY FS_RemoveElement
  <1>3. Cardinality(S \ {p}) <= Cardinality(T)
    BY FS_Subset
  <1>4. QED
    BY <1>1, <1>2, <1>3

LEMMA TradeOne ==
    ASSUME NEW S, IsFiniteSet(S), NEW T, IsFiniteSet(T), NEW p, NEW w, w \notin S,
           (S \ {p}) \cup {w} \subseteq T
    PROVE  Cardinality(S) <= Cardinality(T)
  <1>1. Cardinality(S) \in Nat /\ Cardinality(T) \in Nat /\ IsFiniteSet(S \ {p})
    BY FS_CardinalityType, FS_RemoveElement
  <1>2. Cardinality(S \ {p}) = IF p \in S THEN Cardinality(S) - 1 ELSE Cardinality(S)
    BY FS_RemoveElement
  <1>3. Cardinality((S \ {p}) \cup {w}) = Cardinality(S \ {p}) + 1
    BY <1>1, FS_AddElement
  <1>4. Cardinality((S \ {p}) \cup {w}) <= Cardinality(T)
    BY FS_Subset
  <1>5. QED
    BY <1>1, <1>2, <1>3, <1>4

\* The queue takes an item, or is full.
LEMMA PushStep ==
    ASSUME Handles, ChannelInv, NEW p \in Users, SendPush(p) PROVE ChannelInv'
  <1>1. ChannelOK /\ Placed /\ OpenOK /\ ClosePending /\ RecvPending /\ SendPending
    BY DEF ChannelInv
  <1>2. /\ UNCHANGED <<send, recv, closed, sent>> /\ cpc[p] = "push" /\ p \in Senders /\ p \notin Receivers
        /\ Listeners(send) \subseteq Senders /\ Listeners(recv) \subseteq Receivers
    BY <1>1, Basics DEF SendPush, ChannelOK, Users, Handles
  <1>3. /\ cpc' \in [Users -> Busy \cup Rest] /\ \A q \in Users \ {p} : cpc'[q] = cpc[q]
        /\ item' \in [Users -> Data \cup {NoItem}] /\ \A q \in Users \ {p} : item'[q] = item[q]
        /\ cpc'[p] \in {"notify", "done", "blocked"} /\ (cpc'[p] = "blocked" => item'[p] = item[p])
    BY <1>1 DEF SendPush, ChannelOK, Goto, Hold, Busy, Rest
  <1>4. Len(queue) \in Nat /\ Capacity \in Nat /\ item[p] \in Data
    BY <1>1, <1>2, Basics DEF Handles, ChannelOK
  <1>5. \/ /\ queue' \in Seq(Data) /\ Len(queue') = Len(queue) + 1 /\ Len(queue') <= Capacity
           /\ cpc'[p] = "notify"
        \/ queue' = queue /\ Len(queue) = Capacity /\ cpc'[p] \in {"done", "blocked"}
    <2> DEFINE d == item[p]
    <2>1. CASE Len(queue) < Capacity /\ queue' = Append(queue, d) /\ Goto(p, "notify")
      <3>1. queue \in Seq(Data) /\ d \in Data /\ cpc'[p] = "notify"
        BY <1>1, <1>4, <2>1 DEF ChannelOK, Goto
      <3> HIDE DEF d
      <3>2. Append(queue, d) \in Seq(Data) /\ Len(Append(queue, d)) = Len(queue) + 1
        BY <3>1
      <3>3. QED
        BY <1>4, <2>1, <3>1, <3>2
    <2>2. CASE /\ Len(queue) = Capacity /\ queue' = queue
               /\ \E l \in {"done", "blocked"} : Goto(p, l)
      BY <1>1, <2>2 DEF ChannelOK, Goto
    <2>3. QED
      BY <2>1, <2>2 DEF SendPush
  <1>6. ChannelOK'
    <2>1. queue' \in Seq(Data) /\ Len(queue') <= Capacity
      BY <1>1, <1>5 DEF ChannelOK
    <2>2. QED
      BY <1>1, <1>2, <1>3, <2>1 DEF ChannelOK, Users
  <1>7. Placed'
    BY <1>1, <1>2, <1>3 DEF Placed, Users, Busy
  <1>8. OpenOK'
    BY <1>1, <1>2, <1>3 DEF OpenOK
  <1>9. ClosePending'
    <2>1. \A q \in Range(send.waiting) :
              cpc'[q] \in {"push", "blocked", "wait"} => cpc[q] \in {"push", "blocked", "wait"}
      BY <1>2, <1>3 DEF Listeners, Users
    <2>2. \A q \in Range(recv.waiting) : cpc'[q] = cpc[q]
      BY <1>2, <1>3 DEF Listeners, Users
    <2>3. \A q \in Users : cpc[q] \in {"wake_send", "wake_recv"} => cpc'[q] = cpc[q]
      BY <1>2, <1>3
    <2>4. QED
      BY <1>1, <1>2, <2>1, <2>2, <2>3 DEF ClosePending
  <1>10. Hungry' = Hungry
    BY <1>2, <1>3 DEF Hungry, Listeners, Users
  <1>11. CASE Len(queue') = Len(queue) + 1 /\ cpc'[p] = "notify"
    <2>1. Serving' = Serving \cup {p} /\ p \notin Serving
      BY <1>2, <1>3, <1>11 DEF Serving, Listeners
    <2>2. Cardinality(Serving') = Cardinality(Serving) + 1 /\ Cardinality(Serving) \in Nat
      BY <1>1, <2>1, Basics, FS_AddElement
    <2>3. RecvPending'
      BY <1>1, <1>2, <1>4, <1>10, <1>11, <2>2 DEF RecvPending
    <2>4. Stuck' \subseteq Stuck
      BY <1>2, <1>3, <1>11 DEF Stuck, Listeners, Users
    <2>5. Freeing \ {p} \in SUBSET Freeing' /\ Freeing' \in SUBSET Users
      BY <1>2, <1>3 DEF Freeing
    <2>6. IsFiniteSet(Freeing') /\ Cardinality(Freeing') \in Nat /\ Cardinality(Freeing) \in Nat
      BY <1>1, <2>5, Basics, FS_Subset, FS_CardinalityType DEF Handles
    <2>7. Cardinality(Freeing) <= Cardinality(Freeing') + 1
      BY <1>1, <2>5, <2>6, Basics, LoseOne
    <2>8. SendPending'
      BY <1>1, <1>2, <1>4, <1>11, <2>4, <2>6, <2>7 DEF SendPending
    <2>9. QED
      BY <1>6, <1>7, <1>8, <1>9, <2>3, <2>8 DEF ChannelInv
  <1>12. CASE queue' = queue /\ Len(queue) = Capacity
    <2>1. Serving \subseteq Serving' /\ Len(queue') <= Len(queue)
      BY <1>2, <1>3, <1>4, <1>12 DEF Serving
    <2>2. RecvPending'
      BY <1>1, <1>2, <1>6, <1>10, <2>1, RecvPendingKept
    <2>3. Freeing' \in SUBSET Users
      BY DEF Freeing
    <2>4. Cardinality(Freeing') \in Nat
      BY <2>3, FS_Subset, FS_CardinalityType DEF Handles
    <2>5. SendPending'
      BY <1>4, <1>12, <2>4 DEF SendPending
    <2>6. QED
      BY <1>6, <1>7, <1>8, <1>9, <2>2, <2>5 DEF ChannelInv
  <1>13. QED
    BY <1>5, <1>11, <1>12

\* The queue gives an item, or is empty.
LEMMA PopStep ==
    ASSUME Handles, ChannelInv, NEW p \in Users, RecvPop(p) PROVE ChannelInv'
  <1>1. ChannelOK /\ Placed /\ OpenOK /\ ClosePending /\ RecvPending /\ SendPending
    BY DEF ChannelInv
  <1>2. /\ UNCHANGED <<send, recv, closed, sent>> /\ cpc[p] = "pop" /\ p \in Receivers /\ p \notin Senders
        /\ Listeners(send) \subseteq Senders /\ Listeners(recv) \subseteq Receivers
    BY <1>1, Basics DEF RecvPop, ChannelOK, Users, Handles
  <1>3. /\ cpc' \in [Users -> Busy \cup Rest] /\ \A q \in Users \ {p} : cpc'[q] = cpc[q]
        /\ cpc'[p] = "flag"
    BY <1>1 DEF RecvPop, ChannelOK, Goto, Busy
  <1>4. Len(queue) \in Nat /\ Capacity \in Nat /\ queue \in Seq(Data) /\ Len(queue) <= Capacity
    BY <1>1, Basics DEF Handles, ChannelOK
  <1>5. \/ queue = <<>> /\ UNCHANGED <<queue, item>>
        \/ /\ queue' \in Seq(Data) /\ Len(queue') = Len(queue) - 1
           /\ item' \in [Users -> Data \cup {NoItem}] /\ \A q \in Users \ {p} : item'[q] = item[q]
           /\ item'[p] # NoItem
    <2> DEFINE d == Head(queue)
    <2>1. CASE queue # <<>> /\ queue' = Tail(queue) /\ item' = [item EXCEPT ![p] = d]
      <3>1. d \in Data /\ Tail(queue) \in Seq(Data) /\ Len(Tail(queue)) = Len(queue) - 1
        BY <1>4, <2>1
      <3> HIDE DEF d
      <3>2. d # NoItem
        BY <3>1 DEF Data, NoItem
      <3>3. QED
        BY <1>1, <2>1, <3>1, <3>2 DEF ChannelOK
    <2>2. QED
      BY <2>1 DEF RecvPop, Hold
  <1>6. /\ queue' \in Seq(Data) /\ Len(queue') <= Capacity /\ Len(queue') <= Len(queue)
        /\ item' \in [Users -> Data \cup {NoItem}] /\ \A q \in Users \ {p} : item'[q] = item[q]
    BY <1>1, <1>4, <1>5 DEF ChannelOK
  <1>7. ChannelOK'
    BY <1>1, <1>2, <1>3, <1>6 DEF ChannelOK, Users
  <1>8. Placed'
    BY <1>1, <1>2, <1>3 DEF Placed, Users, Busy
  <1>9. OpenOK'
    BY <1>1, <1>2, <1>3 DEF OpenOK
  <1>10. ClosePending'
    <2>1. \A q \in Range(recv.waiting) : cpc'[q] \in {"blocked", "wait"} => cpc[q] \in {"blocked", "wait"}
      BY <1>2, <1>3 DEF Listeners, Users
    <2>2. \A q \in Range(send.waiting) : cpc'[q] = cpc[q]
      BY <1>2, <1>3 DEF Listeners, Users
    <2>3. \A q \in Users : cpc[q] \in {"wake_send", "wake_recv"} => cpc'[q] = cpc[q]
      BY <1>2, <1>3
    <2>4. QED
      BY <1>1, <1>2, <2>1, <2>2, <2>3 DEF ClosePending
  <1>11. Stuck' = Stuck
    BY <1>2, <1>3 DEF Stuck, Listeners, Users
  <1>12. Serving' \in SUBSET Users /\ Freeing' \in SUBSET Users
    BY DEF Serving, Freeing
  <1>13. IsFiniteSet(Serving') /\ Cardinality(Serving') \in Nat /\ IsFiniteSet(Freeing')
    BY <1>12, FS_Subset, FS_CardinalityType DEF Handles
  <1>14. CASE queue = <<>> /\ UNCHANGED <<queue, item>>
    <2>1. Len(queue') = 0 /\ Len(queue') >= Len(queue)
      BY <1>4, <1>14
    <2>2. RecvPending'
      BY <1>13, <2>1 DEF RecvPending
    <2>3. Freeing \subseteq Freeing'
      BY <1>2, <1>3, <1>14 DEF Freeing
    <2>4. SendPending'
      BY <1>1, <1>2, <1>7, <1>11, <2>1, <2>3, SendPendingKept
    <2>5. QED
      BY <1>7, <1>8, <1>9, <1>10, <2>2, <2>4 DEF ChannelInv
  <1>15. CASE Len(queue') = Len(queue) - 1 /\ item'[p] # NoItem
    <2>1. Hungry' \subseteq Hungry
      BY <1>2, <1>3, <1>6, <1>15 DEF Hungry, Listeners, Users
    <2>2. Serving \ {p} \subseteq Serving'
      BY <1>2, <1>3 DEF Serving
    <2>3. /\ Cardinality(Serving) \in Nat /\ Cardinality(Serving') \in Nat
          /\ Cardinality(Serving) <= Cardinality(Serving') + 1
      BY <1>1, <1>13, <2>2, Basics, LoseOne
    <2>4. RecvPending'
      BY <1>1, <1>2, <1>4, <1>15, <2>1, <2>3 DEF RecvPending
    <2>5. Freeing' = Freeing \cup {p} /\ p \notin Freeing
      BY <1>2, <1>3, <1>6, <1>15 DEF Freeing, Listeners
    <2>6. Cardinality(Freeing') = Cardinality(Freeing) + 1 /\ Cardinality(Freeing) \in Nat
      BY <1>1, <2>5, Basics, FS_AddElement
    <2>7. SendPending'
      BY <1>1, <1>2, <1>4, <1>11, <1>15, <2>6 DEF SendPending
    <2>8. QED
      BY <1>7, <1>8, <1>9, <1>10, <2>4, <2>7 DEF ChannelInv
  <1>16. QED
    BY <1>5, <1>14, <1>15

\* One of those who serve hands over to a receiver that waited, and likewise for senders.
LEMMA RecvPendingTraded ==
    ASSUME Handles, ChannelOK, ChannelOK', RecvPending, ~closed' => ~closed, queue' = queue,
           Hungry' \subseteq Hungry, NEW p, NEW w, w \notin Serving, (Serving \ {p}) \cup {w} \subseteq Serving'
    PROVE  RecvPending'
  <1>1. IsFiniteSet(Serving') /\ Cardinality(Serving') \in Nat
    <2>1. Serving' \in SUBSET Users
      BY DEF Serving
    <2>2. QED
      BY <2>1, FS_Subset, FS_CardinalityType DEF Handles
  <1>2. IsFiniteSet(Serving) /\ Cardinality(Serving) \in Nat /\ Len(queue) \in Nat
    BY Basics
  <1>3. Cardinality(Serving) <= Cardinality(Serving')
    BY <1>1, <1>2, TradeOne
  <1>4. QED
    BY <1>1, <1>2, <1>3 DEF RecvPending

LEMMA SendPendingTraded ==
    ASSUME Handles, ChannelOK, ChannelOK', SendPending, ~closed' => ~closed, queue' = queue,
           Stuck' \subseteq Stuck, NEW p, NEW w, w \notin Freeing, (Freeing \ {p}) \cup {w} \subseteq Freeing'
    PROVE  SendPending'
  <1>1. IsFiniteSet(Freeing') /\ Cardinality(Freeing') \in Nat
    <2>1. Freeing' \in SUBSET Users
      BY DEF Freeing
    <2>2. QED
      BY <2>1, FS_Subset, FS_CardinalityType DEF Handles
  <1>2. IsFiniteSet(Freeing) /\ Cardinality(Freeing) \in Nat /\ Len(queue) \in Nat /\ Capacity \in Nat
    BY Basics DEF Handles
  <1>3. Cardinality(Freeing) <= Cardinality(Freeing')
    BY <1>1, <1>2, TradeOne
  <1>4. QED
    BY <1>1, <1>2, <1>3 DEF SendPending

\* try_send() tells a receiver about the item.
LEMMA SendNotifyStep ==
    ASSUME Handles, ChannelInv, NEW p \in Users, SendNotify(p) PROVE ChannelInv'
  <1>1. ChannelOK /\ Placed /\ OpenOK /\ ClosePending /\ RecvPending /\ SendPending
    BY DEF ChannelInv
  <1>2. /\ UNCHANGED <<queue, send, closed, item, sent>> /\ cpc[p] = "notify" /\ p \in Senders /\ p \notin Receivers
        /\ Listeners(send) \subseteq Senders /\ Listeners(recv) \subseteq Receivers
        /\ recv' = NotifyAdditional(recv, 1)
    BY <1>1, Basics DEF SendNotify, Users, Handles
  <1>3. /\ cpc' \in [Users -> Busy \cup Rest] /\ \A q \in Users \ {p} : cpc'[q] = cpc[q]
        /\ cpc'[p] = "done"
    BY <1>1 DEF SendNotify, ChannelOK, Goto, Busy
  <1>4. /\ EventOK(recv', Receivers)
        /\ Range(recv.waiting) = {} => recv' = recv
        /\ Range(recv.waiting) # {} =>
              \E w \in Range(recv.waiting) : /\ Range(recv'.waiting) = Range(recv.waiting) \ {w}
                                             /\ recv'.notified = recv.notified \cup {w}
                                             /\ recv'.extra = recv.extra \cup {w}
    BY <1>1, <1>2, AdditionalWakes DEF ChannelOK
  <1>5. /\ Listeners(recv') = Listeners(recv) /\ Range(recv'.waiting) \subseteq Range(recv.waiting)
        /\ recv.notified \subseteq recv.extra => recv'.notified \subseteq recv'.extra
    BY <1>4 DEF Listeners
  <1>6. ChannelOK'
    BY <1>1, <1>2, <1>3, <1>4 DEF ChannelOK, Users
  <1>7. Placed'
    BY <1>1, <1>2, <1>3, <1>5 DEF Placed, Users, Busy
  <1>8. OpenOK'
    BY <1>1, <1>2, <1>3, <1>5 DEF OpenOK
  <1>9. ClosePending'
    <2>1. \A q \in Range(recv.waiting) : cpc'[q] = cpc[q]
      BY <1>2, <1>3 DEF Listeners, Users
    <2>2. \A q \in Range(send.waiting) :
              cpc'[q] \in {"push", "blocked", "wait"} => cpc[q] \in {"push", "blocked", "wait"}
      BY <1>2, <1>3 DEF Listeners, Users
    <2>3. \A q \in Users : cpc[q] \in {"wake_send", "wake_recv"} => cpc'[q] = cpc[q]
      BY <1>2, <1>3
    <2>4. QED
      BY <1>1, <1>2, <1>5, <2>1, <2>2, <2>3 DEF ClosePending
  <1>10. Hungry' \subseteq Hungry /\ Stuck' \subseteq Stuck
    BY <1>2, <1>3, <1>5 DEF Hungry, Stuck, Listeners, Users
  <1>11. RecvPending'
    <2>1. CASE Range(recv.waiting) = {}
      BY <1>5, <2>1 DEF RecvPending, Hungry
    <2>2. CASE Range(recv.waiting) # {}
      <3>1. PICK w \in Range(recv.waiting) : recv'.notified = recv.notified \cup {w}
        BY <1>4, <2>2
      <3>2. w \in Receivers /\ w \in Listeners(recv) /\ w \notin recv.notified
        BY <1>1, <1>2, Basics DEF Listeners
      <3>3. w \notin Serving
        BY <3>2 DEF Serving, Handles
      <3>4. (Serving \ {p}) \cup {w} \subseteq Serving'
        BY <1>2, <1>3, <1>5, <3>1, <3>2 DEF Serving, Users
      <3>5. QED
        BY <1>1, <1>2, <1>6, <1>10, <3>3, <3>4, RecvPendingTraded
    <2>3. QED
      BY <2>1, <2>2
  <1>12. SendPending'
    <2>1. Freeing \subseteq Freeing' /\ Len(queue') >= Len(queue)
      <3>1. ASSUME NEW q \in Freeing PROVE q \in Freeing'
        <4>1. CASE q = p
          BY <1>2, <3>1, <4>1 DEF Freeing
        <4>2. CASE q # p
          BY <1>2, <1>3, <3>1, <4>2 DEF Freeing
        <4>3. QED
          BY <4>1, <4>2
      <3>2. Len(queue') >= Len(queue)
        BY <1>1, <1>2, Basics
      <3>3. QED
        BY <3>1, <3>2
    <2>2. QED
      BY <1>1, <1>2, <1>6, <1>10, <2>1, SendPendingKept
  <1>13. QED
    BY <1>6, <1>7, <1>8, <1>9, <1>11, <1>12 DEF ChannelInv

\* try_recv() tells a sender about the slot.
LEMMA RecvNotifyStep ==
    ASSUME Handles, ChannelInv, NEW p \in Users, RecvNotify(p) PROVE ChannelInv'
  <1>1. ChannelOK /\ Placed /\ OpenOK /\ ClosePending /\ RecvPending /\ SendPending
    BY DEF ChannelInv
  <1>2. /\ UNCHANGED <<queue, recv, closed, item, sent>> /\ cpc[p] = "notify" /\ p \in Receivers /\ p \notin Senders
        /\ Listeners(send) \subseteq Senders /\ Listeners(recv) \subseteq Receivers
        /\ send' = NotifyAdditional(send, 1)
    BY <1>1, Basics DEF RecvNotify, Users, Handles
  <1>3. /\ cpc' \in [Users -> Busy \cup Rest] /\ \A q \in Users \ {p} : cpc'[q] = cpc[q]
        /\ cpc'[p] = "done"
    BY <1>1 DEF RecvNotify, ChannelOK, Goto, Busy
  <1>4. /\ EventOK(send', Senders)
        /\ Range(send.waiting) = {} => send' = send
        /\ Range(send.waiting) # {} =>
              \E w \in Range(send.waiting) : /\ Range(send'.waiting) = Range(send.waiting) \ {w}
                                             /\ send'.notified = send.notified \cup {w}
                                             /\ send'.extra = send.extra \cup {w}
    BY <1>1, <1>2, AdditionalWakes DEF ChannelOK
  <1>5. /\ Listeners(send') = Listeners(send) /\ Range(send'.waiting) \subseteq Range(send.waiting)
        /\ send.notified \subseteq send.extra => send'.notified \subseteq send'.extra
    BY <1>4 DEF Listeners
  <1>6. ChannelOK'
    BY <1>1, <1>2, <1>3, <1>4 DEF ChannelOK, Users
  <1>7. Placed'
    BY <1>1, <1>2, <1>3, <1>5 DEF Placed, Users, Busy
  <1>8. OpenOK'
    BY <1>1, <1>2, <1>3, <1>5 DEF OpenOK
  <1>9. ClosePending'
    <2>1. \A q \in Range(send.waiting) : cpc'[q] = cpc[q]
      BY <1>2, <1>3 DEF Listeners, Users
    <2>2. \A q \in Range(recv.waiting) : cpc'[q] \in {"blocked", "wait"} => cpc[q] \in {"blocked", "wait"}
      BY <1>2, <1>3 DEF Listeners, Users
    <2>3. \A q \in Users : cpc[q] \in {"wake_send", "wake_recv"} => cpc'[q] = cpc[q]
      BY <1>2, <1>3
    <2>4. QED
      BY <1>1, <1>2, <1>5, <2>1, <2>2, <2>3 DEF ClosePending
  <1>10. Hungry' \subseteq Hungry /\ Stuck' \subseteq Stuck
    BY <1>2, <1>3, <1>5 DEF Hungry, Stuck, Listeners, Users
  <1>11. SendPending'
    <2>1. CASE Range(send.waiting) = {}
      BY <1>5, <2>1 DEF SendPending, Stuck
    <2>2. CASE Range(send.waiting) # {}
      <3>1. PICK w \in Range(send.waiting) : send'.notified = send.notified \cup {w}
        BY <1>4, <2>2
      <3>2. w \in Senders /\ w \in Listeners(send) /\ w \notin send.notified
        BY <1>1, <1>2, Basics DEF Listeners
      <3>3. w \notin Freeing
        BY <3>2 DEF Freeing, Handles
      <3>4. (Freeing \ {p}) \cup {w} \subseteq Freeing'
        BY <1>2, <1>3, <1>5, <3>1, <3>2 DEF Freeing, Users
      <3>5. QED
        BY <1>1, <1>2, <1>6, <1>10, <3>3, <3>4, SendPendingTraded
    <2>3. QED
      BY <2>1, <2>2
  <1>12. RecvPending'
    <2>1. Serving \subseteq Serving' /\ Len(queue') <= Len(queue)
      <3>1. ASSUME NEW q \in Serving PROVE q \in Serving'
        <4>1. CASE q = p
          BY <1>2, <3>1, <4>1 DEF Serving
        <4>2. CASE q # p
          BY <1>2, <1>3, <3>1, <4>2 DEF Serving
        <4>3. QED
          BY <4>1, <4>2
      <3>2. Len(queue') <= Len(queue)
        BY <1>1, <1>2, Basics
      <3>3. QED
        BY <3>1, <3>2
    <2>2. QED
      BY <1>1, <1>2, <1>6, <1>10, <2>1, RecvPendingKept
  <1>13. QED
    BY <1>6, <1>7, <1>8, <1>9, <1>11, <1>12 DEF ChannelInv

\* Send::poll() after a try that found the queue full.
LEMMA BlockSendStep ==
    ASSUME Handles, ChannelInv, NEW p \in Senders, Block(p) PROVE ChannelInv'
  <1>1. ChannelOK /\ Placed /\ OpenOK /\ ClosePending /\ RecvPending /\ SendPending
    BY DEF ChannelInv
  <1>2. /\ UNCHANGED <<queue, recv, closed, item, sent>> /\ cpc[p] = "blocked" /\ p \in Users /\ p \notin Receivers
        /\ Listeners(send) \subseteq Senders /\ Listeners(recv) \subseteq Receivers
    BY <1>1, Basics DEF Block, Mine, SetMine, Users, Handles
  <1>3. /\ cpc' \in [Users -> Busy \cup Rest] /\ \A q \in Users \ {p} : cpc'[q] = cpc[q]
        /\ cpc'[p] \in {"wait", "flag"}
    BY <1>1, <1>2 DEF Block, ChannelOK, Goto, Again, Busy, Users, Handles
  <1>4. \/ p \notin Listeners(send) /\ send' = Listen(send, p) /\ cpc'[p] = "flag"
        \/ p \in send.notified /\ send' = Consume(send, p) /\ cpc'[p] = "flag"
        \/ p \in Range(send.waiting) /\ send' = send /\ cpc'[p] = "wait"
    BY <1>1, <1>2 DEF Block, ChannelOK, Goto, Again, Mine, SetMine, IsNotified, Handles, Users
  <1>5. /\ EventOK(send', Senders) /\ Range(send'.waiting) \subseteq Range(send.waiting) \cup {p}
        /\ send.notified \ {p} \subseteq send'.notified /\ send'.notified \subseteq send.notified
        /\ Listeners(send') \subseteq Listeners(send) \cup {p} /\ Listeners(send) \subseteq Listeners(send') \cup {p}
        /\ send.notified \subseteq send.extra => send'.notified \subseteq send'.extra
        /\ cpc'[p] = "wait" => send' = send /\ p \in Range(send.waiting)
        /\ p \in send.notified => p \notin Listeners(send') /\ cpc'[p] = "flag"
    <2>1. EventOK(send, Senders) /\ send.notified \cap Range(send.waiting) = {}
      BY <1>1, Basics DEF ChannelOK
    <2>2. CASE p \notin Listeners(send) /\ send' = Listen(send, p) /\ cpc'[p] = "flag"
      BY <2>1, <2>2, ListenAdds DEF Listeners
    <2>3. CASE p \in send.notified /\ send' = Consume(send, p) /\ cpc'[p] = "flag"
      BY <2>1, <2>3, ConsumeForgets DEF Listeners
    <2>4. CASE p \in Range(send.waiting) /\ send' = send /\ cpc'[p] = "wait"
      BY <2>1, <2>4 DEF Listeners
    <2>5. QED
      BY <1>4, <2>2, <2>3, <2>4
  <1>6. ChannelOK'
    BY <1>1, <1>2, <1>3, <1>5 DEF ChannelOK, Users
  <1>7. Placed'
    BY <1>1, <1>2, <1>3, <1>5 DEF Placed, Users, Busy, Listeners
  <1>8. OpenOK'
    BY <1>1, <1>2, <1>3, <1>5 DEF OpenOK
  <1>9. ClosePending'
    <2>1. \A q \in Range(send'.waiting) :
              cpc'[q] \in {"push", "blocked", "wait"} => q \in Range(send.waiting) /\ (q = p \/ cpc'[q] = cpc[q])
      BY <1>2, <1>3, <1>5 DEF Listeners, Users
    <2>2. \A q \in Range(recv.waiting) : cpc'[q] = cpc[q]
      BY <1>2, <1>3 DEF Listeners, Users
    <2>3. \A q \in Users : cpc[q] \in {"wake_send", "wake_recv"} => cpc'[q] = cpc[q]
      BY <1>2, <1>3
    <2>4. QED
      BY <1>1, <1>2, <2>1, <2>2, <2>3 DEF ClosePending
  <1>10. Hungry' \subseteq Hungry /\ Stuck' \subseteq Stuck
    BY <1>2, <1>3, <1>5 DEF Hungry, Stuck, Listeners, Users
  <1>11. Serving \subseteq Serving'
    BY <1>2, <1>3, <1>5 DEF Serving
  <1>12. Freeing \subseteq Freeing'
    BY <1>2, <1>3, <1>5 DEF Freeing
  <1>13. Len(queue') <= Len(queue) /\ Len(queue') >= Len(queue)
    BY <1>1, <1>2, Basics
  <1>14. RecvPending' /\ SendPending'
    BY <1>1, <1>2, <1>6, <1>10, <1>11, <1>12, <1>13, RecvPendingKept, SendPendingKept
  <1>15. QED
    BY <1>6, <1>7, <1>8, <1>9, <1>14 DEF ChannelInv

\* Recv::poll() after a try that found the queue empty.
LEMMA BlockRecvStep ==
    ASSUME Handles, ChannelInv, NEW p \in Receivers, Block(p) PROVE ChannelInv'
  <1>1. ChannelOK /\ Placed /\ OpenOK /\ ClosePending /\ RecvPending /\ SendPending
    BY DEF ChannelInv
  <1>2. /\ UNCHANGED <<queue, send, closed, item, sent>> /\ cpc[p] = "blocked" /\ p \in Users /\ p \notin Senders
        /\ Listeners(send) \subseteq Senders /\ Listeners(recv) \subseteq Receivers
    BY <1>1, Basics DEF Block, Mine, SetMine, Users, Handles
  <1>3. /\ cpc' \in [Users -> Busy \cup Rest] /\ \A q \in Users \ {p} : cpc'[q] = cpc[q]
        /\ cpc'[p] \in {"wait", "pop"}
    BY <1>1, <1>2 DEF Block, ChannelOK, Goto, Again, Busy, Users, Handles
  <1>4. \/ p \notin Listeners(recv) /\ recv' = Listen(recv, p) /\ cpc'[p] = "pop"
        \/ p \in recv.notified /\ recv' = Consume(recv, p) /\ cpc'[p] = "pop"
        \/ p \in Range(recv.waiting) /\ recv' = recv /\ cpc'[p] = "wait"
    BY <1>1, <1>2 DEF Block, ChannelOK, Goto, Again, Mine, SetMine, IsNotified, Handles, Users
  <1>5. /\ EventOK(recv', Receivers) /\ Range(recv'.waiting) \subseteq Range(recv.waiting) \cup {p}
        /\ recv.notified \ {p} \subseteq recv'.notified /\ recv'.notified \subseteq recv.notified
        /\ Listeners(recv') \subseteq Listeners(recv) \cup {p} /\ Listeners(recv) \subseteq Listeners(recv') \cup {p}
        /\ recv.notified \subseteq recv.extra => recv'.notified \subseteq recv'.extra
        /\ cpc'[p] = "wait" => recv' = recv /\ p \in Range(recv.waiting)
        /\ p \in recv.notified => p \notin Listeners(recv') /\ cpc'[p] = "pop"
    <2>1. EventOK(recv, Receivers) /\ recv.notified \cap Range(recv.waiting) = {}
      BY <1>1, Basics DEF ChannelOK
    <2>2. CASE p \notin Listeners(recv) /\ recv' = Listen(recv, p) /\ cpc'[p] = "pop"
      BY <2>1, <2>2, ListenAdds DEF Listeners
    <2>3. CASE p \in recv.notified /\ recv' = Consume(recv, p) /\ cpc'[p] = "pop"
      BY <2>1, <2>3, ConsumeForgets DEF Listeners
    <2>4. CASE p \in Range(recv.waiting) /\ recv' = recv /\ cpc'[p] = "wait"
      BY <2>1, <2>4 DEF Listeners
    <2>5. QED
      BY <1>4, <2>2, <2>3, <2>4
  <1>6. ChannelOK'
    BY <1>1, <1>2, <1>3, <1>5 DEF ChannelOK, Users
  <1>7. Placed'
    BY <1>1, <1>2, <1>3, <1>5 DEF Placed, Users, Busy, Listeners
  <1>8. OpenOK'
    BY <1>1, <1>2, <1>3, <1>5 DEF OpenOK
  <1>9. ClosePending'
    <2>1. \A q \in Range(recv'.waiting) :
              cpc'[q] \in {"push", "blocked", "wait"} => q \in Range(recv.waiting) /\ (q = p \/ cpc'[q] = cpc[q])
      BY <1>2, <1>3, <1>5 DEF Listeners, Users
    <2>2. \A q \in Range(send.waiting) : cpc'[q] = cpc[q]
      BY <1>2, <1>3 DEF Listeners, Users
    <2>3. \A q \in Users : cpc[q] \in {"wake_send", "wake_recv"} => cpc'[q] = cpc[q]
      BY <1>2, <1>3
    <2>4. QED
      BY <1>1, <1>2, <2>1, <2>2, <2>3 DEF ClosePending
  <1>10. Hungry' \subseteq Hungry /\ Stuck' \subseteq Stuck
    BY <1>2, <1>3, <1>5 DEF Hungry, Stuck, Listeners, Users
  <1>11. Serving \subseteq Serving'
    BY <1>2, <1>3, <1>5 DEF Serving
  <1>12. Freeing \subseteq Freeing'
    BY <1>2, <1>3, <1>5 DEF Freeing
  <1>13. Len(queue') <= Len(queue) /\ Len(queue') >= Len(queue)
    BY <1>1, <1>2, Basics
  <1>14. RecvPending' /\ SendPending'
    BY <1>1, <1>2, <1>6, <1>10, <1>11, <1>12, <1>13, RecvPendingKept, SendPendingKept
  <1>15. QED
    BY <1>6, <1>7, <1>8, <1>9, <1>14 DEF ChannelInv

\* The future of a send is over or dropped.
LEMMA DropSendStep ==
    ASSUME Handles, ChannelInv, NEW p \in Senders, Done(p) \/ Cancel(p) PROVE ChannelInv'
  <1>1. ChannelOK /\ Placed /\ OpenOK /\ ClosePending /\ RecvPending /\ SendPending
    BY DEF ChannelInv
  <1>2. /\ UNCHANGED <<queue, recv, closed, sent>> /\ cpc[p] \in {"done", "wait"} /\ p \in Users /\ p \notin Receivers
        /\ Listeners(send) \subseteq Senders /\ Listeners(recv) \subseteq Receivers
        /\ EventOK(send, Senders) /\ send.notified \cap Range(send.waiting) = {} /\ IsFiniteSet(Senders)
    BY <1>1, Basics, FS_Subset DEF Done, Cancel, DropFuture, Mine, SetMine, Users, Handles, ChannelOK
  <1>3. /\ cpc' \in [Users -> Busy \cup Rest] /\ \A q \in Users \ {p} : cpc'[q] = cpc[q]
        /\ item' \in [Users -> Data \cup {NoItem}] /\ \A q \in Users \ {p} : item'[q] = item[q]
        /\ cpc'[p] = "idle"
    BY <1>1, <1>2 DEF Done, Cancel, DropFuture, ChannelOK, Goto, Hold, Rest
  <1>4. send' = IF p \in Listeners(send) THEN DropListener(send, p) ELSE send
    BY <1>2 DEF Done, Cancel, DropFuture, Mine, SetMine, Handles
  <1>5. /\ EventOK(send', Senders) /\ Listeners(send') = Listeners(send) \ {p}
        /\ Range(send'.waiting) \subseteq Range(send.waiting) /\ send.notified \ {p} \subseteq send'.notified
    <2>1. CASE p \in Listeners(send)
      <3>1. send' = DropListener(send, p)
        BY <1>4, <2>1
      <3>2. QED
        BY <1>2, <3>1, DropPassesOn
    <2>2. CASE p \notin Listeners(send) /\ send' = send
      BY <1>2, <2>2 DEF Listeners
    <2>3. QED
      BY <1>4, <2>1, <2>2
  <1>6. p \notin send.notified => send'.notified = send.notified /\ send'.extra = send.extra
    BY <1>2, <1>4, DropWaiting
  <1>7. p \in send.extra =>
            /\ Range(send.waiting) = {} => send'.notified = send.notified \ {p} /\ send'.extra = send.extra \ {p}
            /\ Range(send.waiting) # {} =>
                  \E w \in Range(send.waiting) : /\ send'.notified = (send.notified \ {p}) \cup {w}
                                                /\ send'.extra = (send.extra \ {p}) \cup {w}
    <2>1. p \in send.extra => send' = DropListener(send, p)
      BY <1>2, <1>4 DEF Listeners, EventOK
    <2>2. QED
      BY <1>2, <2>1, DropAdditional
  <1>8. ChannelOK'
    BY <1>1, <1>2, <1>3, <1>5 DEF ChannelOK, Users
  <1>9. Placed'
    BY <1>1, <1>2, <1>3, <1>5 DEF Placed, Users
  <1>10. OpenOK'
    <2>1. send.notified \subseteq send.extra => send'.notified \subseteq send'.extra
      BY <1>6, <1>7
    <2>2. QED
      BY <1>1, <1>2, <1>3, <2>1 DEF OpenOK
  <1>11. ClosePending'
    <2>1. \A q \in Range(send'.waiting) : q \in Range(send.waiting) /\ cpc'[q] = cpc[q]
      BY <1>2, <1>3, <1>5 DEF Listeners, Users
    <2>2. \A q \in Range(recv.waiting) : cpc'[q] = cpc[q]
      BY <1>2, <1>3 DEF Listeners, Users
    <2>3. \A q \in Users : cpc[q] \in {"wake_send", "wake_recv"} => cpc'[q] = cpc[q]
      BY <1>2, <1>3
    <2>4. QED
      BY <1>1, <1>2, <2>1, <2>2, <2>3 DEF ClosePending
  <1>12. Hungry' \subseteq Hungry /\ Stuck' \subseteq Stuck
    BY <1>2, <1>3, <1>5 DEF Hungry, Stuck, Listeners, Users
  <1>13. Len(queue') <= Len(queue) /\ Len(queue') >= Len(queue)
    BY <1>1, <1>2, Basics
  <1>14. RecvPending'
    <2>1. Serving \subseteq Serving'
      BY <1>2, <1>3 DEF Serving
    <2>2. QED
      BY <1>1, <1>2, <1>8, <1>12, <1>13, <2>1, RecvPendingKept
  <1>15. SendPending'
    <2>1. CASE p \notin send.notified
      <3>1. Freeing \subseteq Freeing'
        BY <1>2, <1>3, <1>5, <1>6, <2>1 DEF Freeing
      <3>2. QED
        BY <1>1, <1>2, <1>8, <1>12, <1>13, <3>1, SendPendingKept
    <2>2. CASE Range(send.waiting) = {}
      BY <1>5, <2>2 DEF SendPending, Stuck
    <2>3. CASE closed
      BY <1>2, <2>3 DEF SendPending
    <2>4. CASE p \in send.notified /\ Range(send.waiting) # {} /\ ~closed
      <3>1. p \in send.extra
        BY <1>1, <2>4 DEF OpenOK
      <3>2. PICK w \in Range(send.waiting) : send'.notified = (send.notified \ {p}) \cup {w}
        BY <1>7, <2>4, <3>1
      <3>3. w \in Senders /\ w \in Listeners(send) /\ w \notin send.notified
        BY <1>2 DEF Listeners
      <3>4. w \notin Freeing
        BY <3>3 DEF Freeing, Handles
      <3>5. (Freeing \ {p}) \cup {w} \subseteq Freeing'
        BY <1>2, <1>3, <1>5, <3>2, <3>3 DEF Freeing, Users
      <3>6. QED
        BY <1>1, <1>2, <1>8, <1>12, <3>4, <3>5, SendPendingTraded
    <2>5. QED
      BY <1>1, <2>1, <2>2, <2>3, <2>4 DEF ChannelOK
  <1>16. QED
    BY <1>8, <1>9, <1>10, <1>11, <1>14, <1>15 DEF ChannelInv

\* The future of a receive is over or dropped.
LEMMA DropRecvStep ==
    ASSUME Handles, ChannelInv, NEW p \in Receivers, Done(p) \/ Cancel(p) PROVE ChannelInv'
  <1>1. ChannelOK /\ Placed /\ OpenOK /\ ClosePending /\ RecvPending /\ SendPending
    BY DEF ChannelInv
  <1>2. /\ UNCHANGED <<queue, send, closed, sent>> /\ cpc[p] \in {"done", "wait"} /\ p \in Users /\ p \notin Senders
        /\ Listeners(send) \subseteq Senders /\ Listeners(recv) \subseteq Receivers
        /\ EventOK(recv, Receivers) /\ recv.notified \cap Range(recv.waiting) = {} /\ IsFiniteSet(Receivers)
    BY <1>1, Basics, FS_Subset DEF Done, Cancel, DropFuture, Mine, SetMine, Users, Handles, ChannelOK
  <1>3. /\ cpc' \in [Users -> Busy \cup Rest] /\ \A q \in Users \ {p} : cpc'[q] = cpc[q]
        /\ item' \in [Users -> Data \cup {NoItem}] /\ \A q \in Users \ {p} : item'[q] = item[q]
        /\ cpc'[p] = "idle"
    BY <1>1, <1>2 DEF Done, Cancel, DropFuture, ChannelOK, Goto, Hold, Rest
  <1>4. recv' = IF p \in Listeners(recv) THEN DropListener(recv, p) ELSE recv
    BY <1>2 DEF Done, Cancel, DropFuture, Mine, SetMine, Handles
  <1>5. /\ EventOK(recv', Receivers) /\ Listeners(recv') = Listeners(recv) \ {p}
        /\ Range(recv'.waiting) \subseteq Range(recv.waiting) /\ recv.notified \ {p} \subseteq recv'.notified
    <2>1. CASE p \in Listeners(recv)
      <3>1. recv' = DropListener(recv, p)
        BY <1>4, <2>1
      <3>2. QED
        BY <1>2, <3>1, DropPassesOn
    <2>2. CASE p \notin Listeners(recv) /\ recv' = recv
      BY <1>2, <2>2 DEF Listeners
    <2>3. QED
      BY <1>4, <2>1, <2>2
  <1>6. p \notin recv.notified => recv'.notified = recv.notified /\ recv'.extra = recv.extra
    BY <1>2, <1>4, DropWaiting
  <1>7. p \in recv.extra =>
            /\ Range(recv.waiting) = {} => recv'.notified = recv.notified \ {p} /\ recv'.extra = recv.extra \ {p}
            /\ Range(recv.waiting) # {} =>
                  \E w \in Range(recv.waiting) : /\ recv'.notified = (recv.notified \ {p}) \cup {w}
                                                /\ recv'.extra = (recv.extra \ {p}) \cup {w}
    <2>1. p \in recv.extra => recv' = DropListener(recv, p)
      BY <1>2, <1>4 DEF Listeners, EventOK
    <2>2. QED
      BY <1>2, <2>1, DropAdditional
  <1>8. ChannelOK'
    BY <1>1, <1>2, <1>3, <1>5 DEF ChannelOK, Users
  <1>9. Placed'
    BY <1>1, <1>2, <1>3, <1>5 DEF Placed, Users
  <1>10. OpenOK'
    <2>1. recv.notified \subseteq recv.extra => recv'.notified \subseteq recv'.extra
      BY <1>6, <1>7
    <2>2. QED
      BY <1>1, <1>2, <1>3, <2>1 DEF OpenOK
  <1>11. ClosePending'
    <2>1. \A q \in Range(recv'.waiting) : q \in Range(recv.waiting) /\ cpc'[q] = cpc[q]
      BY <1>2, <1>3, <1>5 DEF Listeners, Users
    <2>2. \A q \in Range(send.waiting) : cpc'[q] = cpc[q]
      BY <1>2, <1>3 DEF Listeners, Users
    <2>3. \A q \in Users : cpc[q] \in {"wake_send", "wake_recv"} => cpc'[q] = cpc[q]
      BY <1>2, <1>3
    <2>4. QED
      BY <1>1, <1>2, <2>1, <2>2, <2>3 DEF ClosePending
  <1>12. Hungry' \subseteq Hungry /\ Stuck' \subseteq Stuck
    BY <1>2, <1>3, <1>5 DEF Hungry, Stuck, Listeners, Users
  <1>13. Len(queue') <= Len(queue) /\ Len(queue') >= Len(queue)
    BY <1>1, <1>2, Basics
  <1>14. SendPending'
    <2>1. Freeing \subseteq Freeing'
      BY <1>2, <1>3 DEF Freeing
    <2>2. QED
      BY <1>1, <1>2, <1>8, <1>12, <1>13, <2>1, SendPendingKept
  <1>15. RecvPending'
    <2>1. CASE p \notin recv.notified
      <3>1. Serving \subseteq Serving'
        BY <1>2, <1>3, <1>5, <1>6, <2>1 DEF Serving
      <3>2. QED
        BY <1>1, <1>2, <1>8, <1>12, <1>13, <3>1, RecvPendingKept
    <2>2. CASE Range(recv.waiting) = {}
      BY <1>5, <2>2 DEF RecvPending, Hungry
    <2>3. CASE closed
      BY <1>2, <2>3 DEF RecvPending
    <2>4. CASE p \in recv.notified /\ Range(recv.waiting) # {} /\ ~closed
      <3>1. p \in recv.extra
        BY <1>1, <2>4 DEF OpenOK
      <3>2. PICK w \in Range(recv.waiting) : recv'.notified = (recv.notified \ {p}) \cup {w}
        BY <1>7, <2>4, <3>1
      <3>3. w \in Receivers /\ w \in Listeners(recv) /\ w \notin recv.notified
        BY <1>2 DEF Listeners
      <3>4. w \notin Serving
        BY <3>3 DEF Serving, Handles
      <3>5. (Serving \ {p}) \cup {w} \subseteq Serving'
        BY <1>2, <1>3, <1>5, <3>2, <3>3 DEF Serving, Users
      <3>6. QED
        BY <1>1, <1>2, <1>8, <1>12, <3>4, <3>5, RecvPendingTraded
    <2>5. QED
      BY <1>1, <2>1, <2>2, <2>3, <2>4 DEF ChannelOK
  <1>16. QED
    BY <1>8, <1>9, <1>10, <1>11, <1>14, <1>15 DEF ChannelInv

LEMMA InitChannel == ASSUME Handles, Init PROVE ChannelInv
  <1>1. /\ queue \in Seq(Data) /\ Len(queue) = 0 /\ closed = FALSE
        /\ EventOK(send, Senders) /\ EventOK(recv, Receivers)
        /\ Listeners(send) = {} /\ Listeners(recv) = {}
    BY NewEventOK DEF Init
  <1>2. /\ cpc \in [Users -> {"idle", "new"}] /\ item \in [Users -> {NoItem}] /\ sent \in [Senders -> Nat]
    BY DEF Init
  <1>3. ChannelOK
    <2>1. cpc \in [Users -> Busy \cup Rest] /\ item \in [Users -> Data \cup {NoItem}]
      BY <1>2 DEF Busy, Rest
    <2>2. \A p \in Users : cpc[p] \in {"idle", "new"}
      BY <1>2
    <2>3. Len(queue) <= Capacity
      BY <1>1 DEF Handles
    <2>4. QED
      BY <1>1, <1>2, <2>1, <2>2, <2>3 DEF ChannelOK, Users
  <1>4. Placed /\ OpenOK /\ ClosePending
    BY <1>1, <1>2 DEF Placed, OpenOK, ClosePending, Listeners, Users
  <1>5. Hungry = {} /\ Stuck = {}
    BY <1>1 DEF Hungry, Stuck, Listeners
  <1>6. QED
    BY <1>3, <1>4, <1>5 DEF ChannelInv, RecvPending, SendPending

LEMMA NextChannel == ASSUME Handles, ChannelInv, [Next]_chvars PROVE ChannelInv'
  <1>1. ASSUME NEW p \in Users, NEW q \in Users, CloneSender(p, q) \/ CloneReceiver(p, q)
        PROVE  ChannelInv'
    BY <1>1, RestStep DEF CloneSender, CloneReceiver
  <1>2. ASSUME NEW p \in Users, DropSender(p) \/ DropReceiver(p) \/ CloseStart(p)
        PROVE  ChannelInv'
    <2>1. PICK l \in {"idle", "swap", "gone"} : Goto(p, l)
      BY <1>2 DEF DropSender, DropReceiver, CloseStart
    <2>2. cpc[p] = "idle" /\ UNCHANGED <<queue, send, recv, closed, item, sent>>
      BY <1>2 DEF DropSender, DropReceiver, CloseStart, channel
    <2>3. QED
      BY <2>1, <2>2, RestStep
  <1>3. ASSUME NEW p \in Users, Block(p) \/ Done(p) \/ Cancel(p) PROVE ChannelInv'
    BY <1>3, BlockSendStep, BlockRecvStep, DropSendStep, DropRecvStep DEF Users
  <1>4. ASSUME NEW p \in Users, Start(p) \/ Poll(p) \/ Run(p) PROVE ChannelInv'
    BY <1>3, <1>4, StartStep, CloseStep, FlagStep, PushStep, SendNotifyStep, PopStep, RecvNotifyStep
       DEF Run
  <1>5. CASE UNCHANGED chvars
    <2>1. UNCHANGED <<queue, send, recv, closed, cpc, item, sent>>
      BY <1>5 DEF chvars, channel
    <2>2. ChannelOK' /\ Placed' /\ OpenOK' /\ ClosePending'
      BY <2>1 DEF ChannelInv, ChannelOK, Placed, OpenOK, ClosePending
    <2>3. Serving' = Serving /\ Freeing' = Freeing /\ Hungry' = Hungry /\ Stuck' = Stuck
      BY <2>1 DEF Serving, Freeing, Hungry, Stuck
    <2>4. QED
      BY <2>1, <2>2, <2>3 DEF ChannelInv, RecvPending, SendPending
  <1>6. QED
    BY <1>1, <1>2, <1>3, <1>4, <1>5 DEF Next

\* The notifications are enough for any number of senders, receivers and slots
\* (NoLostWakeup), also when notified futures are dropped.
THEOREM ChannelNoLostWakeup == ASSUME Handles PROVE Spec => []NoLostWakeup
  <1>1. Init => ChannelInv
    BY InitChannel
  <1>2. ChannelInv /\ [Next]_chvars => ChannelInv'
    BY NextChannel
  <1>3. ChannelInv => NoLostWakeup
    <2> SUFFICES ASSUME ChannelInv, AllParked, NEW p \in Users, Parked(p)
                 PROVE  /\ ~closed
                        /\ p \in Receivers => queue = <<>>
                        /\ p \in Senders => Len(queue) = Capacity
      BY DEF NoLostWakeup
    <2>1. ChannelOK /\ Placed /\ ClosePending /\ RecvPending /\ SendPending
      BY DEF ChannelInv
    <2>2. \A q \in Users : cpc[q] \in {"idle", "new", "gone", "wait"}
      BY DEF AllParked, Parked
    <2>3. send.notified = {} /\ recv.notified = {}
      <3>1. ASSUME NEW q \in send.notified \cup recv.notified PROVE FALSE
        <4>1. q \in Users /\ cpc[q] = "wait" /\ IsNotified(Mine(q), q)
          BY <2>1, <2>2, Basics DEF Listeners, Placed, Busy, Users, Mine, IsNotified, Handles
        <4>2. QED
          BY <4>1 DEF AllParked, Parked
      <3>2. QED
        BY <3>1
    <2>4. cpc[p] = "wait" /\ IF p \in Senders THEN p \in Range(send.waiting) ELSE p \in Range(recv.waiting)
      BY <2>1, <2>3 DEF Parked, Placed, Listeners, Users
    <2>5. ~closed
      BY <2>1, <2>2, <2>4 DEF ClosePending
    <2>6. Serving = {} /\ Freeing = {}
      BY <2>2, <2>3 DEF Serving, Freeing
    <2>7. Cardinality(Serving) = 0 /\ Cardinality(Freeing) = 0
      BY <2>6, FS_EmptySet
    <2>8. /\ Len(queue) \in Nat /\ Capacity \in Nat /\ Len(queue) <= Capacity /\ queue \in Seq(Data)
      BY <2>1, Basics DEF ChannelOK, Handles
    <2>9. CASE p \in Senders
      <3>1. p \in Stuck /\ p \notin Receivers
        BY <2>4, <2>9 DEF Stuck, Handles
      <3>2. Capacity <= Len(queue) + 0
        BY <2>1, <2>5, <2>7, <3>1 DEF SendPending
      <3>3. QED
        BY <2>5, <2>8, <3>1, <3>2
    <2>10. CASE p \in Receivers /\ p \notin Senders
      <3>1. p \in Hungry
        BY <2>4, <2>10 DEF Hungry
      <3>2. Len(queue) <= 0
        BY <2>1, <2>5, <2>7, <3>1 DEF RecvPending
      <3>3. QED
        BY <2>5, <2>8, <2>10, <3>2
    <2>11. QED
      BY <2>9, <2>10 DEF Users
  <1>4. QED
    BY <1>1, <1>2, <1>3, PTL DEF Spec
=============================================================================
