----------------------------- MODULE TcpListen -----------------------------
(***************************************************************************)
(* A listening TCP socket (mizu/lib/devices/src/net/socket/tcp.rs).        *)
(* smoltcp's socket serves one connection, so accept_task() waits until    *)
(* the socket in Inner.handle is connected, puts a fresh listening socket  *)
(* in its place and sends the connected one to the callers of accept()     *)
(* through a channel, as long as fewer than `backlog` of them wait there.  *)
(* The states of a smoltcp socket are reduced to the ones the code tells   *)
(* apart: "listen" (with SynReceived), "established" (with every later     *)
(* state that is not Closed), "closed".  The peers move it between them.   *)
(***************************************************************************)
EXTENDS Event

CONSTANTS Handles,     \* bound: handles of the SocketSet
          Callers,     \* tasks that call accept()
          Backlog,
          Faults       \* "reset": a connection is reset before it is taken;
                       \* "drop": the listening Socket is dropped without close()

VARIABLES sock,           \* the SocketSet: the state of each socket, "none" without one
          slot,           \* Inner.handle
          accept_event,   \* Inner.accept_event
          accepts,        \* Socket.accept is Some(rx)
          chan,           \* the connections in the channel
          tx,             \* accept_task() holds the sender
          apc, conn, woken,   \* accept_task(): where, the handle it got, send waker fired
          cpc, got,       \* the callers of accept()
          upc             \* the owner of the listening Socket

tcvars == <<sock, slot, accept_event, accepts, chan, tx, apc, conn, woken, cpc, got, upc>>

None == "none"

Init ==
    /\ slot = CHOOSE h \in Handles : TRUE
    /\ sock = [h \in Handles |-> IF h = slot THEN "listen" ELSE None]
    /\ accept_event = NewEvent /\ accepts = TRUE /\ chan = <<>> /\ tx = TRUE
    /\ apc = "loop" /\ conn = None /\ woken = FALSE
    /\ cpc = [c \in Callers |-> "idle"] /\ got = [c \in Callers |-> None]
    /\ upc = "open"

\* Sender::is_closed(): no receiver is left, a caller's clone included.
IsClosed == ~accepts /\ \A c \in Callers : cpc[c] \notin {"recv", "notify"}
-----------------------------------------------------------------------------
\* accept_task().  Every step below ends where the task gives up a lock or awaits.
Ago(l) == apc' = l
Quiet == UNCHANGED <<accepts, tx, cpc, got, upc>>

Loop ==
    /\ apc = "loop" /\ Ago(IF IsClosed THEN "close" ELSE "full")
    /\ UNCHANGED <<sock, slot, accept_event, chan, conn, woken>> /\ Quiet

Full(n) == n >= Backlog

\* while tx.len() >= backlog: listen first, test again, then await.
WaitFull ==
    /\ apc = "full"
    /\ IF ~Full(Len(chan)) THEN Ago("poll") /\ UNCHANGED accept_event
       ELSE IF "full" \notin Listeners(accept_event)
       THEN accept_event' = Listen(accept_event, "full") /\ UNCHANGED apc
       ELSE Ago("fullwait") /\ UNCHANGED accept_event
    /\ UNCHANGED <<sock, slot, chan, conn, woken>> /\ Quiet
RoomHeard ==
    /\ apc = "fullwait" /\ IsNotified(accept_event, "full") /\ Ago("full")
    /\ accept_event' = Consume(accept_event, "full")
    /\ UNCHANGED <<sock, slot, chan, conn, woken>> /\ Quiet

\* poll_for_establishment(), the first of the two futures of the select.
PollEstablished ==
    /\ apc = "poll" /\ woken' = FALSE
    /\ CASE sock[slot] = "closed" ->
              /\ Ago("loop") /\ UNCHANGED conn
              /\ accept_event' = DropListener(DropListener(accept_event, "close"), "full")
         [] sock[slot] = "established" ->
              /\ Ago("swap") /\ conn' = slot
              /\ accept_event' = DropListener(accept_event, "close")
         [] OTHER -> Ago("closing") /\ UNCHANGED <<conn, accept_event>>
    /\ UNCHANGED <<sock, slot, chan>> /\ Quiet

\* close_event(), the second future.
CloseEvent ==
    /\ apc = "closing"
    /\ IF IsNotified(accept_event, "close")
       THEN accept_event' = Consume(accept_event, "close") /\ UNCHANGED apc
       ELSE IF IsClosed THEN accept_event' = DropListener(accept_event, "close") /\ Ago("close")
       ELSE IF "close" \notin Listeners(accept_event)
       THEN accept_event' = Listen(accept_event, "close") /\ UNCHANGED apc
       ELSE Ago("asleep") /\ UNCHANGED accept_event
    /\ UNCHANGED <<sock, slot, chan, conn, woken>> /\ Quiet

\* The select is polled again after a wake-up, from its first future on.
Wake ==
    /\ apc = "asleep" /\ (woken \/ IsNotified(accept_event, "close"))
    /\ Ago("poll") /\ UNCHANGED <<sock, slot, accept_event, chan, conn, woken>> /\ Quiet

Swap ==
    /\ apc = "swap"
    /\ LET h == CHOOSE x \in Handles : sock[x] = None    \* Inner.stack.sockets.add()
       IN  /\ sock' = [sock EXCEPT ![h] = "listen"]
           /\ slot' = h /\ conn' = slot
    /\ Ago("send") /\ UNCHANGED <<accept_event, chan, woken>> /\ Quiet

\* tx.send(): with no receiver left the connection is dropped, and its socket removed.
Send ==
    /\ apc = "send" /\ conn' = None
    /\ IF IsClosed
       THEN Ago("close") /\ sock' = [sock EXCEPT ![conn] = None] /\ UNCHANGED chan
       ELSE Ago("loop") /\ chan' = Append(chan, conn) /\ UNCHANGED sock
    /\ accept_event' = DropListener(accept_event, "full")
    /\ UNCHANGED <<slot, woken>> /\ Quiet

\* Inner::close() of the socket in the slot; then the task's references are dropped,
\* with the channel and the connections in it.  FIN_TIMEOUT bounds the wait.
Gone(s, hs) == [h \in Handles |-> IF h \in hs THEN None ELSE s[h]]
End ==
    /\ apc = "close" /\ Ago("ended") /\ tx' = FALSE /\ chan' = <<>>
    /\ sock' = Gone([sock EXCEPT ![slot] = "closed"],
                    Range(chan) \cup (IF upc = "gone" THEN {slot} ELSE {}))
    /\ accept_event' = DropListener(accept_event, "full")
    /\ UNCHANGED <<slot, conn, woken, accepts, cpc, got, upc>>

AcceptTask ==
    \/ Loop \/ WaitFull \/ RoomHeard \/ PollEstablished \/ CloseEvent \/ Wake
    \/ Swap \/ Send \/ End
-----------------------------------------------------------------------------
\* accept(): a clone of the receiver, recv(), notify(1); poll_with() may give up.
Cgo(c, l) == cpc' = [cpc EXCEPT ![c] = l]
Accept(c) ==
    /\ cpc[c] = "idle" /\ upc = "open" /\ accepts /\ Cgo(c, "recv")
    /\ UNCHANGED <<sock, slot, accept_event, accepts, chan, tx, apc, conn, woken, got, upc>>
Recv(c) ==
    /\ cpc[c] = "recv" /\ chan # <<>> /\ Cgo(c, "notify")
    /\ got' = [got EXCEPT ![c] = Head(chan)] /\ chan' = Tail(chan)
    /\ UNCHANGED <<sock, slot, accept_event, accepts, tx, apc, conn, woken, upc>>
AcceptNotify(c) ==
    /\ cpc[c] = "notify" /\ Cgo(c, "conn") /\ accept_event' = Notify(accept_event, 1)
    /\ UNCHANGED <<sock, slot, accepts, chan, tx, apc, conn, woken, got, upc>>
TimedOut(c) ==
    /\ cpc[c] = "recv" /\ Cgo(c, "idle")
    /\ UNCHANGED <<sock, slot, accept_event, accepts, chan, tx, apc, conn, woken, got, upc>>

\* The caller closes its connection and drops it; Inner::drop removes the socket.
CloseConn(c) ==
    /\ cpc[c] = "conn" /\ Cgo(c, "idle")
    /\ sock' = [sock EXCEPT ![got[c]] = None] /\ got' = [got EXCEPT ![c] = None]
    /\ UNCHANGED <<slot, accept_event, accepts, chan, tx, apc, conn, woken, upc>>
-----------------------------------------------------------------------------
\* Socket::close(): accept.take(), then notify(1).  Socket::drop notifies while the
\* field still holds the receiver.
Ugo(from, to) == upc = from /\ upc' = to
Others == UNCHANGED <<slot, chan, tx, apc, conn, woken, cpc, got>>
Close ==
    \/ /\ Ugo("open", "taken") /\ accepts' = FALSE
       /\ UNCHANGED <<sock, accept_event>> /\ Others
    \/ /\ Ugo("taken", "closed") /\ accept_event' = Notify(accept_event, 1)
       /\ UNCHANGED <<sock, accepts>> /\ Others
DropOpen ==
    /\ "drop" \in Faults /\ Ugo("open", "dropping") /\ accept_event' = Notify(accept_event, 1)
    /\ UNCHANGED <<sock, accepts>> /\ Others
DropSocket ==
    /\ upc \in {"closed", "dropping"} /\ upc' = "gone" /\ accepts' = FALSE
    /\ \A c \in Callers : cpc[c] \notin {"recv", "notify"}
    /\ sock' = IF apc = "ended" THEN [sock EXCEPT ![slot] = None] ELSE sock
    /\ UNCHANGED accept_event /\ Others

\* The peers, through the network stack; a change of state wakes the registered waker.
Step(from, to) ==
    /\ sock[slot] = from /\ apc # "ended"
    /\ sock' = [sock EXCEPT ![slot] = to] /\ woken' = TRUE
    /\ UNCHANGED <<slot, accept_event, accepts, chan, tx, apc, conn, cpc, got, upc>>
Connect == Step("listen", "established")
Reset == "reset" \in Faults /\ Step("established", "closed")
-----------------------------------------------------------------------------
Caller(c) == Recv(c) \/ AcceptNotify(c)
Next ==
    \/ AcceptTask
    \/ \E c \in Callers : Accept(c) \/ Recv(c) \/ AcceptNotify(c) \/ TimedOut(c) \/ CloseConn(c)
    \/ Close \/ DropOpen \/ DropSocket \/ Connect \/ Reset

\* The executor polls a woken task.
Fairness ==
    WF_tcvars(AcceptTask) /\ \A c \in Callers : WF_tcvars(Caller(c))
Spec == Init /\ [][Next]_tcvars /\ Fairness
-----------------------------------------------------------------------------
(* PROPERTIES *)

Owners(h) ==
    {c \in Callers : got[c] = h}
    \cup (IF h = slot /\ (apc # "ended" \/ upc # "gone") THEN {"slot"} ELSE {})
    \cup {i \in DOMAIN chan : chan[i] = h}
    \cup (IF apc = "send" /\ conn = h THEN {"task"} ELSE {})

\* Every socket of the SocketSet has exactly one owner (the listening socket's slot, the
\* accept task, the channel or a caller), and only these have owners: a handle in two
\* places would be removed twice, the second time as somebody else's socket, and one in
\* no place would keep its buffers for ever.
OneOwner == \A h \in Handles : Cardinality(Owners(h)) = IF sock[h] = None THEN 0 ELSE 1

\* At most `backlog` connections wait in the channel.
BacklogKept == Len(chan) <= Backlog

\* `rx.recv().await.unwrap()` in accept() cannot panic: as long as a caller holds a
\* clone of the receiver, the accept task has not dropped the sender.
AcceptSafe == \A c \in Callers : cpc[c] = "recv" => tx

\* A connection and a caller that waits for one meet: the task that slept because the
\* channel was full hears of the room, and the one that slept without a connection
\* hears of the connection.
Meet ==
    \A c \in Callers :
        []<>(cpc[c] # "recv" \/ sock[slot] # "established")
=============================================================================
