------------------------------ MODULE SocketIo ------------------------------
(***************************************************************************)
(* Sending and receiving through a connected socket: the loops of          *)
(* SocketFile::send and receive over the slices of the caller's buffer     *)
(* (mizu/kernel/src/fs/socket.rs), each turn of which polls the TCP socket *)
(* (lib/devices/src/net/socket/tcp.rs) under poll_with() and its timeout   *)
(* (kernel/src/trap.rs).  Bytes are counted: a slice is its length, which  *)
(* is not 0, and a direction of the connection is the number of bytes that *)
(* fit in, or wait in, smoltcp's buffer.                                   *)
(***************************************************************************)
EXTENDS Integers, Sequences, SequencesExt

CONSTANTS Cap,        \* BUFFER_CAP
          Iovecs,     \* buffers: sequences of slice lengths
          Timeouts    \* "none", "zero" (a nonblocking descriptor) or "some"

Dirs == {"send", "recv"}

VARIABLES avail,     \* room in the send buffer, data in the receive buffer
          peer,      \* the peer's side: "open", "fin" or "reset"
          reg,       \* the waker of the direction is registered
          iopc, iov, done, limit,    \* the call: where, what is left, sent_len, timeout
          owed       \* bytes that went through smoltcp's buffer and no call reported

sivars == <<avail, peer, reg, iopc, iov, done, limit, owed>>

Init ==
    /\ avail = [d \in Dirs |-> IF d = "send" THEN Cap ELSE 0] /\ peer = "open"
    /\ reg = [d \in Dirs |-> FALSE]
    /\ iopc = [d \in Dirs |-> "idle"] /\ iov = [d \in Dirs |-> <<>>]
    /\ done = [d \in Dirs |-> 0] /\ limit = [d \in Dirs |-> "none"]
    /\ owed = [d \in Dirs |-> 0]

Go(d, l) == iopc' = [iopc EXCEPT ![d] = l]

\* sendto(), recvfrom(), read(), write(): the timeout of the call.
Call(d) ==
    /\ iopc[d] = "idle"
    /\ \E v \in Iovecs, t \in Timeouts :
          iov' = [iov EXCEPT ![d] = v] /\ limit' = [limit EXCEPT ![d] = t]
    /\ done' = [done EXCEPT ![d] = 0] /\ Go(d, "poll")
    /\ UNCHANGED <<avail, peer, reg, owed>>

Return(d, n) == Go(d, "idle") /\ owed' = [owed EXCEPT ![d] = @ - n]
\* An error after some progress is not reported.
Fail(d) == IF done[d] # 0 THEN Return(d, done[d]) ELSE Go(d, "idle") /\ UNCHANGED owed

\* umio::advance_slices
Advance(v, n) == IF n = Head(v) THEN Tail(v) ELSE <<Head(v) - n>> \o Tail(v)

Least(a, b) == IF a < b THEN a ELSE b
Ended(d) == d = "recv" /\ peer = "fin" /\ avail[d] = 0

\* poll_send() and poll_receive() under the lock of the stack, as the loop calls them.
Over(d) ==    \* no slice is left
    /\ iopc[d] = "poll" /\ iov[d] = <<>> /\ Return(d, done[d])
    /\ UNCHANGED <<avail, peer, reg, iov, done, limit>>
Move(d) ==
    /\ iopc[d] = "poll" /\ iov[d] # <<>> /\ peer # "reset" /\ avail[d] > 0
    /\ LET n == Least(Head(iov[d]), avail[d])
       IN  /\ avail' = [avail EXCEPT ![d] = @ - n]
           /\ owed' = [owed EXCEPT ![d] = @ + n]
           /\ done' = [done EXCEPT ![d] = @ + n]
           /\ iov' = [iov EXCEPT ![d] = Advance(@, n)]
    /\ UNCHANGED <<peer, reg, iopc, limit>>
EndOfStream(d) ==    \* RecvError::Finished is Ok(0)
    /\ iopc[d] = "poll" /\ iov[d] # <<>> /\ Ended(d) /\ Return(d, done[d])
    /\ UNCHANGED <<avail, peer, reg, iov, done, limit>>
Refused(d) ==        \* InvalidState is ECONNREFUSED
    /\ iopc[d] = "poll" /\ iov[d] # <<>> /\ peer = "reset" /\ Fail(d)
    /\ UNCHANGED <<avail, peer, reg, iov, done, limit>>
Pend(d) ==           \* Ok(0): register; a poll_once() gives EAGAIN
    /\ iopc[d] = "poll" /\ iov[d] # <<>> /\ peer # "reset" /\ avail[d] = 0 /\ ~Ended(d)
    /\ reg' = [reg EXCEPT ![d] = TRUE]
    /\ IF limit[d] = "zero" THEN Fail(d) ELSE Go(d, "wait") /\ UNCHANGED owed
    /\ UNCHANGED <<avail, peer, iov, done, limit>>
TimeOut(d) ==
    /\ iopc[d] = "wait" /\ limit[d] = "some" /\ Fail(d)
    /\ UNCHANGED <<avail, peer, reg, iov, done, limit>>
-----------------------------------------------------------------------------
\* smoltcp wakes a registered waker when it takes bytes out, puts bytes in, or the
\* state of the socket changes.  A waker of a call that is over wakes its task for
\* nothing.
Woken(ds) ==
    /\ reg' = [d \in Dirs |-> reg[d] /\ d \notin ds]
    /\ iopc' = [d \in Dirs |-> IF d \in ds /\ reg[d] /\ iopc[d] = "wait" THEN "poll" ELSE iopc[d]]
Network(d) ==
    /\ peer = "open" /\ avail[d] < Cap
    /\ \E n \in 1..(Cap - avail[d]) : avail' = [avail EXCEPT ![d] = @ + n]
    /\ Woken({d}) /\ UNCHANGED <<peer, iov, done, limit, owed>>
Hangup(how) ==
    /\ peer = "open" /\ peer' = how /\ Woken(Dirs)
    /\ UNCHANGED <<avail, iov, done, limit, owed>>
-----------------------------------------------------------------------------
Poll(d) == Over(d) \/ Move(d) \/ EndOfStream(d) \/ Refused(d) \/ Pend(d)
Next ==
    \/ \E d \in Dirs : Call(d) \/ Poll(d) \/ TimeOut(d) \/ Network(d)
    \/ \E how \in {"fin", "reset"} : Hangup(how)

Spec == Init /\ [][Next]_sivars
-----------------------------------------------------------------------------
(* PROPERTIES *)

\* When a call has returned, the calls have reported exactly the bytes that went through
\* the buffer: no timeout and no error makes a caller resend, or miss, bytes that moved.
ToldAll == \A d \in Dirs : iopc[d] = "idle" => owed[d] = 0

\* The slices that are left and what the call moved add up to its buffer.
BufferFilled ==
    \A d \in Dirs : iopc[d] # "idle" =>
        \E v \in Iovecs : FoldSeq(+, 0, v) = done[d] + FoldSeq(+, 0, iov[d])

\* A call sleeps only while no byte can be moved and the connection is not over: the
\* waker is registered under the lock under which the buffer was found wanting.
NoMissedBytes ==
    \A d \in Dirs : iopc[d] = "wait" => avail[d] = 0 /\ peer # "reset" /\ ~Ended(d)
=============================================================================
