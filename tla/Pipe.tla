-------------------------------- MODULE Pipe --------------------------------
(***************************************************************************)
(* The pipe of the kernel (mizu/kernel/src/fs/pipe.rs): a queue of full    *)
(* pages between the page the readers empty and the page the writers fill, *)
(* each of these two under a spin lock, and an event for either side.  The *)
(* tasks that share one end call read() or write() on it concurrently; a   *)
(* byte is the number of its place in the stream.  Frame::new() is taken   *)
(* to succeed.                                                             *)
(***************************************************************************)
EXTENDS Event, SequencesExt

CONSTANTS Readers, Writers,
          PAGE_SIZE,     \* bytes in a page
          MaxBuffers,    \* Pipe.max_buffers
          Lens,          \* lengths of the buffers of read(), write(); 0: from event()
          MaxBytes,      \* bound: bytes written
          NoEnd

VARIABLES buffer, read_end, write_end, read_event, write_event,   \* Pipe
          txpart, rxpart,    \* Sender, Receiver: "live", then "drop" (in drop()), then "gone"
          reading,           \* the reader that has locked read_end
          ppc, plen,         \* where each task is, with which length
          wrote, nread       \* the bytes written and read so far

ppvars == <<buffer, read_end, write_end, read_event, write_event, txpart, rxpart,
            reading, ppc, plen, wrote, nread>>

Nobody == "nobody"
Parties == Readers \cup Writers

\* An End: the bytes between start and end, and end.
NewEnd == [data |-> <<>>, end |-> 0]
IsBufferFull(e) == e.end = PAGE_SIZE
IsEmpty(e) == e.data = <<>>
DataOf(e) == IF e = NoEnd THEN <<>> ELSE e.data
ShouldDiscard(e) == IsBufferFull(e) /\ IsEmpty(e)

Least(a, b) == IF a < b THEN a ELSE b
Numbers(from, n) == [i \in 1..n |-> from + i]

\* Arsc::count(): the field is dropped after the body of drop().
Count == Len(SelectSeq(<<txpart, rxpart>>, LAMBDA x : x # "gone"))

Init ==
    /\ buffer = <<>> /\ read_end = NoEnd /\ write_end = NoEnd
    /\ read_event = NewEvent /\ write_event = NewEvent
    /\ txpart = "live" /\ rxpart = "live" /\ reading = Nobody
    /\ ppc = [p \in Parties |-> "idle"] /\ plen = [p \in Parties |-> 0]
    /\ wrote = 0 /\ nread = 0

Goto(p, l) == ppc' = [ppc EXCEPT ![p] = l]

Call(p) ==
    /\ ppc[p] = "idle"
    /\ p \in Readers => rxpart = "live"
    /\ p \in Writers => txpart = "live"
    /\ \E n \in Lens : plen' = [plen EXCEPT ![p] = n]
    /\ Goto(p, "try")
    /\ UNCHANGED <<buffer, read_end, write_end, read_event, write_event, txpart, rxpart,
                   reading, wrote, nread>>
-----------------------------------------------------------------------------
\* End::read: what is left of e after n bytes.
ReadEnd(e, n) == [e EXCEPT !.data = SubSeq(@, Least(n, Len(@)) + 1, Len(@))]
Kept(e) == IF ShouldDiscard(e) THEN NoEnd ELSE e

\* read() returns: the task consumed the bytes between e and its rest.
Returned(p, e) ==
    /\ nread' = nread + Least(plen[p], Len(e.data))
    /\ Goto(p, "done") /\ reading' = Nobody

Pop == /\ buffer # <<>> /\ buffer' = Tail(buffer)
       /\ write_event' = Notify(write_event, Cardinality(Writers))

\* A page of the queue becomes the page of the readers.
ReadPopped(p) ==
    /\ Pop /\ read_end' = Kept(ReadEnd(Head(buffer), plen[p]))
    /\ Returned(p, Head(buffer))
    /\ UNCHANGED <<write_end, read_event, txpart, rxpart, plen, wrote>>

\* Receiver::read, first attempt, under the lock of read_end.
ReadFirst(p) ==
    /\ p \in Readers /\ ppc[p] = "try" /\ reading = Nobody
    /\ \/ /\ read_end # NoEnd
          /\ read_end' = Kept(ReadEnd(read_end, plen[p]))
          /\ Returned(p, read_end)
          /\ UNCHANGED <<buffer, write_end, read_event, write_event, txpart, rxpart, plen, wrote>>
       \/ read_end = NoEnd /\ ReadPopped(p)
       \/ /\ read_end = NoEnd /\ buffer = <<>>
          /\ reading' = p /\ Goto(p, "second")
          /\ UNCHANGED <<buffer, read_end, write_end, read_event, write_event, txpart, rxpart,
                         plen, wrote, nread>>


\* The second and third attempts, under the locks of both ends: the queue again,
\* then the page of the writers.  An empty one is dropped.
ReadSecond(p) ==
    /\ p \in Readers /\ ppc[p] = "second"
    /\ \/ ReadPopped(p)
       \/ /\ buffer = <<>> /\ DataOf(write_end) # <<>>
          /\ write_end' = Kept(ReadEnd(write_end, plen[p]))
          /\ Returned(p, write_end)
          /\ UNCHANGED <<buffer, read_end, read_event, write_event, txpart, rxpart, plen, wrote>>
       \/ /\ buffer = <<>> /\ DataOf(write_end) = <<>>
          /\ write_end' = NoEnd /\ reading' = Nobody /\ Goto(p, "none")
          /\ UNCHANGED <<buffer, read_end, read_event, write_event, txpart, rxpart, plen,
                         wrote, nread>>

\* Sender::write: the page of the writers, or a new one if the queue has room.
WriteTo(p) ==
    LET e    == IF write_end # NoEnd THEN write_end ELSE NewEnd
        n    == Least(plen[p], PAGE_SIZE - e.end)
        full == [data |-> e.data \o Numbers(wrote, n), end |-> e.end + n]
    IN  /\ p \in Writers /\ ppc[p] = "try"
        /\ wrote + plen[p] <= MaxBytes
        /\ \/ /\ write_end # NoEnd \/ Len(buffer) < MaxBuffers
              /\ IF IsBufferFull(full)
                 THEN buffer' = Append(buffer, full) /\ write_end' = NoEnd
                 ELSE write_end' = full /\ UNCHANGED buffer
              /\ wrote' = wrote + n /\ Goto(p, "notify")
           \/ /\ write_end = NoEnd /\ Len(buffer) >= MaxBuffers
              /\ Goto(p, "none") /\ UNCHANGED <<buffer, write_end, wrote>>
        /\ UNCHANGED <<read_end, read_event, write_event, txpart, rxpart, reading, plen, nread>>

WriteNotify(p) ==
    /\ ppc[p] = "notify" /\ read_event' = Notify(read_event, Cardinality(Readers))
    /\ Goto(p, "done")
    /\ UNCHANGED <<buffer, read_end, write_end, write_event, txpart, rxpart, reading, plen,
                   wrote, nread>>
-----------------------------------------------------------------------------
\* The event a task waits on.
EventOf(p) == IF p \in Readers THEN read_event ELSE write_event
SetEvent(p, e) ==
    IF p \in Readers THEN read_event' = e /\ UNCHANGED write_event
                     ELSE write_event' = e /\ UNCHANGED read_event
Unlistened(p) ==
    SetEvent(p, IF p \in Listeners(EventOf(p)) THEN DropListener(EventOf(p), p) ELSE EventOf(p))

\* The tail of both loops: with the other end gone the call is over (Ok(0), EPIPE);
\* otherwise it listens, tries again, and waits.
Blocked(p) ==
    /\ ppc[p] = "none"
    /\ \/ Count = 1 /\ Goto(p, "done") /\ UNCHANGED <<read_event, write_event>>
       \/ /\ Count # 1 /\ p \notin Listeners(EventOf(p))
          /\ SetEvent(p, Listen(EventOf(p), p)) /\ Goto(p, "try")
       \/ /\ Count # 1 /\ p \in Listeners(EventOf(p))
          /\ Goto(p, "wait") /\ UNCHANGED <<read_event, write_event>>
    /\ UNCHANGED <<buffer, read_end, write_end, txpart, rxpart, reading, plen, wrote, nread>>

\* l.await: the notification ends it and the listener is used up.
Wakes(p) ==
    /\ ppc[p] = "wait" /\ IsNotified(EventOf(p), p)
    /\ SetEvent(p, Consume(EventOf(p), p)) /\ Goto(p, "try")
    /\ UNCHANGED <<buffer, read_end, write_end, txpart, rxpart, reading, plen, wrote, nread>>

\* The future ends, or is dropped while it waits, with its listener.
End(p) ==
    /\ ppc[p] \in {"done", "wait"}
    /\ Unlistened(p) /\ Goto(p, "idle") /\ plen' = [plen EXCEPT ![p] = 0]
    /\ UNCHANGED <<buffer, read_end, write_end, txpart, rxpart, reading, wrote, nread>>

\* Drop for Sender, Drop for Receiver: no call is left on the end.
DropSender ==
    /\ txpart = "live" /\ \A p \in Writers : ppc[p] = "idle"
    /\ txpart' = "drop" /\ read_event' = Notify(read_event, Cardinality(Readers))
    /\ UNCHANGED <<buffer, read_end, write_end, write_event, rxpart, reading, ppc, plen, wrote, nread>>

DropReceiver ==
    /\ rxpart = "live" /\ \A p \in Readers : ppc[p] = "idle"
    /\ rxpart' = "drop" /\ write_event' = Notify(write_event, Cardinality(Writers))
    /\ UNCHANGED <<buffer, read_end, write_end, read_event, txpart, reading, ppc, plen, wrote, nread>>

DropField ==
    /\ \/ txpart = "drop" /\ txpart' = "gone" /\ UNCHANGED rxpart
       \/ rxpart = "drop" /\ rxpart' = "gone" /\ UNCHANGED txpart
    /\ UNCHANGED <<buffer, read_end, write_end, read_event, write_event, reading, ppc, plen,
                   wrote, nread>>

Run(p) == \/ ReadFirst(p) \/ ReadSecond(p) \/ WriteTo(p) \/ WriteNotify(p)
          \/ Blocked(p) \/ Wakes(p)

Next == \/ \E p \in Parties : Call(p) \/ Run(p) \/ End(p)
        \/ DropSender \/ DropReceiver \/ DropField

Spec == Init /\ [][Next]_ppvars /\ \A p \in Parties : WF_ppvars(Run(p))
-----------------------------------------------------------------------------
Queued == FlattenSeq([i \in DOMAIN buffer |-> buffer[i].data])

\* The stream is kept: what the page of the readers, the queue and the page of the
\* writers hold, in this order, is what was written and not yet read, in the order
\* it was written, whichever of the three places the concurrent reads took from.
StreamKept ==
    DataOf(read_end) \o Queued \o DataOf(write_end) = Numbers(nread, wrote - nread)

\* The assertions of read() and write() hold: a page that left the writers is full, and
\* it holds something.
PagesFull ==
    /\ \A i \in DOMAIN buffer : IsBufferFull(buffer[i]) /\ ~IsEmpty(buffer[i])
    /\ read_end # NoEnd => IsBufferFull(read_end) /\ ~IsEmpty(read_end)

Parked(p) == ppc[p] = "wait" /\ ~IsNotified(EventOf(p), p)

\* No wake-up is lost: a reader sleeps only while there is nothing to read, a writer
\* only while there is no room, unless the call that changed this is about to notify.
NoMissedData ==
    /\ \A p \in Readers : Parked(p) =>
           wrote = nread \/ \E q \in Writers : ppc[q] = "notify"
    /\ \A p \in Writers : Parked(p) => write_end = NoEnd /\ Len(buffer) >= MaxBuffers
=============================================================================
