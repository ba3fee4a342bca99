-------------------------------- MODULE Poll --------------------------------
(***************************************************************************)
(* Waiting for input: ppoll() and pselect() (mizu/kernel/src/task/fd/      *)
(* syscall/io.rs) over serial ports (mizu/kernel/src/dev/serial.rs and     *)
(* fs/serial.rs), whose interrupt handler queues bytes and notifies one    *)
(* listener for each.  One task polls the ports and reads them; a polled   *)
(* file is a future of FuturesUnordered.  A port only supports READABLE.   *)
(***************************************************************************)
EXTENDS Event

CONSTANTS Fds,           \* the descriptors, each one a port
          Len64,         \* words of an fd_set
          FD_SET_BITS,   \* bits of a word
          MaxInput,      \* bound: bytes in a queue
          Timeouts       \* subset of {"none", "some"}, a zero one included

VARIABLES input, input_ready,    \* Serial of each port
          slpc, timeout,         \* the call
          rd, wr,                \* its two sets, as words
          fut,                   \* the future of each polled file
          revents, count         \* its answer

plvars == <<input, input_ready, slpc, timeout, rd, wr, fut, revents, count>>

READABLE == "READABLE"
WRITABLE == "WRITABLE"
Pfds == Fds \X {READABLE, WRITABLE}
Words == 0..(Len64 - 1)
FdSets == [Words -> SUBSET (0..(FD_SET_BITS - 1))]
NoSet == <<>>
Listener == "task"

\* push_pfd(): the numbers whose bits are set.
Members(set) == UNION {{w * FD_SET_BITS + b : b \in set[w]} : w \in Words}
PushPfd(set, ev) == {<<fd, ev>> : fd \in Members(set)}

\* write_fd_set(): the bits of the numbers that had the event.
WriteFdSetWord(evs, ev) ==    \* mutant: the bit is not reduced to its word
    [w \in Words |-> {b \in 0..(FD_SET_BITS - 1) : \E p \in evs : p[2] = ev /\ p[1] = b /\ w = 0}]
WriteFdSet(evs, ev) ==
    [w \in Words |-> {p[1] % FD_SET_BITS : p \in {q \in evs : q[2] = ev /\ q[1] \div FD_SET_BITS = w}}]

Init ==
    /\ input = [f \in Fds |-> 0] /\ input_ready = [f \in Fds |-> NewEvent]
    /\ slpc = "idle" /\ timeout = "none"
    /\ rd = [w \in Words |-> {}] /\ wr = [w \in Words |-> {}]
    /\ fut = [p \in Pfds |-> "none"] /\ revents = {} /\ count = 0

\* poll_fds() is given some files; EBADF for a number that is not open.
PollFds(asked, d) ==
    /\ slpc = "idle" /\ asked # {} /\ asked \subseteq Pfds
    /\ slpc' = "first" /\ timeout' = d
    /\ fut' = [p \in Pfds |-> IF p \in asked THEN "check" ELSE "none"]
    /\ revents' = {} /\ count' = 0
    /\ UNCHANGED <<input, input_ready>>
Ppoll(asked, d) == PollFds(asked, d) /\ rd' = NoSet /\ wr' = NoSet
Pselect(r, w, d) ==
    PollFds(PushPfd(r, READABLE) \cup PushPfd(w, WRITABLE), d) /\ rd' = r /\ wr' = w
-----------------------------------------------------------------------------
\* Serial::event and Stdin::event: a look at the queue, a listener, another look.
Becomes(p, l) == fut' = [fut EXCEPT ![p] = l]
Ends(p, event) ==
    /\ Becomes(p, "done") /\ slpc' = "rest"
    /\ revents' = IF event THEN revents \cup {p} ELSE revents
    /\ count' = IF event THEN count + 1 ELSE count
Check(p) ==
    /\ fut[p] = "check"
    /\ IF p[2] # READABLE THEN Ends(p, FALSE)
       ELSE IF input[p[1]] > 0 THEN Ends(p, TRUE)
       ELSE Becomes(p, "listen") /\ UNCHANGED <<slpc, revents, count>>
    /\ UNCHANGED <<input, input_ready, timeout, rd, wr>>

ListenStdin(p) ==
    /\ fut[p] = "listen" /\ Becomes(p, "recheck")
    /\ input_ready' = [input_ready EXCEPT ![p[1]] = Listen(@, Listener)]
    /\ UNCHANGED <<input, slpc, timeout, rd, wr, revents, count>>

Dropped(e) == IF Listener \in Listeners(e) THEN DropListener(e, Listener) ELSE e
Recheck(p) ==
    /\ fut[p] = "recheck"
    /\ IF input[p[1]] > 0
       THEN Ends(p, TRUE) /\ input_ready' = [input_ready EXCEPT ![p[1]] = Dropped(@)]
       ELSE Becomes(p, "pending") /\ UNCHANGED <<input_ready, slpc, revents, count>>
    /\ UNCHANGED <<input, timeout, rd, wr>>

\* The waker of a future puts it in the queue of FuturesUnordered again.
Wake(p) ==
    /\ fut[p] = "pending" /\ IsNotified(input_ready[p[1]], Listener)
    /\ Becomes(p, "check")
    /\ input_ready' = [input_ready EXCEPT ![p[1]] = Consume(@, Listener)]
    /\ UNCHANGED <<input, slpc, timeout, rd, wr, revents, count>>

\* poll_fds() ends: with the first event it has polled every future that was queued,
\* without one its time is over.
AllPolled == \A p \in Pfds : fut[p] \in {"none", "pending", "done"}
Finish ==
    /\ slpc' = "idle" /\ fut' = [p \in Pfds |-> "none"]
    /\ input_ready' = [f \in Fds |-> Dropped(input_ready[f])]
    /\ rd' = IF rd = NoSet THEN NoSet ELSE WriteFdSet(revents, READABLE)
    /\ wr' = IF wr = NoSet THEN NoSet ELSE WriteFdSet(revents, WRITABLE)
    /\ UNCHANGED <<input, timeout, revents, count>>
Answer == slpc = "rest" /\ AllPolled /\ Finish
TimedOut == slpc = "first" /\ AllPolled /\ timeout # "none" /\ Finish

Step == (\E p \in Pfds : Check(p) \/ ListenStdin(p) \/ Recheck(p) \/ Wake(p)) \/ Answer \/ TimedOut
-----------------------------------------------------------------------------
\* ack_interrupt(): each byte received is queued and announced.
Interrupt(f) ==
    /\ input[f] < MaxInput /\ input' = [input EXCEPT ![f] = @ + 1]
    /\ input_ready' = [input_ready EXCEPT ![f] = Notify(@, 1)]
    /\ UNCHANGED <<slpc, timeout, rd, wr, fut, revents, count>>

\* Stdin::poll_next: the task takes a byte it was told of.
PollNext(f) ==
    /\ slpc = "idle" /\ <<f, READABLE>> \in revents /\ input[f] > 0
    /\ input' = [input EXCEPT ![f] = @ - 1]
    /\ UNCHANGED <<input_ready, slpc, timeout, rd, wr, fut, revents, count>>

Next ==
    \/ Step
    \/ \E f \in Fds : Interrupt(f) \/ PollNext(f)
    \/ \E asked \in SUBSET Pfds, d \in Timeouts : Ppoll(asked, d)
    \/ \E r, w \in FdSets, d \in Timeouts : Pselect(r, w, d)

Fairness == WF_plvars(Step)
Spec == Init /\ [][Next]_plvars /\ Fairness
-----------------------------------------------------------------------------
(* PROPERTIES *)

\* A task that sleeps in poll_fds() on a port with input has been notified: no byte
\* comes between the look at the queue and the listener unseen.
NoMissedInput ==
    \A p \in Pfds : fut[p] = "pending" /\ slpc = "first" /\ input[p[1]] > 0
                       => IsNotified(input_ready[p[1]], Listener)

\* When poll_fds() returns with an event, the ports it names were asked for and can be
\* read, the answer is their number, and they are what pselect() leaves in its sets.
AnswerExact ==
    [][slpc = "rest" /\ slpc' = "idle" =>
        /\ \A p \in revents : fut[p] # "none" /\ p[2] = READABLE /\ input[p[1]] > 0
        /\ count = Cardinality(revents)
        /\ rd # NoSet => PushPfd(rd', READABLE) = revents /\ PushPfd(wr', WRITABLE) = {}]_plvars

\* A call does not wait for ever on a port that has input.
InputSeen == []<>~(slpc = "first" /\ \E p \in Pfds : fut[p] # "none" /\ input[p[1]] > 0)
=============================================================================
