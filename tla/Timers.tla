------------------------------- MODULE Timers -------------------------------
(***************************************************************************)
(* The timers of ktime (mizu/lib/ktime/src/timer.rs): a task polls its     *)
(* Timer, which registers a waker in a queue of batched operations in      *)
(* front of a heap; the timer interrupt of every hart drains the queue and *)
(* wakes what is due. Instants are in microseconds.                        *)
(***************************************************************************)
EXTENDS Naturals, Sequences, FiniteSets

CONSTANTS Tasks,         \* each has one Timer
          PENDING_CAP,
          MaxTime,       \* bound: the last instant
          NIds,          \* bound: registrations that exist at a time
          Durations,     \* what timers are set to
          Periods        \* the periods of periodic timers

VARIABLES now,
          deadline, period, done, handle,   \* Timer; period 0 is Duration::MAX, handle 0 is None
          tpc,        \* "idle" (no timer), "poll" (runnable), "parked"
          heap,       \* TimerQueue::heap: entries [at, id, task]
          pending,    \* TimerQueue::pending: [op, at, id, task]
          waking      \* the wakers tick() has taken out and not yet called

tmvars == <<now, deadline, period, done, handle, tpc, heap, pending, waking>>

Init ==
    /\ now = 0 /\ heap = {} /\ pending = <<>> /\ waking = {}
    /\ deadline = [t \in Tasks |-> 0] /\ period = [t \in Tasks |-> 0]
    /\ done = [t \in Tasks |-> FALSE] /\ handle = [t \in Tasks |-> 0]
    /\ tpc = [t \in Tasks |-> "idle"]

Entry(b) == [at |-> b.at, id |-> b.id, task |-> b.task]
Apply(h, b) == IF b.op = "insert" THEN h \cup {Entry(b)} ELSE {e \in h : e.id # b.id}

\* The heap after the first n batched operations.
Drained(h, ops, n) ==
    LET after[i \in 0..n] == IF i = 0 THEN h ELSE Apply(after[i - 1], ops[i])
    IN  after[n]

Lesser(m, n) == IF m < n THEN m ELSE n

\* proc_batch(): the operation that found the queue full first, then the queue.
ProcBatch(more, h) ==
    LET h1 == IF more = <<>> THEN h ELSE Apply(h, more[1])
    IN  Drained(h1, pending, Lesser(Len(pending), PENDING_CAP))
Undrained == SubSeq(pending, PENDING_CAP + 1, Len(pending))

\* TimerQueue::insert() and remove(), one after the other as a poll calls them.
Submit(q, h, b) ==
    IF Len(q) < PENDING_CAP
    THEN [q |-> Append(q, b), h |-> h]
    ELSE [q |-> <<>>, h |-> Drained(Apply(h, b), q, Len(q))]
Submits(ops) ==
    LET after[i \in 0..Len(ops)] ==
            IF i = 0 THEN [q |-> pending, h |-> heap]
            ELSE Submit(after[i - 1].q, after[i - 1].h, ops[i])
    IN  pending' = after[Len(ops)].q /\ heap' = after[Len(ops)].h

\* insert()'s ID: the counter never repeats a number, the model none that is in use.
UsedIds ==
    {e.id : e \in heap \cup waking} \cup {pending[i].id : i \in DOMAIN pending}
        \cup {handle[t] : t \in Tasks}
Fresh == (1..NIds) \ UsedIds
NewId == CHOOSE i \in Fresh : \A j \in Fresh : i <= j

Ins(t, at) == [op |-> "insert", at |-> at, id |-> NewId, task |-> t]
Rem(t) == [op |-> "remove", at |-> deadline[t], id |-> handle[t], task |-> t]
Clear(t) == IF handle[t] = 0 THEN <<>> ELSE <<Rem(t)>>

\* Instants start at 0 and the last registration ends in MaxTime.
Room(at) == at <= MaxTime
-----------------------------------------------------------------------------
\* Timer::after(), set_deadline(), set_period() on an idle task's timer or one whose task
\* gives up waiting for it.
Set(t, d, p) ==
    /\ tpc[t] \in {"idle", "poll"} /\ Room(now + d)
    /\ Submits(Clear(t)) /\ handle' = [handle EXCEPT ![t] = 0]
    /\ deadline' = [deadline EXCEPT ![t] = now + d] /\ period' = [period EXCEPT ![t] = p]
    /\ done' = [done EXCEPT ![t] = FALSE] /\ tpc' = [tpc EXCEPT ![t] = "poll"]
    /\ UNCHANGED <<now, waking>>

\* poll_next() after the deadline: the entry is removed; a periodic timer registers again.
PollReady(t) ==
    /\ tpc[t] = "poll" /\ ~done[t] /\ now >= deadline[t]
    /\ LET again == period[t] # 0 /\ Room(deadline[t] + period[t])
       IN  /\ again => Fresh # {}
           /\ Submits(Clear(t) \o (IF again THEN <<Ins(t, deadline[t] + period[t])>> ELSE <<>>))
           /\ deadline' = [deadline EXCEPT ![t] = IF again THEN @ + period[t] ELSE @]
           /\ handle' = [handle EXCEPT ![t] = IF again THEN NewId ELSE 0]
           /\ done' = [done EXCEPT ![t] = ~again]
           /\ tpc' = [tpc EXCEPT ![t] = IF again THEN "poll" ELSE "idle"]
    /\ UNCHANGED <<now, period, waking>>

\* poll_next() before it: a first registration, ...
PollFirst(t) ==
    /\ tpc[t] = "poll" /\ ~done[t] /\ now < deadline[t] /\ handle[t] = 0 /\ Fresh # {}
    /\ Submits(<<Ins(t, deadline[t])>>)
    /\ handle' = [handle EXCEPT ![t] = NewId]
    /\ tpc' = [tpc EXCEPT ![t] = "parked"]
    /\ UNCHANGED <<now, deadline, period, done, waking>>

PollAgainRemove(t) ==    \* mutant: the new waker is not registered
    /\ tpc[t] = "poll" /\ ~done[t] /\ now < deadline[t] /\ handle[t] # 0
    /\ Submits(<<Rem(t)>>) /\ tpc' = [tpc EXCEPT ![t] = "parked"]
    /\ UNCHANGED <<now, deadline, period, done, handle, waking>>

\* ... another waker than the registered one, ...
PollAgain(t) ==
    /\ tpc[t] = "poll" /\ ~done[t] /\ now < deadline[t] /\ handle[t] # 0
    /\ Fresh # {}
    /\ Submits(<<Rem(t), Ins(t, deadline[t])>>)
    /\ handle' = [handle EXCEPT ![t] = NewId]
    /\ tpc' = [tpc EXCEPT ![t] = "parked"]
    /\ UNCHANGED <<now, deadline, period, done, waking>>

\* ... or the same one: nothing to do.
PollSame(t) ==
    /\ tpc[t] = "poll" /\ ~done[t] /\ now < deadline[t] /\ handle[t] # 0
    /\ tpc' = [tpc EXCEPT ![t] = "parked"]
    /\ UNCHANGED <<now, deadline, period, done, handle, heap, pending, waking>>

\* The task is woken by something else (OnTimeout polls the inner future too).
OtherWake(t) ==
    /\ tpc[t] = "parked" /\ tpc' = [tpc EXCEPT ![t] = "poll"]
    /\ UNCHANGED <<now, deadline, period, done, handle, heap, pending, waking>>

\* Timer::drop(), when the inner future was ready.
Drop(t) ==
    /\ tpc[t] = "poll" /\ Submits(Clear(t)) /\ handle' = [handle EXCEPT ![t] = 0]
    /\ tpc' = [tpc EXCEPT ![t] = "idle"] /\ done' = [done EXCEPT ![t] = TRUE]
    /\ UNCHANGED <<now, deadline, period, waking>>
-----------------------------------------------------------------------------

\* tick(), under the lock of the heap: everything before now + 1 microsecond.
Tick ==
    /\ LET h == ProcBatch(<<>>, heap)
           due == {e \in h : e.at < now + 1}
       IN  heap' = h \ due /\ waking' = waking \cup due
    /\ pending' = Undrained
    /\ UNCHANGED <<now, deadline, period, done, handle, tpc>>

\* The wakers are called after the lock is released. A stale one wakes for nothing.
TickWake(e) ==
    /\ e \in waking /\ waking' = waking \ {e}
    /\ tpc' = [tpc EXCEPT ![e.task] = IF @ = "parked" THEN "poll" ELSE @]
    /\ UNCHANGED <<now, deadline, period, done, handle, heap, pending>>

Clock ==
    /\ now < MaxTime /\ now' = now + 1
    /\ UNCHANGED <<deadline, period, done, handle, tpc, heap, pending, waking>>

Polls(t) == PollReady(t) \/ PollFirst(t) \/ PollSame(t)

Next ==
    \/ \E t \in Tasks : Polls(t) \/ PollAgain(t) \/ OtherWake(t) \/ Drop(t)
    \/ \E t \in Tasks, d \in Durations, p \in Periods \cup {0} : Set(t, d, p)
    \/ Tick \/ (\E e \in waking : TickWake(e)) \/ Clock

\* Time passes, the timer interrupt comes again and again, wakers are called and the
\* executor polls what is woken.
Spec ==
    /\ Init /\ [][Next]_tmvars
    /\ WF_tmvars(Clock) /\ WF_tmvars(Tick) /\ WF_tmvars(\E e \in waking : TickWake(e))
    /\ \A t \in Tasks : WF_tmvars(Polls(t))
-----------------------------------------------------------------------------
\* What the heap will hold when the queue has been drained.
Settled == Drained(heap, pending, Len(pending))

\* A parked task is registered for its deadline, or its waker is about to be called: no
\* order of registrations, removals, overflows of the queue and ticks loses it.
Registered ==
    \A t \in Tasks : tpc[t] = "parked" =>
        \E e \in Settled \cup waking : e.id = handle[t] /\ e.at = deadline[t]

\* A task that waits for its timer is woken.
SleepEnds == \A t \in Tasks : []<>(tpc[t] # "parked")
=============================================================================
