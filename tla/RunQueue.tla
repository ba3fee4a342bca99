------------------------------ MODULE RunQueue ------------------------------
(***************************************************************************)
(* The work-stealing run queues of the executor                            *)
(* (mizu/lib/art/src/queue.rs): one `Local` per worker, whose `Stealer`    *)
(* every worker has.                                                       *)
(*                                                                         *)
(* `head` packs two counters, `tail` is a third; all of them are u32s that *)
(* wrap (Wrap stands for 2^32, a multiple of N as there).  A step is one   *)
(* access to a shared counter, one copy of a slot, or a write that only    *)
(* the owner of the buffer can see.  Loops that only retry a               *)
(* compare_exchange of `head` with what it found are one step.  Reading a  *)
(* slot moves the task out of it and leaves None (MaybeUninit).            *)
(***************************************************************************)
EXTENDS Integers, Sequences, FiniteSets, SequencesExt

CONSTANTS Workers,    \* the harts
          Tasks,      \* the Runnables
          N,          \* capacity of a queue
          Wrap,       \* the counters are taken modulo Wrap
          Start,      \* value of all counters at the beginning
          PushLimit,  \* bound: how far a tail may move from Start
          None        \* no task

ASSUME QueueAssumption ==
    /\ N \in Nat /\ N >= 2 /\ N % 2 = 0
    /\ Wrap \in Nat /\ Wrap > N /\ Wrap % N = 0
    /\ Start \in 0..(Wrap - 1)
    /\ PushLimit \in 0..(Wrap - 1)
    /\ None \notin Tasks

VARIABLES head,      \* Inner::head, unpacked: [steal, real]
          tail,      \* Inner::tail
          buffer,    \* Inner::buffer
          injected,  \* what `inject` put into the injector
          out,       \* tasks that are not scheduled
          pc,        \* where in an operation each worker is
          task,      \* the value it pushes or has taken
          seen,      \* the head it loaded, or the one its exchange replaced
          victim,    \* whose queue it steals from
          cnt,       \* how many tasks it steals
          copied     \* how many of them it has copied

shared == <<head, tail, buffer, injected, out>>
locals == <<pc, task, seen, victim, cnt, copied>>
vars == <<shared, locals>>

Add(a, k) == (a + k) % Wrap       \* wrapping_add
Sub(a, b) == (a - b) % Wrap       \* wrapping_sub
Slot(c) == c % N                  \* c & MASK
Half == N \div 2                  \* BATCH_TO_BACKUP
Pack(s, r) == [steal |-> s, real |-> r]

Init ==
    /\ head = [w \in Workers |-> Pack(Start, Start)]
    /\ tail = [w \in Workers |-> Start]
    /\ buffer = [w \in Workers |-> [i \in 0..(N - 1) |-> None]]
    /\ injected = <<>>
    /\ out = Tasks
    /\ pc = [w \in Workers |-> "idle"]
    /\ task = [w \in Workers |-> None]
    /\ seen = [w \in Workers |-> Pack(0, 0)]
    /\ victim = [w \in Workers |-> w]
    /\ cnt = [w \in Workers |-> 0]
    /\ copied = [w \in Workers |-> 0]

Goto(w, l) == pc' = [pc EXCEPT ![w] = l]
Hold(w, t) == task' = [task EXCEPT ![w] = t]
See(w, h) == seen' = [seen EXCEPT ![w] = h]
SetHead(w, h) == head' = [head EXCEPT ![w] = h]
Room(w, k) == Sub(tail[w], Start) + k <= PushLimit   \* the bound on the run

\* Back to the caller: the locals of the operation are gone.
Return(w) ==
    /\ Goto(w, "idle")
    /\ Hold(w, None) /\ See(w, Pack(0, 0))
    /\ victim' = [victim EXCEPT ![w] = w]
    /\ cnt' = [cnt EXCEPT ![w] = 0]
    /\ copied' = [copied EXCEPT ![w] = 0]
-----------------------------------------------------------------------------
(* Local::push *)

PushStart(w, t) ==
    /\ pc[w] = "idle" /\ t \in out /\ Room(w, 1)
    /\ out' = out \ {t}
    /\ Hold(w, t) /\ Goto(w, "push")
    /\ UNCHANGED <<head, tail, buffer, injected, seen, victim, cnt, copied>>

PushLoad(w) ==
    /\ pc[w] = "push"
    /\ See(w, head[w])
    /\ Goto(w, "pushing")
    /\ UNCHANGED <<shared, task, victim, cnt, copied>>

IsFullReal(w) == Sub(tail[w], seen[w].real) >= N    \* mutant: ignores the thief

IsFull(w) == Sub(tail[w], seen[w].steal) >= N

\* There is room: write the slot, then publish it.
PushStore(w) ==
    /\ pc[w] = "pushing" /\ ~IsFull(w)
    /\ buffer' = [buffer EXCEPT ![w][Slot(tail[w])] = task[w]]
    /\ tail' = [tail EXCEPT ![w] = Add(@, 1)]
    /\ Return(w)
    /\ UNCHANGED <<head, injected, out>>

\* Full, and a thief is at work: inject.
PushInject(w) ==
    /\ pc[w] = "pushing" /\ IsFull(w)
    /\ seen[w].steal # seen[w].real
    /\ injected' = Append(injected, task[w])
    /\ Return(w)
    /\ UNCHANGED <<head, tail, buffer, out>>

\* push_contended: claim the older half, or start over.
PushContended(w) ==
    /\ pc[w] = "pushing" /\ IsFull(w)
    /\ seen[w].steal = seen[w].real
    /\ LET next == Add(seen[w].real, Half)
       IN  IF head[w] = seen[w]
           THEN SetHead(w, Pack(next, next)) /\ Goto(w, "backup")
           ELSE UNCHANGED head /\ Goto(w, "push")
    /\ UNCHANGED <<tail, buffer, injected, out, task, seen, victim, cnt, copied>>

BatchShort(w) ==    \* mutant: the last value of the batch is forgotten
    LET first == seen[w].real
    IN  [k \in 1..(Half - 1) |-> buffer[w][Slot(first + k - 1)]]

\* The batch is the range head..next_head of u32s: empty if next_head wrapped.
Batch(w) ==
    LET first == seen[w].real
        last  == Add(first, Half)
    IN  [k \in 1..(IF last >= first THEN last - first ELSE 0)
            |-> buffer[w][Slot(first + k - 1)]]

PushBackup(w) ==
    /\ pc[w] = "backup"
    /\ injected' = injected \o <<task[w]>> \o Batch(w)
    /\ buffer' = [buffer EXCEPT ![w] = [i \in DOMAIN @ |->
                    IF \E k \in DOMAIN Batch(w) : i = Slot(seen[w].real + k - 1) THEN None ELSE @[i]]]
    /\ Return(w)
    /\ UNCHANGED <<head, tail, out>>
-----------------------------------------------------------------------------
(* Local::pop *)

\* A thief may be at work below `real`: then only `real` moves.
PopClaim(w) ==
    /\ pc[w] = "idle"
    /\ head[w].real # tail[w]
    /\ LET next == Add(head[w].real, 1)
       IN  SetHead(w, Pack(IF head[w].steal = head[w].real THEN next ELSE head[w].steal, next))
    /\ See(w, head[w])
    /\ Goto(w, "popping")
    /\ UNCHANGED <<tail, buffer, injected, out, task, victim, cnt, copied>>

PopRead(w) ==
    /\ pc[w] = "popping"
    /\ Hold(w, buffer[w][Slot(seen[w].real)])
    /\ buffer' = [buffer EXCEPT ![w][Slot(seen[w].real)] = None]
    /\ See(w, Pack(0, 0))
    /\ Goto(w, "took")
    /\ UNCHANGED <<head, tail, injected, out, victim, cnt, copied>>

\* SegQueue::pop() of the injector.
PopInjector(w) ==
    /\ pc[w] = "idle" /\ injected # <<>>
    /\ Hold(w, Head(injected))
    /\ injected' = Tail(injected)
    /\ Goto(w, "took")
    /\ UNCHANGED <<head, tail, buffer, out, seen, victim, cnt, copied>>

\* The caller runs the task it got.
Run(w) ==
    /\ pc[w] = "took"
    /\ out' = out \cup {task[w]}
    /\ Return(w)
    /\ UNCHANGED <<head, tail, buffer, injected>>
-----------------------------------------------------------------------------
(* Stealer::steal_into_and_pop and steal_n *)

HasRoomForHalf(w) == Sub(tail[w], head[w].steal) <= Half

StealStart(w, v) ==
    /\ pc[w] = "idle" /\ HasRoomForHalf(w) /\ Room(w, Half)
    /\ victim' = [victim EXCEPT ![w] = v]
    /\ See(w, head[v])
    /\ Goto(w, "sizing")
    /\ UNCHANGED <<shared, task, cnt, copied>>

\* Loads the tail of the victim; gives up if another thief is at work or if
\* there is nothing.
StealSize(w) ==
    /\ pc[w] = "sizing"
    /\ LET v == victim[w]
           len == Sub(tail[v], seen[w].real)
           n == len - len \div 2
       IN  IF seen[w].steal # seen[w].real \/ n = 0
           THEN Return(w)
           ELSE /\ cnt' = [cnt EXCEPT ![w] = n]
                /\ Goto(w, "claiming")
                /\ UNCHANGED <<task, seen, victim, copied>>
    /\ UNCHANGED shared

StealClaim(w) ==
    /\ pc[w] = "claiming"
    /\ LET v == victim[w]
       IN  IF head[v] = seen[w]
           THEN /\ SetHead(v, Pack(seen[w].steal, Add(seen[w].real, cnt[w])))
                /\ Goto(w, "copying")
                /\ UNCHANGED <<seen, cnt>>
           ELSE /\ See(w, head[v])
                /\ cnt' = [cnt EXCEPT ![w] = 0]
                /\ Goto(w, "sizing")
                /\ UNCHANGED head
    /\ UNCHANGED <<tail, buffer, injected, out, task, victim, copied>>

StealCopy(w) ==
    /\ pc[w] = "copying" /\ copied[w] < cnt[w]
    /\ LET src == Slot(Add(seen[w].steal, copied[w]))
           dst == Slot(Add(tail[w], copied[w]))
       IN  buffer' = [buffer EXCEPT ![w][dst] = buffer[victim[w]][src], ![victim[w]][src] = None]
    /\ copied' = [copied EXCEPT ![w] = @ + 1]
    /\ UNCHANGED <<head, tail, injected, out, pc, task, seen, victim, cnt>>

StealFinishStale(w) ==    \* mutant: `steal` and `real` become what was claimed
    /\ pc[w] = "copying" /\ copied[w] = cnt[w]
    /\ LET c == Add(seen[w].real, cnt[w]) IN SetHead(victim[w], Pack(c, c))
    /\ Goto(w, "settling")
    /\ UNCHANGED <<tail, buffer, injected, out, task, seen, victim, cnt, copied>>

\* The loop that sets `steal` to `real`, wherever pops have moved that.
StealFinish(w) ==
    /\ pc[w] = "copying" /\ copied[w] = cnt[w]
    /\ LET v == victim[w] IN SetHead(v, Pack(head[v].real, head[v].real))
    /\ Goto(w, "settling")
    /\ UNCHANGED <<tail, buffer, injected, out, task, seen, victim, cnt, copied>>

\* Keep the last of the stolen tasks, publish the others.
StealSettle(w) ==
    /\ pc[w] = "settling"
    /\ Hold(w, buffer[w][Slot(Add(tail[w], cnt[w] - 1))])
    /\ buffer' = [buffer EXCEPT ![w][Slot(Add(tail[w], cnt[w] - 1))] = None]
    /\ tail' = [tail EXCEPT ![w] = Add(@, cnt[w] - 1)]
    /\ See(w, Pack(0, 0))
    /\ victim' = [victim EXCEPT ![w] = w]
    /\ cnt' = [cnt EXCEPT ![w] = 0]
    /\ copied' = [copied EXCEPT ![w] = 0]
    /\ Goto(w, "took")
    /\ UNCHANGED <<head, injected, out>>
-----------------------------------------------------------------------------
Next ==
    \E w \in Workers :
        \/ \E t \in Tasks : PushStart(w, t)
        \/ PushLoad(w) \/ PushStore(w) \/ PushInject(w) \/ PushContended(w) \/ PushBackup(w)
        \/ PopClaim(w) \/ PopRead(w) \/ PopInjector(w) \/ Run(w)
        \/ \E v \in Workers : StealStart(w, v)
        \/ StealSize(w) \/ StealClaim(w) \/ StealCopy(w) \/ StealFinish(w) \/ StealSettle(w)

Spec == Init /\ [][Next]_vars
-----------------------------------------------------------------------------
Counters == 0..(Wrap - 1)
Heads == [steal : Counters, real : Counters]

TypeOK ==
    /\ head \in [Workers -> Heads]
    /\ tail \in [Workers -> Counters]
    /\ buffer \in [Workers -> [0..(N - 1) -> Tasks \cup {None}]]
    /\ injected \in Seq(Tasks)
    /\ out \subseteq Tasks
    /\ pc \in [Workers -> {"idle", "push", "pushing", "backup", "popping", "took",
                           "sizing", "claiming", "copying", "settling"}]
    /\ task \in [Workers -> Tasks \cup {None}]
    /\ seen \in [Workers -> Heads]
    /\ victim \in [Workers -> Workers]
    /\ cnt \in [Workers -> 0..Wrap]
    /\ copied \in [Workers -> 0..Half]

\* What a queue holds, oldest first.
Contents(w) ==
    [k \in 1..Sub(tail[w], head[w].real) |-> buffer[w][Slot(Add(head[w].real, k - 1))]]

\* What an operation of w owns: the value it pushes or took, the batch it
\* claimed from its own queue, or the tasks it claimed from its victim, copied to
\* its own slots or not yet.
Hand(w) ==
    CASE pc[w] \in {"push", "pushing", "took"} -> <<task[w]>>
      [] pc[w] = "backup" ->
             <<task[w]>> \o [k \in 1..Half |-> buffer[w][Slot(Add(seen[w].real, k - 1))]]
      [] pc[w] = "popping" -> <<buffer[w][Slot(seen[w].real)]>>
      [] pc[w] = "copying" ->
             [k \in 1..cnt[w] |->
                 IF k <= copied[w] THEN buffer[w][Slot(Add(tail[w], k - 1))]
                                   ELSE buffer[victim[w]][Slot(Add(seen[w].steal, k - 1))]]
      [] pc[w] = "settling" -> [k \in 1..cnt[w] |-> buffer[w][Slot(Add(tail[w], k - 1))]]
      [] OTHER -> <<>>

Times(t, s) == Cardinality({k \in DOMAIN s : s[k] = t})

\* No task is lost and none is run twice: a task that is scheduled is at exactly
\* one place, through pushes into a full queue, pops that race with thieves,
\* several thieves, and half-done steals.
ExactlyOnce ==
    \A t \in Tasks :
        Times(t, injected)
        + FoldSet(LAMBDA w, n : n + Times(t, Contents(w)) + Times(t, Hand(w)), 0, Workers)
          = IF t \in out THEN 0 ELSE 1

\* steal <= real <= tail <= steal + N around the ring, so that the slots a thief
\* still reads are never the slot the owner writes next.
RingOrder ==
    \A w \in Workers :
        /\ Sub(head[w].real, head[w].steal) <= Sub(tail[w], head[w].steal)
        /\ Sub(tail[w], head[w].steal) <= N

\* The assertions of the code: the queue is full in push_contended, a pop does
\* not run into the claim of a thief, a thief takes at most half a queue, and the
\* claim it ends is still there.
AssertionsHold ==
    \A w \in Workers :
        /\ (pc[w] = "pushing" /\ IsFull(w) /\ seen[w].steal = seen[w].real)
               => Sub(tail[w], seen[w].real) = N
        /\ head[w].steal # head[w].real => head[w].steal # Add(head[w].real, 1)
        /\ pc[w] = "copying" =>
               /\ cnt[w] <= Half
               /\ head[victim[w]].steal = seen[w].steal
               /\ head[victim[w]].steal # head[victim[w]].real

\* What the ring itself has to keep: the order of its tasks, and the assertions of the code.
RingSound == TypeOK /\ RingOrder /\ AssertionsHold

\* The queues behave like the FIFO queues of module StealQueues.
AbstractQueues == INSTANCE StealQueues WITH
    queue <- [w \in Workers |-> Contents(w)],
    hand <- [w \in Workers |-> Hand(w)]
ImplementsStealQueues == AbstractQueues!QSpec

\* Tasks and workers are interchangeable (for TLC).
Symmetry == Permutations(Workers) \cup Permutations(Tasks)
=============================================================================
