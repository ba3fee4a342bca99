------------------------------ MODULE Executor ------------------------------
(***************************************************************************)
(* The executor (mizu/lib/art/src/sched.rs): one worker per hart, its      *)
(* preemption slot and run queue, the shared injector, and the loop that   *)
(* picks, steals and runs tasks.                                           *)
(*                                                                         *)
(* The run queues are the FIFO queues of module StealQueues, which         *)
(* RunQueue implements.  Tasks are woken by the task a hart runs or by an  *)
(* interrupt the hart takes at any point of its loop.                      *)
(***************************************************************************)
EXTENDS Naturals, Sequences, FiniteSets, Functions, SequenceTheorems, FiniteSetTheorems, TLAPS

CONSTANTS NumWorkers,  \* num: how many runners
          Tasks,       \* the futures
          Main,        \* the one of them that `start` spawns
          N,           \* WORKER_CAP
          Interval,    \* WORKER_TICK_INTERVAL
          None         \* no task

ASSUME ExecutorAssumption ==
    /\ NumWorkers \in Nat \ {0} /\ Interval \in Nat \ {0}
    /\ N \in Nat /\ N >= 2 /\ N % 2 = 0
    /\ None \notin Tasks /\ Main \in Tasks

VARIABLES injector,     \* Executor::injector
          shutdown,     \* Executor::shutdown
          preempt_slot, \* Worker::preempt_slot
          rq,           \* Worker::rq
          tick,         \* the loop counter, modulo Interval
          pc,           \* where in Context::run each worker is
          scan,         \* the stealers steal_task has still to visit
          cur,          \* the task a worker runs
          life          \* the state async_task keeps for each task

workerVars == <<preempt_slot, rq, tick, pc, scan, cur>>
vars == <<injector, shutdown, workerVars, life>>

Workers == 0..(NumWorkers - 1)

\* `start` puts the init task into the injector.
Init ==
    /\ injector = <<Main>>
    /\ shutdown = FALSE
    /\ preempt_slot = [w \in Workers |-> None]
    /\ rq = [w \in Workers |-> <<>>]
    /\ tick = [w \in Workers |-> 0]
    /\ pc = [w \in Workers |-> "loop"]
    /\ scan = [w \in Workers |-> <<>>]
    /\ cur = [w \in Workers |-> None]
    /\ life = [t \in Tasks |-> IF t = Main THEN "scheduled" ELSE "new"]

Goto(w, l) == pc' = [pc EXCEPT ![w] = l]
SetLife(t, s) == life' = [life EXCEPT ![t] = s]
-----------------------------------------------------------------------------
(* Context::enqueue and Worker::push *)

\* The worker is borrowed mutably while it picks or steals.
Borrowed(w) == pc[w] \in {"next", "steal"}

\* Local::push: a full queue spills its older half, or injects the task when a
\* thief is at work on it.
RqPush(w, t) ==
    \/ /\ Len(rq[w]) < N
       /\ rq' = [rq EXCEPT ![w] = Append(@, t)]
       /\ UNCHANGED injector
    \/ /\ Len(rq[w]) = N
       /\ rq' = [rq EXCEPT ![w] = SubSeq(@, N \div 2 + 1, N)]
       /\ injector' = injector \o <<t>> \o SubSeq(rq[w], 1, N \div 2)
    \/ /\ Len(rq[w]) = N /\ \E v \in Workers \ {w} : pc[v] = "steal"
       /\ injector' = Append(injector, t)
       /\ UNCHANGED rq

PushForgetful(w, t, yielded) ==    \* mutant: the replaced task is forgotten
    \/ yielded /\ RqPush(w, t) /\ UNCHANGED preempt_slot
    \/ /\ ~yielded
       /\ preempt_slot' = [preempt_slot EXCEPT ![w] = t]
       /\ UNCHANGED <<rq, injector>>

Push(w, t, yielded) ==
    \/ yielded /\ RqPush(w, t) /\ UNCHANGED preempt_slot
    \/ /\ ~yielded
       /\ preempt_slot' = [preempt_slot EXCEPT ![w] = t]
       /\ IF preempt_slot[w] = None
          THEN UNCHANGED <<rq, injector>>
          ELSE RqPush(w, preempt_slot[w])

\* The init task is always injected.  Outside of CX (the worker has left its
\* loop) any other task is dropped.
Enqueue(w, t, yielded) ==
    \/ /\ pc[w] = "exited" /\ t # Main
       /\ SetLife(t, "dropped")
       /\ UNCHANGED <<preempt_slot, rq, injector>>
    \/ /\ Borrowed(w) \/ t = Main
       /\ injector' = Append(injector, t)
       /\ SetLife(t, "scheduled")
       /\ UNCHANGED <<preempt_slot, rq>>
    \/ /\ pc[w] # "exited" /\ ~Borrowed(w) /\ t # Main
       /\ Push(w, t, yielded)
       /\ SetLife(t, "scheduled")

\* Executor::spawn.
Spawn(w, t) ==
    /\ pc[w] = "run" /\ life[t] = "new"
    /\ Enqueue(w, t, FALSE)
    /\ UNCHANGED <<shutdown, tick, pc, scan, cur>>

\* A waker is called on hart w: a task that waits is scheduled, a task that
\* runs will be once its poll returns.
Wake(w, t) ==
    \/ /\ life[t] = "waiting"
       /\ Enqueue(w, t, FALSE)
       /\ UNCHANGED <<shutdown, tick, pc, scan, cur>>
    \/ /\ life[t] = "running"
       /\ SetLife(t, "rewoken")
       /\ UNCHANGED <<injector, shutdown, workerVars>>
-----------------------------------------------------------------------------
(* Context::run *)

Loop(w) ==
    /\ pc[w] = "loop"
    /\ tick' = [tick EXCEPT ![w] = (@ + 1) % Interval]
    /\ Goto(w, IF shutdown THEN "exited" ELSE "next")
    /\ UNCHANGED <<injector, shutdown, preempt_slot, rq, scan, cur, life>>

RunTask(w, t) ==
    /\ cur' = [cur EXCEPT ![w] = t]
    /\ SetLife(t, "running")
    /\ Goto(w, "run")

TakeInjected(w) ==
    /\ injector # <<>>
    /\ RunTask(w, Head(injector))
    /\ injector' = Tail(injector)
    /\ UNCHANGED <<preempt_slot, rq>>

WorkerEmpty(w) == preempt_slot[w] = None /\ rq[w] = <<>>

\* Worker::pop: the slot before the queue.
WorkerPop(w) ==
    /\ ~WorkerEmpty(w)
    /\ UNCHANGED injector
    /\ IF preempt_slot[w] # None
       THEN /\ RunTask(w, preempt_slot[w])
            /\ preempt_slot' = [preempt_slot EXCEPT ![w] = None]
            /\ UNCHANGED rq
       ELSE /\ RunTask(w, Head(rq[w]))
            /\ rq' = [rq EXCEPT ![w] = Tail(@)]
            /\ UNCHANGED preempt_slot

InjectorFirst(w) == tick[w] = 0

NextTask(w) ==
    /\ pc[w] = "next"
    /\ \/ (InjectorFirst(w) \/ WorkerEmpty(w)) /\ TakeInjected(w)
       \/ (~InjectorFirst(w) \/ injector = <<>>) /\ WorkerPop(w)
       \/ /\ WorkerEmpty(w) /\ injector = <<>>
          /\ Goto(w, "between")
          /\ UNCHANGED <<injector, preempt_slot, rq, cur, life>>
    /\ UNCHANGED <<shutdown, tick, scan>>

\* steal_task visits all stealers, its own included, from a random one on.
Offsets(w, o) == [k \in 1..NumWorkers |-> (o + k - 1) % NumWorkers]

StealTask(w) ==
    /\ pc[w] = "between"
    /\ \E o \in Workers : scan' = [scan EXCEPT ![w] = Offsets(w, o)]
    /\ Goto(w, "steal")
    /\ UNCHANGED <<injector, shutdown, preempt_slot, rq, tick, cur, life>>

CanSteal(w, v) == rq[v] # <<>> /\ Len(rq[w]) <= N \div 2

\* steal_into_and_pop of the next stealer: half of its queue, rounded up; all
\* but the last stolen task are queued.  It fails on an empty queue, and when
\* another thief is at work.
Visit(w) ==
    /\ pc[w] = "steal" /\ scan[w] # <<>>
    /\ LET v == Head(scan[w])
           n == Len(rq[v]) - Len(rq[v]) \div 2
           rest == [rq EXCEPT ![v] = SubSeq(@, n + 1, Len(@))]
       IN  \/ /\ CanSteal(w, v)
              /\ rq' = [rest EXCEPT ![w] = @ \o SubSeq(rq[v], 1, n - 1)]
              /\ RunTask(w, rq[v][n])
              /\ scan' = [scan EXCEPT ![w] = <<>>]
           \/ /\ ~CanSteal(w, v) \/ \E u \in Workers \ {w} : pc[u] = "steal"
              /\ scan' = [scan EXCEPT ![w] = Tail(@)]
              /\ UNCHANGED <<rq, pc, cur, life>>
    /\ UNCHANGED <<injector, shutdown, preempt_slot, tick>>

StealInjected(w) ==
    /\ pc[w] = "steal" /\ scan[w] = <<>>
    /\ \/ TakeInjected(w)
       \/ /\ injector = <<>>
          /\ Goto(w, "loop")
          /\ UNCHANGED <<injector, preempt_slot, rq, cur, life>>
    /\ UNCHANGED <<shutdown, tick, scan>>

\* The poll returns: the future is done, or it waits, or it was woken meanwhile
\* and is scheduled with woken_while_running.
RunEnd(w) ==
    /\ pc[w] = "run"
    /\ \/ /\ SetLife(cur[w], "done")
          /\ UNCHANGED <<injector, preempt_slot, rq>>
       \/ /\ life[cur[w]] = "running"
          /\ SetLife(cur[w], "waiting")
          /\ UNCHANGED <<injector, preempt_slot, rq>>
       \/ /\ life[cur[w]] = "rewoken"
          /\ Enqueue(w, cur[w], TRUE)
    /\ cur' = [cur EXCEPT ![w] = None]
    /\ Goto(w, "loop")
    /\ UNCHANGED <<shutdown, tick, scan>>

Shutdown(w) ==
    /\ pc[w] = "run" /\ ~shutdown
    /\ shutdown' = TRUE
    /\ UNCHANGED <<injector, workerVars, life>>
-----------------------------------------------------------------------------
Step(w) == Loop(w) \/ NextTask(w) \/ StealTask(w) \/ Visit(w) \/ StealInjected(w)

Next ==
    \E w \in Workers :
        \/ Step(w) \/ RunEnd(w) \/ Shutdown(w)
        \/ \E t \in Tasks : Spawn(w, t) \/ Wake(w, t)

Spec == Init /\ [][Next]_vars

\* A worker goes on with its loop; no poll has to return.
FairSpec == Spec /\ \A w \in Workers : WF_vars(Step(w))
-----------------------------------------------------------------------------
Points == {"loop", "next", "between", "steal", "run", "exited"}
Lives == {"new", "waiting", "scheduled", "running", "rewoken", "done", "dropped"}

TypeOK ==
    /\ injector \in Seq(Tasks)
    /\ shutdown \in BOOLEAN
    /\ preempt_slot \in [Workers -> Tasks \cup {None}]
    /\ rq \in [Workers -> Seq(Tasks)] /\ \A w \in Workers : Len(rq[w]) <= N
    /\ tick \in [Workers -> 0..(Interval - 1)]
    /\ pc \in [Workers -> Points]
    /\ scan \in [Workers -> Seq(Workers)]
    /\ cur \in [Workers -> Tasks \cup {None}]
    /\ life \in [Tasks -> Lives]

Times(t, s) == Cardinality({k \in DOMAIN s : s[k] = t})
Queued(t) == Times(t, injector)
             + Cardinality({x \in Workers \X (1..N) :
                              x[2] <= Len(rq[x[1]]) /\ rq[x[1]][x[2]] = t})
             + Cardinality({w \in Workers : preempt_slot[w] = t})
RunBy(t) == {w \in Workers : cur[w] = t}

\* A task that async_task believes scheduled is queued exactly once, a running
\* one is run by exactly one worker and queued nowhere, however wake-ups, steals
\* and interrupts of the picking worker interleave: no wake-up is lost and no
\* future is polled by two harts.
OnePlace ==
    \A t \in Tasks :
        /\ Queued(t) = IF life[t] = "scheduled" THEN 1 ELSE 0
        /\ Cardinality(RunBy(t)) = IF life[t] \in {"running", "rewoken"} THEN 1 ELSE 0

\* An injected task does not wait for ever behind the tasks that a worker finds
\* at home: every Interval-th round of a worker that keeps looping takes from the
\* injector first.
InjectedServed ==
    \A t \in Tasks, w \in Workers :
        []<>(pc[w] = "loop") => []<>(Times(t, injector) = 0)

\* The queue of a worker whose task never returns is emptied by any worker that
\* has nothing to do.
StuckQueueStolen ==
    \A v, w \in Workers :
        (<>[](pc[v] = "run") /\ <>[](pc[w] \in {"loop", "next", "between", "steal"})
            /\ <>[](\A u \in Workers \ {v, w} : pc[u] = "run"))
                => []<>(rq[v] = <<>>)

\* After shutdown() every worker whose task returns leaves its loop.
ShutdownEnds ==
    \A w \in Workers : (<>[]shutdown /\ []<>(pc[w] # "run")) => []<>(pc[w] = "exited")
-----------------------------------------------------------------------------
(* PROOFS, for any number of workers, any tasks and any capacity of the queues. *)

\* No task is twice in a queue.
Distinct(s) == \A i, j \in DOMAIN s : s[i] = s[j] => i = j

\* A queue of distinct tasks with one more at its end.
LEMMA AppendDistinct ==
    ASSUME NEW S, NEW s \in Seq(S), NEW t \in S, Distinct(s), t \notin Range(s)
    PROVE  /\ Append(s, t) \in Seq(S) /\ Len(Append(s, t)) = Len(s) + 1
           /\ Distinct(Append(s, t)) /\ Range(Append(s, t)) = Range(s) \cup {t}
  <1> DEFINE r == Append(s, t)
  <1>1. Len(s) \in Nat /\ DOMAIN s = 1 .. Len(s)
    OBVIOUS
  <1>2. /\ r \in Seq(S) /\ Len(r) = Len(s) + 1 /\ DOMAIN r = 1 .. Len(r)
        /\ r[Len(s) + 1] = t /\ \A i \in 1 .. Len(s) : r[i] = s[i]
    BY <1>1
  <1> HIDE DEF r
  <1>3. \A i \in 1 .. Len(r) : i = Len(s) + 1 \/ i \in 1 .. Len(s)
    BY <1>1, <1>2
  <1>4. Len(s) + 1 \in 1 .. Len(r) /\ \A i \in 1 .. Len(s) : i \in 1 .. Len(r)
    BY <1>1, <1>2
  <1>5. Range(r) = Range(s) \cup {t}
    BY <1>1, <1>2, <1>3, <1>4 DEF Range
  <1>6. Distinct(r)
    BY <1>1, <1>2, <1>3 DEF Distinct, Range
  <1>7. QED
    BY <1>2, <1>5, <1>6 DEF r

\* A part of a queue of distinct tasks.
LEMMA PieceDistinct ==
    ASSUME NEW S, NEW s \in Seq(S), Distinct(s),
           NEW m \in 1 .. Len(s) + 1, NEW n \in 0 .. Len(s), m <= n + 1
    PROVE  /\ SubSeq(s, m, n) \in Seq(S) /\ Len(SubSeq(s, m, n)) = (n - m) + 1
           /\ Distinct(SubSeq(s, m, n)) /\ Range(SubSeq(s, m, n)) = {s[i] : i \in m .. n}
  <1> DEFINE r == SubSeq(s, m, n)
             l == (n - m) + 1
  <1>1. Len(s) \in Nat /\ DOMAIN s = 1 .. Len(s) /\ m \in Int /\ n \in Int /\ l \in Nat
    OBVIOUS
  <1>2. \A i \in m .. n : i \in 1 .. Len(s) /\ s[i] \in S
    BY <1>1
  <1>3. /\ r \in Seq(S) /\ Len(r) = IF m <= n THEN n - m + 1 ELSE 0
        /\ \A i \in 1 .. n - m + 1 : r[i] = s[m + i - 1]
    BY <1>1, <1>2, SubSeqProperties
  <1>4. Len(r) = l /\ \A i \in 1 .. l : r[i] = s[m + i - 1]
    BY <1>1, <1>3
  <1>5. DOMAIN r = 1 .. l
    BY <1>3, <1>4
  <1> HIDE DEF r
  <1>6. \A i \in 1 .. l : m + i - 1 \in m .. n /\ m + i - 1 \in 1 .. Len(s)
    BY <1>1
  <1>7. \A i \in m .. n : i - m + 1 \in 1 .. l /\ m + (i - m + 1) - 1 = i
    BY <1>1
  <1>8. Distinct(r)
    <2> SUFFICES ASSUME NEW i \in 1 .. l, NEW j \in 1 .. l, r[i] = r[j] PROVE i = j
      BY <1>5 DEF Distinct
    <2>1. m + i - 1 = m + j - 1
      BY <1>1, <1>4, <1>6 DEF Distinct
    <2>2. QED
      BY <1>1, <2>1
  <1>9. Range(r) = {s[i] : i \in m .. n}
    <2>1. ASSUME NEW x \in Range(r) PROVE x \in {s[i] : i \in m .. n}
      BY <1>4, <1>5, <1>6, <2>1 DEF Range
    <2>2. ASSUME NEW i \in m .. n PROVE s[i] \in Range(r)
      <3>1. r[i - m + 1] = s[i]
        BY <1>4, <1>7
      <3>2. QED
        BY <1>5, <1>7, <3>1 DEF Range
    <2>3. QED
      BY <2>1, <2>2
  <1>10. QED
    BY <1>3, <1>4, <1>8, <1>9 DEF r

\* A queue cut in two.
LEMMA CutDistinct ==
    ASSUME NEW S, NEW s \in Seq(S), Distinct(s), NEW k \in 0 .. Len(s)
    PROVE  LET a == SubSeq(s, 1, k)
               b == SubSeq(s, k + 1, Len(s))
           IN  /\ a \in Seq(S) /\ Len(a) = k /\ Distinct(a)
               /\ b \in Seq(S) /\ Len(b) = Len(s) - k /\ Distinct(b)
               /\ Range(a) \subseteq Range(s) /\ Range(b) = Range(s) \ Range(a)
  <1> DEFINE a == SubSeq(s, 1, k)
             b == SubSeq(s, k + 1, Len(s))
  <1>0. \A m \in 1 .. Len(s) + 1, n \in 0 .. Len(s) : m <= n + 1 =>
            /\ SubSeq(s, m, n) \in Seq(S) /\ Len(SubSeq(s, m, n)) = (n - m) + 1
            /\ Distinct(SubSeq(s, m, n)) /\ Range(SubSeq(s, m, n)) = {s[i] : i \in m .. n}
    BY PieceDistinct
  <1>1. Len(s) \in Nat /\ DOMAIN s = 1 .. Len(s) /\ k \in Nat /\ k <= Len(s)
    OBVIOUS
  <1>2. /\ 1 \in 1 .. Len(s) + 1 /\ 1 <= k + 1 /\ (k - 1) + 1 = k
        /\ k + 1 \in 1 .. Len(s) + 1 /\ Len(s) \in 0 .. Len(s) /\ k + 1 <= Len(s) + 1
        /\ (Len(s) - (k + 1)) + 1 = Len(s) - k
    BY <1>1
  <1>3. /\ a \in Seq(S) /\ Len(a) = (k - 1) + 1 /\ Distinct(a)
        /\ Range(a) = {s[i] : i \in 1 .. k}
    BY <1>0, <1>2
  <1>4. /\ b \in Seq(S) /\ Len(b) = (Len(s) - (k + 1)) + 1 /\ Distinct(b)
        /\ Range(b) = {s[i] : i \in k + 1 .. Len(s)}
    BY <1>0, <1>2
  <1> HIDE DEF a, b
  <1>5. /\ \A i \in 1 .. Len(s) : i \in 1 .. k \/ i \in k + 1 .. Len(s)
        /\ \A i \in 1 .. k : i \in 1 .. Len(s)
        /\ \A i \in k + 1 .. Len(s) : i \in 1 .. Len(s) /\ i \notin 1 .. k
    BY <1>1
  <1>6. Range(s) = {s[i] : i \in 1 .. Len(s)}
    BY <1>1 DEF Range
  <1>7. Range(a) \subseteq Range(s) /\ Range(b) \subseteq Range(s)
    BY <1>3, <1>4, <1>5, <1>6
  <1>8. Range(s) \subseteq Range(a) \cup Range(b)
    BY <1>3, <1>4, <1>5, <1>6
  <1>9. ASSUME NEW x \in Range(a), x \in Range(b) PROVE FALSE
    <2>1. PICK i \in 1 .. k : x = s[i]
      BY <1>3
    <2>2. PICK j \in k + 1 .. Len(s) : x = s[j]
      BY <1>4, <1>9
    <2>3. i = j
      BY <1>1, <1>5, <2>1, <2>2 DEF Distinct
    <2>4. QED
      BY <1>5, <2>3
  <1>10. QED
    BY <1>2, <1>3, <1>4, <1>7, <1>8, <1>9 DEF a, b

\* A queue without one of its tasks.
LEMMA PickDistinct ==
    ASSUME NEW S, NEW s \in Seq(S), Distinct(s), NEW k \in 1 .. Len(s)
    PROVE  LET a == SubSeq(s, 1, k - 1)
               b == SubSeq(s, k + 1, Len(s))
           IN  /\ a \in Seq(S) /\ Len(a) = k - 1 /\ Distinct(a)
               /\ b \in Seq(S) /\ Len(b) = Len(s) - k /\ Distinct(b)
               /\ s[k] \in S /\ s[k] \in Range(s)
               /\ Range(a) \cap Range(b) = {} /\ Range(a) \cup Range(b) = Range(s) \ {s[k]}
  <1> DEFINE a == SubSeq(s, 1, k - 1)
             b == SubSeq(s, k + 1, Len(s))
  <1>1. Len(s) \in Nat /\ DOMAIN s = 1 .. Len(s) /\ k \in Nat /\ 1 <= k /\ k <= Len(s)
    OBVIOUS
  <1>2. /\ 1 \in 1 .. Len(s) + 1 /\ k - 1 \in 0 .. Len(s) /\ 1 <= (k - 1) + 1
        /\ ((k - 1) - 1) + 1 = k - 1
        /\ k + 1 \in 1 .. Len(s) + 1 /\ Len(s) \in 0 .. Len(s) /\ k + 1 <= Len(s) + 1
        /\ (Len(s) - (k + 1)) + 1 = Len(s) - k
    BY <1>1
  <1>3. /\ a \in Seq(S) /\ Len(a) = ((k - 1) - 1) + 1 /\ Distinct(a)
        /\ Range(a) = {s[i] : i \in 1 .. k - 1}
    BY ONLY s \in Seq(S), Distinct(s), <1>2, PieceDistinct
  <1>4. /\ b \in Seq(S) /\ Len(b) = (Len(s) - (k + 1)) + 1 /\ Distinct(b)
        /\ Range(b) = {s[i] : i \in k + 1 .. Len(s)}
    <2> DEFINE m == k + 1
               n == Len(s)
    <2>1. m \in 1 .. Len(s) + 1 /\ n \in 0 .. Len(s) /\ m <= n + 1
      BY <1>2
    <2> HIDE DEF m, n
    <2>2. /\ SubSeq(s, m, n) \in Seq(S) /\ Len(SubSeq(s, m, n)) = (n - m) + 1
          /\ Distinct(SubSeq(s, m, n)) /\ Range(SubSeq(s, m, n)) = {s[i] : i \in m .. n}
      BY ONLY s \in Seq(S), Distinct(s), <2>1, PieceDistinct
    <2>3. QED
      BY ONLY <2>2 DEF m, n
  <1> HIDE DEF a, b
  <1>5. /\ \A i \in 1 .. Len(s) : i \in 1 .. k - 1 \/ i = k \/ i \in k + 1 .. Len(s)
        /\ \A i \in 1 .. k - 1 : i \in 1 .. Len(s) /\ i # k
        /\ \A i \in k + 1 .. Len(s) : i \in 1 .. Len(s) /\ i # k /\ i \notin 1 .. k - 1
    BY <1>1
  <1>6. Range(s) = {s[i] : i \in 1 .. Len(s)} /\ s[k] \in S
    BY <1>1 DEF Range
  <1>7. \A i \in 1 .. Len(s) : s[i] = s[k] => i = k
    BY <1>1 DEF Distinct
  <1>8. Range(a) \cup Range(b) \subseteq Range(s) \ {s[k]}
    BY <1>3, <1>4, <1>5, <1>6, <1>7
  <1>9. Range(s) \ {s[k]} \subseteq Range(a) \cup Range(b)
    BY <1>3, <1>4, <1>5, <1>6
  <1>10. ASSUME NEW x \in Range(a), x \in Range(b) PROVE FALSE
    <2>1. PICK i \in 1 .. k - 1 : x = s[i]
      BY <1>3
    <2>2. PICK j \in k + 1 .. Len(s) : x = s[j]
      BY <1>4, <1>10
    <2>3. i = j
      BY <1>1, <1>5, <2>1, <2>2 DEF Distinct
    <2>4. QED
      BY <1>5, <2>3
  <1>11. QED
    BY <1>2, <1>3, <1>4, <1>6, <1>8, <1>9, <1>10 DEF a, b

\* The head and the rest.
LEMMA TailDistinct ==
    ASSUME NEW S, NEW s \in Seq(S), Distinct(s), s # <<>>
    PROVE  /\ Head(s) \in S /\ Head(s) \in Range(s)
           /\ Tail(s) \in Seq(S) /\ Len(Tail(s)) <= Len(s)
           /\ Distinct(Tail(s)) /\ Range(Tail(s)) = Range(s) \ {Head(s)}
  <1>1. Len(s) \in Nat /\ Len(s) >= 1 /\ DOMAIN s = 1 .. Len(s) /\ Head(s) = s[1]
    OBVIOUS
  <1>2. /\ Tail(s) \in Seq(S) /\ Len(Tail(s)) <= Len(s) /\ Distinct(Tail(s))
        /\ Range(Tail(s)) = {s[i] : i \in 2 .. Len(s)}
    <2>1. Tail(s) = SubSeq(s, 2, Len(s))
      BY TailIsSubSeq
    <2>2. 2 \in 1 .. Len(s) + 1 /\ Len(s) \in 0 .. Len(s) /\ 2 <= Len(s) + 1
          /\ (Len(s) - 2) + 1 <= Len(s)
      BY <1>1
    <2> DEFINE r == SubSeq(s, 2, Len(s))
    <2>3. /\ r \in Seq(S) /\ Len(r) = (Len(s) - 2) + 1 /\ Distinct(r)
          /\ Range(r) = {s[i] : i \in 2 .. Len(s)}
      BY ONLY <2>2, s \in Seq(S), Distinct(s), PieceDistinct
    <2> HIDE DEF r
    <2>4. Tail(s) = r
      BY <2>1 DEF r
    <2>5. QED
      BY <2>2, <2>3, <2>4
  <1>3. Range(s) = {s[i] : i \in 1 .. Len(s)}
    BY <1>1 DEF Range
  <1>4. \A i \in 1 .. Len(s) : i = 1 \/ i \in 2 .. Len(s)
    BY <1>1
  <1>5. \A i \in 2 .. Len(s) : i \in 1 .. Len(s) /\ s[i] # s[1]
    BY <1>1 DEF Distinct
  <1>6. Range(Tail(s)) = Range(s) \ {Head(s)}
    BY <1>1, <1>2, <1>3, <1>4, <1>5
  <1>7. Head(s) \in S /\ Head(s) \in Range(s)
    BY <1>1, <1>3
  <1>8. QED
    BY <1>2, <1>6, <1>7

\* One queue behind another.
LEMMA JoinDistinct ==
    ASSUME NEW S, NEW a \in Seq(S), NEW b \in Seq(S), Distinct(a), Distinct(b),
           Range(a) \cap Range(b) = {}
    PROVE  /\ a \o b \in Seq(S) /\ Len(a \o b) = Len(a) + Len(b)
           /\ Distinct(a \o b) /\ Range(a \o b) = Range(a) \cup Range(b)
  <1> DEFINE r == a \o b
  <1>1. /\ Len(a) \in Nat /\ DOMAIN a = 1 .. Len(a)
        /\ Len(b) \in Nat /\ DOMAIN b = 1 .. Len(b)
    OBVIOUS
  <1>2. /\ r \in Seq(S) /\ Len(r) = Len(a) + Len(b) /\ DOMAIN r = 1 .. Len(r)
        /\ \A i \in 1 .. Len(a) : r[i] = a[i] /\ i \in 1 .. Len(r)
    BY <1>1
  <1>3. \A i \in 1 .. Len(b) : r[i + Len(a)] = b[i] /\ i + Len(a) \in 1 .. Len(r)
    BY <1>1
  <1> HIDE DEF r
  <1>4. \A i \in 1 .. Len(r) :
            \/ i \in 1 .. Len(a) /\ r[i] = a[i]
            \/ i - Len(a) \in 1 .. Len(b) /\ r[i] = b[i - Len(a)]
    <2> SUFFICES ASSUME NEW i \in 1 .. Len(r), i \notin 1 .. Len(a)
                 PROVE  i - Len(a) \in 1 .. Len(b) /\ r[i] = b[i - Len(a)]
      BY <1>2
    <2>1. i - Len(a) \in 1 .. Len(b) /\ (i - Len(a)) + Len(a) = i
      BY <1>1, <1>2
    <2>2. QED
      BY <1>3, <2>1
  <1>5. Range(r) = Range(a) \cup Range(b)
    <2>1. Range(r) \subseteq Range(a) \cup Range(b)
      BY <1>1, <1>2, <1>4 DEF Range
    <2>2. Range(a) \subseteq Range(r) /\ Range(b) \subseteq Range(r)
      BY <1>1, <1>2, <1>3 DEF Range
    <2>3. QED
      BY <2>1, <2>2
  <1>6. ASSUME NEW i \in 1 .. Len(r), NEW j \in 1 .. Len(r), r[i] = r[j] PROVE i = j
    <2>1. CASE i \in 1 .. Len(a) /\ j \in 1 .. Len(a)
      BY <1>1, <1>2, <1>6, <2>1 DEF Distinct
    <2>2. CASE /\ i - Len(a) \in 1 .. Len(b) /\ r[i] = b[i - Len(a)]
               /\ j - Len(a) \in 1 .. Len(b) /\ r[j] = b[j - Len(a)]
      <3>1. i - Len(a) = j - Len(a)
        BY <1>1, <1>6, <2>2 DEF Distinct
      <3>2. QED
        BY <1>1, <3>1
    <2>3. CASE \/ i \in 1 .. Len(a) /\ j - Len(a) \in 1 .. Len(b) /\ r[j] = b[j - Len(a)]
               \/ j \in 1 .. Len(a) /\ i - Len(a) \in 1 .. Len(b) /\ r[i] = b[i - Len(a)]
      BY <1>1, <1>2, <1>6, <2>3 DEF Range
    <2>4. QED
      BY <1>4, <1>6, <2>1, <2>2, <2>3
  <1>7. QED
    BY <1>2, <1>5, <1>6 DEF Distinct, r
-----------------------------------------------------------------------------
QueueTypeOK ==
    /\ injector \in Seq(Tasks) /\ Distinct(injector)
    /\ rq \in [Workers -> Seq(Tasks)]
    /\ \A w \in Workers : Len(rq[w]) <= N /\ Distinct(rq[w])
    /\ preempt_slot \in [Workers -> Tasks \cup {None}]

\* No task is in two of the places where the tasks to run are kept.
Apart ==
    /\ \A w \in Workers : Range(rq[w]) \cap Range(injector) = {}
    /\ \A v, w \in Workers : v # w => Range(rq[v]) \cap Range(rq[w]) = {}
    /\ \A v, w \in Workers : preempt_slot[v] \notin Range(injector) \cup Range(rq[w])
    /\ \A v, w \in Workers : v # w /\ preempt_slot[v] # None => preempt_slot[v] # preempt_slot[w]

Kept(t) == t \in Range(injector) \/ \E w \in Workers : t \in Range(rq[w]) \/ preempt_slot[w] = t

\* A full queue spills some of its tasks into the injector, the new one with them.
LEMMA RqPushPuts ==
    ASSUME QueueTypeOK, NEW w \in Workers, NEW t \in Tasks, RqPush(w, t),
           t \notin Range(injector) \cup Range(rq[w]), Range(rq[w]) \cap Range(injector) = {}
    PROVE  /\ injector' \in Seq(Tasks) /\ Distinct(injector')
           /\ rq' \in [Workers -> Seq(Tasks)]
           /\ \A v \in Workers : Len(rq'[v]) <= N /\ Distinct(rq'[v])
           /\ \A v \in Workers \ {w} : rq'[v] = rq[v]
           /\ \E m \in SUBSET Range(rq[w]) :
                 \/ /\ Range(injector') = Range(injector) \cup m \cup {t}
                    /\ Range(rq'[w]) = Range(rq[w]) \ m
                 \/ /\ Range(injector') = Range(injector)
                    /\ Range(rq'[w]) = Range(rq[w]) \cup {t}
  <1> DEFINE s == rq[w]
  <1>1. s \in Seq(Tasks) /\ Distinct(s) /\ Len(s) \in Nat /\ Len(s) <= N /\ N \in Nat
    BY ExecutorAssumption DEF QueueTypeOK
  <1>2. CASE Len(s) < N /\ rq' = [rq EXCEPT ![w] = Append(@, t)] /\ UNCHANGED injector
    <2>1. /\ Append(s, t) \in Seq(Tasks) /\ Len(Append(s, t)) <= N
          /\ Distinct(Append(s, t)) /\ Range(Append(s, t)) = Range(s) \cup {t}
      BY <1>1, <1>2, AppendDistinct
    <2>2. /\ rq' \in [Workers -> Seq(Tasks)] /\ rq'[w] = Append(s, t)
          /\ \A v \in Workers \ {w} : rq'[v] = rq[v]
      BY <1>2, <2>1 DEF QueueTypeOK
    <2>3. QED
      BY <1>2, <2>1, <2>2 DEF QueueTypeOK
  <1>3. CASE /\ Len(s) = N /\ rq' = [rq EXCEPT ![w] = SubSeq(@, N \div 2 + 1, N)]
             /\ injector' = injector \o <<t>> \o SubSeq(s, 1, N \div 2)
    <2> DEFINE h == N \div 2
               a == SubSeq(s, 1, h)
               b == SubSeq(s, h + 1, Len(s))
    <2>1. h \in 0 .. Len(s) /\ N - h <= N
      <3>1. h \in Nat /\ h <= N
        BY <1>1
      <3>2. QED
        BY <1>1, <1>3, <3>1
    <2> HIDE DEF h
    <2>2. /\ a \in Seq(Tasks) /\ Distinct(a)
          /\ b \in Seq(Tasks) /\ Len(b) = Len(s) - h /\ Distinct(b)
          /\ Range(a) \subseteq Range(s) /\ Range(b) = Range(s) \ Range(a)
      BY <1>1, <2>1, CutDistinct
    <2> DEFINE d == <<t>>
               c == injector \o d
    <2>3. d \in Seq(Tasks) /\ Distinct(d) /\ Range(d) = {t}
      BY DEF Distinct, Range
    <2> HIDE DEF d
    <2>4. c \in Seq(Tasks) /\ Distinct(c) /\ Range(c) = Range(injector) \cup {t}
      <3>1. Range(injector) \cap Range(d) = {} /\ injector \in Seq(Tasks) /\ Distinct(injector)
        BY <2>3 DEF QueueTypeOK
      <3>2. QED
        BY <2>3, <3>1, JoinDistinct
    <2>5. injector' = c \o a /\ rq' = [rq EXCEPT ![w] = b]
      BY <1>3 DEF h, d
    <2> HIDE DEF a, b, c
    <2>6. Range(c) \cap Range(a) = {}
      BY <2>2, <2>4
    <2>7. /\ injector' \in Seq(Tasks) /\ Distinct(injector')
          /\ Range(injector') = Range(injector) \cup Range(a) \cup {t}
      BY <2>2, <2>4, <2>5, <2>6, JoinDistinct
    <2>8. /\ rq' \in [Workers -> Seq(Tasks)] /\ rq'[w] = b
          /\ \A v \in Workers \ {w} : rq'[v] = rq[v]
      BY <2>2, <2>5 DEF QueueTypeOK
    <2>9. Len(b) <= N
      BY <1>3, <2>1, <2>2
    <2>10. QED
      BY <2>2, <2>7, <2>8, <2>9 DEF QueueTypeOK
  <1>4. CASE UNCHANGED rq /\ injector' = Append(injector, t)
    <2>1. /\ injector' \in Seq(Tasks) /\ Distinct(injector')
          /\ Range(injector') = Range(injector) \cup {} \cup {t}
      BY <1>4, AppendDistinct DEF QueueTypeOK
    <2>2. QED
      BY <1>4, <2>1 DEF QueueTypeOK
  <1>5. QED
    BY <1>2, <1>3, <1>4 DEF RqPush

\* What async_task says of the tasks agrees with where they are kept.
QueueInv ==
    /\ QueueTypeOK /\ Apart
    /\ \A t \in Tasks : life[t] = "scheduled" <=> Kept(t)

\* enqueue(): the task is put in one place, or dropped.
LEMMA EnqueueKeeps ==
    ASSUME QueueInv, life \in [Tasks -> Lives], NEW w \in Workers, NEW t \in Tasks,
           life[t] # "scheduled", NEW y \in BOOLEAN, Enqueue(w, t, y)
    PROVE  QueueInv' /\ \E s \in {"scheduled", "dropped"} : life' = [life EXCEPT ![t] = s]
  <1>1. QueueTypeOK /\ Apart /\ None \notin Tasks /\ ~Kept(t)
    BY ExecutorAssumption DEF QueueInv
  <1>2. CASE SetLife(t, "dropped") /\ UNCHANGED <<preempt_slot, rq, injector>>
    <2>1. \A x \in Tasks : life'[x] = IF x = t THEN "dropped" ELSE life[x]
      BY <1>2 DEF SetLife
    <2>2. QueueTypeOK' /\ Apart' /\ \A x \in Tasks : Kept(x)' <=> Kept(x)
      BY <1>1, <1>2 DEF QueueTypeOK, Apart, Kept
    <2>3. QED
      BY <1>1, <1>2, <2>1, <2>2 DEF QueueInv, SetLife
  <1>3. ASSUME SetLife(t, "scheduled"), QueueTypeOK', Apart',
               \A x \in Tasks : Kept(x)' <=> Kept(x) \/ x = t
        PROVE  QueueInv' /\ \E s \in {"scheduled", "dropped"} : life' = [life EXCEPT ![t] = s]
    <2>1. \A x \in Tasks : life'[x] = IF x = t THEN "scheduled" ELSE life[x]
      BY <1>3 DEF SetLife
    <2>2. QED
      BY <1>3, <2>1 DEF QueueInv, SetLife
  <1>4. CASE /\ injector' = Append(injector, t) /\ SetLife(t, "scheduled")
             /\ UNCHANGED <<preempt_slot, rq>>
    <2>1. /\ injector' \in Seq(Tasks) /\ Distinct(injector')
          /\ Range(injector') = Range(injector) \cup {t}
      BY <1>1, <1>4, AppendDistinct DEF QueueTypeOK, Kept
    <2>2. QueueTypeOK'
      BY <1>1, <1>4, <2>1 DEF QueueTypeOK
    <2>3. Apart' /\ \A x \in Tasks : Kept(x)' <=> Kept(x) \/ x = t
      BY <1>1, <1>4, <2>1 DEF Apart, Kept
    <2>4. QED
      BY <1>3, <1>4, <2>2, <2>3
  <1>5. CASE SetLife(t, "scheduled") /\ RqPush(w, t) /\ UNCHANGED preempt_slot
    <2>1. t \notin Range(injector) \cup Range(rq[w]) /\ Range(rq[w]) \cap Range(injector) = {}
      BY <1>1 DEF Kept, Apart
    <2>2. /\ injector' \in Seq(Tasks) /\ Distinct(injector')
          /\ rq' \in [Workers -> Seq(Tasks)]
          /\ \A v \in Workers : Len(rq'[v]) <= N /\ Distinct(rq'[v])
          /\ \A v \in Workers \ {w} : rq'[v] = rq[v]
      BY <1>1, <1>5, <2>1, RqPushPuts
    <2>3. PICK m \in SUBSET Range(rq[w]) :
             \/ /\ Range(injector') = Range(injector) \cup m \cup {t}
                /\ Range(rq'[w]) = Range(rq[w]) \ m
             \/ /\ Range(injector') = Range(injector)
                /\ Range(rq'[w]) = Range(rq[w]) \cup {t}
      BY <1>1, <1>5, <2>1, RqPushPuts
    <2>4. QueueTypeOK'
      BY <1>1, <1>5, <2>2 DEF QueueTypeOK
    <2>5. Apart'
      <3>1. /\ Range(injector') \subseteq Range(injector) \cup Range(rq[w]) \cup {t}
            /\ Range(rq'[w]) \subseteq Range(rq[w]) \cup {t}
            /\ \A v \in Workers \ {w} : Range(rq'[v]) = Range(rq[v])
        BY <2>2, <2>3
      <3>2. \A v \in Workers : t \notin Range(injector) \cup Range(rq[v]) /\ preempt_slot[v] # t
        BY <1>1 DEF Kept
      <3>3. Range(rq'[w]) \cap Range(injector') = {}
        BY <1>1, <2>1, <2>3 DEF Apart
      <3>4. \A v \in Workers : Range(rq'[v]) \cap Range(injector') = {}
        BY <1>1, <3>1, <3>2, <3>3 DEF Apart
      <3>5. \A v, x \in Workers : v # x => Range(rq'[v]) \cap Range(rq'[x]) = {}
        BY <1>1, <3>1, <3>2 DEF Apart
      <3>6. \A v, x \in Workers : preempt_slot[v] \notin Range(injector') \cup Range(rq'[x])
        BY <1>1, <3>1, <3>2 DEF Apart
      <3>7. QED
        BY <1>1, <1>5, <3>4, <3>5, <3>6 DEF Apart
    <2>6. \A x \in Tasks : Kept(x)' <=> Kept(x) \/ x = t
      BY <1>1, <1>5, <2>2, <2>3 DEF Kept
    <2>7. QED
      BY <1>3, <1>5, <2>4, <2>5, <2>6
  <1>6. CASE /\ SetLife(t, "scheduled") /\ preempt_slot' = [preempt_slot EXCEPT ![w] = t]
             /\ preempt_slot[w] = None /\ UNCHANGED <<rq, injector>>
    <2>1. QueueTypeOK' /\ \A v \in Workers : preempt_slot'[v] = IF v = w THEN t ELSE preempt_slot[v]
      BY <1>1, <1>6 DEF QueueTypeOK
    <2>2. Apart' /\ \A x \in Tasks : Kept(x)' <=> Kept(x) \/ x = t
      BY <1>1, <1>6, <2>1 DEF Apart, Kept
    <2>3. QED
      BY <1>3, <1>6, <2>1, <2>2
  <1>7. CASE /\ SetLife(t, "scheduled") /\ preempt_slot' = [preempt_slot EXCEPT ![w] = t]
             /\ preempt_slot[w] # None /\ RqPush(w, preempt_slot[w])
    <2> DEFINE u == preempt_slot[w]
    <2>1. /\ u \in Tasks /\ u # t
          /\ u \notin Range(injector) \cup Range(rq[w]) /\ Range(rq[w]) \cap Range(injector) = {}
      BY <1>1, <1>7 DEF QueueTypeOK, Kept, Apart
    <2>2. /\ injector' \in Seq(Tasks) /\ Distinct(injector')
          /\ rq' \in [Workers -> Seq(Tasks)]
          /\ \A v \in Workers : Len(rq'[v]) <= N /\ Distinct(rq'[v])
          /\ \A v \in Workers \ {w} : rq'[v] = rq[v]
      BY <1>1, <1>7, <2>1, RqPushPuts
    <2>3. PICK m \in SUBSET Range(rq[w]) :
             \/ /\ Range(injector') = Range(injector) \cup m \cup {u}
                /\ Range(rq'[w]) = Range(rq[w]) \ m
             \/ /\ Range(injector') = Range(injector)
                /\ Range(rq'[w]) = Range(rq[w]) \cup {u}
      BY <1>1, <1>7, <2>1, RqPushPuts
    <2>4. QueueTypeOK' /\ \A v \in Workers : preempt_slot'[v] = IF v = w THEN t ELSE preempt_slot[v]
      BY <1>1, <1>7, <2>2 DEF QueueTypeOK
    <2>5. Apart'
      <3>1. /\ Range(injector') \subseteq Range(injector) \cup Range(rq[w]) \cup {u}
            /\ Range(rq'[w]) \subseteq Range(rq[w]) \cup {u}
            /\ \A v \in Workers \ {w} : Range(rq'[v]) = Range(rq[v])
        BY <2>2, <2>3
      <3>2. \A v \in Workers : t \notin Range(injector) \cup Range(rq[v]) /\ preempt_slot[v] # t
        BY <1>1 DEF Kept
      <3>3. /\ \A v \in Workers : u \notin Range(injector) \cup Range(rq[v])
            /\ \A v \in Workers \ {w} : preempt_slot[v] # u
        BY <1>1, <1>7 DEF Apart
      <3>4. Range(rq'[w]) \cap Range(injector') = {}
        BY <1>1, <2>1, <2>3 DEF Apart
      <3> HIDE DEF u
      <3>5. \A v \in Workers : Range(rq'[v]) \cap Range(injector') = {}
        BY <1>1, <3>1, <3>3, <3>4 DEF Apart
      <3>6. \A v, x \in Workers : v # x => Range(rq'[v]) \cap Range(rq'[x]) = {}
        BY <1>1, <3>1, <3>3 DEF Apart
      <3>7. \A v \in Workers \ {w}, x \in Workers :
                preempt_slot[v] \notin Range(injector') \cup Range(rq'[x])
        BY <1>1, <3>1, <3>3 DEF Apart
      <3>8. \A x \in Workers : t \notin Range(injector') \cup Range(rq'[x])
        BY <2>1, <3>1, <3>2
      <3>9. \A v, x \in Workers : preempt_slot'[v] \notin Range(injector') \cup Range(rq'[x])
        BY <2>4, <3>7, <3>8
      <3>10. \A v, x \in Workers : v # x /\ preempt_slot'[v] # None
                                     => preempt_slot'[v] # preempt_slot'[x]
        BY <1>1, <2>4, <3>2 DEF Apart
      <3>11. QED
        BY <3>5, <3>6, <3>9, <3>10 DEF Apart
    <2>6. \A x \in Tasks : Kept(x)' <=> Kept(x) \/ x = t
      BY <1>1, <2>1, <2>2, <2>3, <2>4 DEF Kept
    <2>7. QED
      BY <1>3, <1>7, <2>4, <2>5, <2>6
  <1>8. QED
    BY <1>2, <1>4, <1>5, <1>6, <1>7 DEF Enqueue, Push

\* What async_task says of the tasks agrees with what the workers run.
RunInv ==
    /\ life \in [Tasks -> Lives] /\ pc \in [Workers -> Points]
    /\ scan \in [Workers -> Seq(Workers)]
    /\ cur \in [Workers -> Tasks \cup {None}]
    /\ \A w \in Workers : pc[w] = "run" <=> cur[w] # None
    /\ \A v, w \in Workers : v # w /\ cur[v] # None => cur[v] # cur[w]
    /\ \A t \in Tasks : life[t] \in {"running", "rewoken"} <=> \E w \in Workers : cur[w] = t

PlaceInv == QueueInv /\ RunInv

\* A step that leaves the queues and what is run alone.
LEMMA StayKeeps ==
    ASSUME PlaceInv, UNCHANGED <<injector, preempt_slot, rq, cur, life>>,
           pc' \in [Workers -> Points], scan' \in [Workers -> Seq(Workers)],
           \A v \in Workers : pc'[v] = "run" <=> pc[v] = "run"
    PROVE  PlaceInv'
  <1>1. QueueInv'
    BY DEF PlaceInv, QueueInv, QueueTypeOK, Apart, Kept
  <1>2. RunInv'
    BY DEF PlaceInv, RunInv
  <1>3. QED
    BY <1>1, <1>2 DEF PlaceInv

\* A step that takes a task from the place it is kept in and runs it.
LEMMA TakeKeeps ==
    ASSUME PlaceInv, NEW w \in Workers, pc[w] # "run", NEW t \in Tasks, Kept(t), RunTask(w, t),
           QueueTypeOK', Apart', \A x \in Tasks : Kept(x)' <=> Kept(x) /\ x # t,
           scan' \in [Workers -> Seq(Workers)]
    PROVE  PlaceInv'
  <1>1. /\ \A x \in Tasks : life'[x] = IF x = t THEN "running" ELSE life[x]
        /\ \A v \in Workers : cur'[v] = IF v = w THEN t ELSE cur[v]
        /\ \A v \in Workers : pc'[v] = IF v = w THEN "run" ELSE pc[v]
        /\ life' \in [Tasks -> Lives] /\ pc' \in [Workers -> Points]
        /\ cur' \in [Workers -> Tasks \cup {None}]
    <2>1. /\ cur' = [cur EXCEPT ![w] = t] /\ life' = [life EXCEPT ![t] = "running"]
          /\ pc' = [pc EXCEPT ![w] = "run"]
      BY DEF RunTask, SetLife, Goto
    <2>2. /\ life \in [Tasks -> Lives] /\ pc \in [Workers -> Points]
          /\ cur \in [Workers -> Tasks \cup {None}]
      BY DEF PlaceInv, RunInv
    <2>3. /\ \A x \in Tasks : life'[x] = IF x = t THEN "running" ELSE life[x]
          /\ life' \in [Tasks -> Lives]
      BY <2>1, <2>2 DEF Lives
    <2>4. /\ \A v \in Workers : cur'[v] = IF v = w THEN t ELSE cur[v]
          /\ cur' \in [Workers -> Tasks \cup {None}]
      BY <2>1, <2>2
    <2>5. /\ \A v \in Workers : pc'[v] = IF v = w THEN "run" ELSE pc[v]
          /\ pc' \in [Workers -> Points]
      BY <2>1, <2>2 DEF Points
    <2>6. QED
      BY <2>3, <2>4, <2>5
  <1>2. life[t] = "scheduled" /\ None \notin Tasks /\ cur[w] = None
    BY ExecutorAssumption DEF PlaceInv, QueueInv, RunInv
  <1>3. QueueInv'
    BY <1>1, <1>2 DEF PlaceInv, QueueInv
  <1>4. \A v \in Workers : cur[v] # t
    BY <1>2 DEF PlaceInv, RunInv
  <1>5. \A x \in Tasks : life'[x] \in {"running", "rewoken"} <=> \E v \in Workers : cur'[v] = x
    BY <1>1, <1>2, <1>4 DEF PlaceInv, RunInv
  <1>6. RunInv'
    <2>1. \A v \in Workers : pc'[v] = "run" <=> cur'[v] # None
      BY <1>1, <1>2 DEF PlaceInv, RunInv
    <2>2. \A v, x \in Workers : v # x /\ cur'[v] # None => cur'[v] # cur'[x]
      <3>1. \A v, x \in Workers : v # x /\ cur[v] # None => cur[v] # cur[x]
        BY DEF PlaceInv, RunInv
      <3>2. QED
        BY <1>1, <1>4, <3>1
    <2>3. QED
      BY <1>1, <1>5, <2>1, <2>2 DEF RunInv
  <1>7. QED
    BY <1>3, <1>6 DEF PlaceInv

LEMMA TakeInjectedKeeps ==
    ASSUME PlaceInv, NEW w \in Workers, pc[w] # "run", TakeInjected(w),
           scan' \in [Workers -> Seq(Workers)]
    PROVE  PlaceInv'
  <1> DEFINE h == Head(injector)
  <1>1. QueueTypeOK /\ Apart /\ None \notin Tasks
    BY ExecutorAssumption DEF PlaceInv, QueueInv
  <1>2. /\ injector # <<>> /\ RunTask(w, h) /\ injector' = Tail(injector)
        /\ UNCHANGED <<preempt_slot, rq>>
    BY DEF TakeInjected
  <1>3. /\ h \in Tasks /\ h \in Range(injector)
        /\ injector' \in Seq(Tasks) /\ Distinct(injector')
        /\ Range(injector') = Range(injector) \ {h}
    BY <1>1, <1>2, TailDistinct DEF QueueTypeOK
  <1> HIDE DEF h
  <1>4. QueueTypeOK'
    BY <1>1, <1>2, <1>3 DEF QueueTypeOK
  <1>5. Apart'
    BY <1>1, <1>2, <1>3 DEF Apart
  <1>6. Kept(h) /\ \A x \in Tasks : Kept(x)' <=> Kept(x) /\ x # h
    BY <1>1, <1>2, <1>3 DEF Apart, Kept
  <1>7. QED
    BY <1>2, <1>3, <1>4, <1>5, <1>6, TakeKeeps

LEMMA WorkerPopKeeps ==
    ASSUME PlaceInv, NEW w \in Workers, pc[w] # "run", WorkerPop(w),
           scan' \in [Workers -> Seq(Workers)]
    PROVE  PlaceInv'
  <1>1. QueueTypeOK /\ Apart /\ None \notin Tasks
    BY ExecutorAssumption DEF PlaceInv, QueueInv
  <1>2. CASE preempt_slot[w] # None
    <2> DEFINE u == preempt_slot[w]
    <2>1. /\ UNCHANGED <<injector, rq>> /\ RunTask(w, u)
          /\ preempt_slot' \in [Workers -> Tasks \cup {None}]
          /\ \A v \in Workers : preempt_slot'[v] = IF v = w THEN None ELSE preempt_slot[v]
      BY <1>1, <1>2 DEF WorkerPop, QueueTypeOK
    <2>2. u \in Tasks /\ Kept(u)
      BY <1>1, <1>2 DEF QueueTypeOK, Kept
    <2>3. QueueTypeOK'
      BY <1>1, <2>1 DEF QueueTypeOK
    <2>4. \A v \in Workers : None \notin Range(injector) \cup Range(rq[v])
      BY <1>1 DEF QueueTypeOK, Range
    <2>5. Apart'
      BY <1>1, <2>1, <2>4 DEF Apart
    <2>6. \A x \in Tasks : Kept(x)' <=> Kept(x) /\ x # u
      BY <1>1, <1>2, <2>1 DEF Apart, Kept
    <2>7. QED
      BY <2>1, <2>2, <2>3, <2>5, <2>6, TakeKeeps
  <1>3. CASE preempt_slot[w] = None
    <2> DEFINE h == Head(rq[w])
    <2>1. /\ UNCHANGED <<injector, preempt_slot>> /\ RunTask(w, h)
          /\ rq[w] # <<>> /\ rq' = [rq EXCEPT ![w] = Tail(@)]
      BY <1>3 DEF WorkerPop, WorkerEmpty
    <2>2. /\ h \in Tasks /\ h \in Range(rq[w])
          /\ Tail(rq[w]) \in Seq(Tasks) /\ Len(Tail(rq[w])) <= Len(rq[w]) /\ Distinct(Tail(rq[w]))
          /\ Range(Tail(rq[w])) = Range(rq[w]) \ {h}
      BY <1>1, <2>1, TailDistinct DEF QueueTypeOK
    <2>3. /\ rq' \in [Workers -> Seq(Tasks)] /\ rq'[w] = Tail(rq[w])
          /\ \A v \in Workers \ {w} : rq'[v] = rq[v]
      BY <1>1, <2>1, <2>2 DEF QueueTypeOK
    <2> HIDE DEF h
    <2>4. Len(rq'[w]) <= N
      BY <1>1, <2>2, <2>3, ExecutorAssumption DEF QueueTypeOK
    <2>5. QueueTypeOK'
      BY <1>1, <2>1, <2>2, <2>3, <2>4 DEF QueueTypeOK
    <2>6. \A v \in Workers : Range(rq'[v]) = IF v = w THEN Range(rq[w]) \ {h} ELSE Range(rq[v])
      BY <2>2, <2>3
    <2>7. Apart'
      <3>1. \A v \in Workers : Range(rq'[v]) \subseteq Range(rq[v])
        BY <2>6
      <3>2. QED
        BY <1>1, <2>1, <3>1 DEF Apart
    <2>8. Kept(h) /\ \A x \in Tasks : Kept(x)' <=> Kept(x) /\ x # h
      <3>1. /\ h \notin Range(injector) /\ \A v \in Workers : preempt_slot[v] # h
            /\ \A v \in Workers \ {w} : h \notin Range(rq[v])
        BY <1>1, <2>2 DEF Apart
      <3>2. QED
        BY <2>1, <2>2, <2>6, <3>1 DEF Kept
    <2>9. QED
      BY <2>1, <2>2, <2>5, <2>7, <2>8, TakeKeeps
  <1>4. QED
    BY <1>2, <1>3

\* steal_into_and_pop of another worker's queue.
LEMMA StealKeeps ==
    ASSUME PlaceInv, NEW w \in Workers, NEW v \in Workers, v # w, pc[w] # "run",
           NEW n \in 1 .. Len(rq[v]), Len(rq[w]) + (n - 1) <= N,
           rq' = [rq EXCEPT ![v] = SubSeq(rq[v], n + 1, Len(rq[v])),
                            ![w] = rq[w] \o SubSeq(rq[v], 1, n - 1)],
           RunTask(w, rq[v][n]), UNCHANGED <<injector, preempt_slot>>,
           scan' \in [Workers -> Seq(Workers)]
    PROVE  PlaceInv'
  <1> DEFINE q == rq[v]
             a == SubSeq(q, 1, n - 1)
             b == SubSeq(q, n + 1, Len(q))
             t == q[n]
             r == rq[w]
             c == r \o a
  <1>1. QueueTypeOK /\ Apart /\ N \in Nat
    BY ExecutorAssumption DEF PlaceInv, QueueInv
  <1>2. /\ q \in Seq(Tasks) /\ Distinct(q) /\ Len(q) \in Nat /\ Len(q) <= N
        /\ rq[w] \in Seq(Tasks) /\ Distinct(rq[w])
    BY <1>1 DEF QueueTypeOK
  <1>3. /\ a \in Seq(Tasks) /\ Len(a) = n - 1 /\ Distinct(a)
        /\ b \in Seq(Tasks) /\ Len(b) = Len(q) - n /\ Distinct(b)
        /\ t \in Tasks /\ t \in Range(q)
        /\ Range(a) \cap Range(b) = {} /\ Range(a) \cup Range(b) = Range(q) \ {t}
    BY <1>2, PickDistinct
  <1>4. rq' = [rq EXCEPT ![v] = b, ![w] = c] /\ RunTask(w, t)
    OBVIOUS
  <1> HIDE DEF a, b, t
  <1>5. r \in Seq(Tasks) /\ Distinct(r) /\ Range(r) \cap Range(a) = {}
    BY <1>1, <1>2, <1>3 DEF Apart
  <1> HIDE DEF r
  <1>6. /\ c \in Seq(Tasks) /\ Len(c) = Len(r) + Len(a) /\ Distinct(c)
        /\ Range(c) = Range(r) \cup Range(a)
    BY ONLY <1>3, <1>5, JoinDistinct
  <1> HIDE DEF c
  <1>7. /\ rq' \in [Workers -> Seq(Tasks)] /\ rq'[v] = b /\ rq'[w] = c
        /\ \A x \in Workers \ {v, w} : rq'[x] = rq[x]
    BY <1>1, <1>3, <1>4, <1>6 DEF QueueTypeOK
  <1>8. Len(b) <= N /\ Len(c) <= N
    <2>1. Len(b) <= N
      BY <1>1, <1>2, <1>3
    <2>2. Len(c) <= N
      BY <1>3, <1>6 DEF r
    <2>3. QED
      BY <2>1, <2>2
  <1>9. QueueTypeOK'
    BY <1>1, <1>3, <1>6, <1>7, <1>8 DEF QueueTypeOK
  <1>10. /\ t \in Range(rq[v]) /\ t \notin Range(injector) /\ t \notin Range(a) \cup Range(b)
         /\ \A x \in Workers : preempt_slot[x] # t /\ (x # v => t \notin Range(rq[x]))
    BY <1>1, <1>3 DEF Apart
  <1>11. /\ Range(rq'[v]) = Range(b) /\ Range(rq'[w]) = Range(rq[w]) \cup Range(a)
         /\ Range(a) \subseteq Range(rq[v]) /\ Range(b) \subseteq Range(rq[v])
         /\ \A x \in Workers \ {v, w} : Range(rq'[x]) = Range(rq[x])
    BY <1>3, <1>6, <1>7 DEF r
  <1>12. Apart'
    <2>1. \A x \in Workers : Range(rq'[x]) \cap Range(injector) = {}
      BY <1>1, <1>11 DEF Apart
    <2>2. Range(rq'[v]) \cap Range(rq'[w]) = {}
      BY <1>1, <1>3, <1>11 DEF Apart
    <2>3. \A x \in Workers \ {v, w} : /\ Range(rq'[x]) \cap Range(rq'[v]) = {}
                                       /\ Range(rq'[x]) \cap Range(rq'[w]) = {}
      BY <1>1, <1>11 DEF Apart
    <2>4. \A x, y \in Workers \ {v, w} : x # y => Range(rq'[x]) \cap Range(rq'[y]) = {}
      BY <1>1, <1>11 DEF Apart
    <2>5. \A x, y \in Workers : x # y => Range(rq'[x]) \cap Range(rq'[y]) = {}
      BY <2>2, <2>3, <2>4
    <2>6. \A x, y \in Workers : preempt_slot[x] \notin Range(injector) \cup Range(rq'[y])
      BY <1>1, <1>11 DEF Apart
    <2>7. QED
      BY <1>1, <2>1, <2>5, <2>6 DEF Apart
  <1>13. Kept(t) /\ \A x \in Tasks : Kept(x)' <=> Kept(x) /\ x # t
    <2>1. Kept(t)
      BY <1>10 DEF Kept
    <2>2. ASSUME NEW x \in Tasks, x # t
          PROVE  (\E y \in Workers : x \in Range(rq'[y])) <=> (\E y \in Workers : x \in Range(rq[y]))
      BY <1>3, <1>11, <2>2
    <2>3. \A y \in Workers : t \notin Range(rq'[y])
      BY <1>10, <1>11
    <2>4. QED
      BY <1>10, <2>1, <2>2, <2>3 DEF Kept
  <1>14. QED
    BY <1>3, <1>4, <1>9, <1>12, <1>13, TakeKeeps

\* steal_into_and_pop of the worker's own queue, which it visits like the others.
LEMMA StealOwnKeeps ==
    ASSUME PlaceInv, NEW w \in Workers, pc[w] # "run", NEW n \in 1 .. Len(rq[w]),
           rq' = [rq EXCEPT ![w] = SubSeq(rq[w], n + 1, Len(rq[w])) \o SubSeq(rq[w], 1, n - 1)],
           RunTask(w, rq[w][n]), UNCHANGED <<injector, preempt_slot>>,
           scan' \in [Workers -> Seq(Workers)]
    PROVE  PlaceInv'
  <1> DEFINE q == rq[w]
             a == SubSeq(q, 1, n - 1)
             b == SubSeq(q, n + 1, Len(q))
             t == q[n]
             c == b \o a
  <1>1. QueueTypeOK /\ Apart /\ N \in Nat
    BY ExecutorAssumption DEF PlaceInv, QueueInv
  <1>2. q \in Seq(Tasks) /\ Distinct(q) /\ Len(q) \in Nat /\ Len(q) <= N
    BY <1>1 DEF QueueTypeOK
  <1>3. /\ a \in Seq(Tasks) /\ Len(a) = n - 1 /\ Distinct(a)
        /\ b \in Seq(Tasks) /\ Len(b) = Len(q) - n /\ Distinct(b)
        /\ t \in Tasks /\ t \in Range(q)
        /\ Range(a) \cap Range(b) = {} /\ Range(a) \cup Range(b) = Range(q) \ {t}
    BY <1>2, PickDistinct
  <1>4. rq' = [rq EXCEPT ![w] = c] /\ RunTask(w, t)
    OBVIOUS
  <1> HIDE DEF a, b, t
  <1>5. Range(b) \cap Range(a) = {}
    BY <1>3
  <1>6. /\ c \in Seq(Tasks) /\ Len(c) = Len(b) + Len(a) /\ Distinct(c)
        /\ Range(c) = Range(b) \cup Range(a)
    BY ONLY <1>3, <1>5, JoinDistinct
  <1> HIDE DEF c
  <1>7. /\ rq' \in [Workers -> Seq(Tasks)] /\ rq'[w] = c
        /\ \A x \in Workers \ {w} : rq'[x] = rq[x]
    BY <1>1, <1>4, <1>6 DEF QueueTypeOK
  <1>8. Len(c) <= N
    BY <1>1, <1>2, <1>3, <1>6
  <1>9. QueueTypeOK'
    BY <1>1, <1>6, <1>7, <1>8 DEF QueueTypeOK
  <1>10. /\ Range(rq'[w]) = Range(rq[w]) \ {t}
         /\ \A x \in Workers : Range(rq'[x]) \subseteq Range(rq[x])
    BY <1>3, <1>6, <1>7
  <1>11. Apart'
    BY <1>1, <1>10 DEF Apart
  <1>12. /\ t \in Range(rq[w]) /\ t \notin Range(injector)
         /\ \A x \in Workers : preempt_slot[x] # t /\ (x # w => t \notin Range(rq[x]))
    BY <1>1, <1>3 DEF Apart
  <1>13. Kept(t) /\ \A x \in Tasks : Kept(x)' <=> Kept(x) /\ x # t
    BY <1>7, <1>10, <1>12 DEF Kept
  <1>14. QED
    BY <1>3, <1>4, <1>9, <1>11, <1>13, TakeKeeps

LEMMA VisitKeeps ==
    ASSUME PlaceInv, NEW w \in Workers, Visit(w)
    PROVE  PlaceInv'
  <1> DEFINE v == Head(scan[w])
             l == Len(rq[v])
             n == l - l \div 2
  <1>1. /\ scan[w] \in Seq(Workers) /\ scan[w] # <<>> /\ scan \in [Workers -> Seq(Workers)]
        /\ pc[w] = "steal" /\ UNCHANGED <<injector, preempt_slot>>
    BY DEF Visit, PlaceInv, RunInv
  <1>2. v \in Workers /\ Tail(scan[w]) \in Seq(Workers) /\ <<>> \in Seq(Workers)
    BY <1>1
  <1>3. CASE /\ CanSteal(w, v)
             /\ rq' = [[rq EXCEPT ![v] = SubSeq(@, n + 1, Len(@))]
                            EXCEPT ![w] = @ \o SubSeq(rq[v], 1, n - 1)]
             /\ RunTask(w, rq[v][n]) /\ scan' = [scan EXCEPT ![w] = <<>>]
    <2> HIDE DEF v
    <2>1. /\ rq \in [Workers -> Seq(Tasks)] /\ rq[v] \in Seq(Tasks) /\ rq[v] # <<>>
          /\ l \in Nat /\ l <= N /\ N \in Nat
          /\ Len(rq[w]) \in Nat /\ Len(rq[w]) <= N \div 2
      <3>1. QueueTypeOK /\ rq[v] # <<>> /\ Len(rq[w]) <= N \div 2 /\ N \in Nat
        BY <1>3, ExecutorAssumption DEF PlaceInv, QueueInv, CanSteal
      <3>2. rq \in [Workers -> Seq(Tasks)] /\ Len(rq[v]) <= N
        BY <1>2, <3>1 DEF QueueTypeOK
      <3>3. QED
        BY <1>2, <3>1, <3>2
    <2>2. l # 0
      BY <2>1
    <2> HIDE DEF l
    <2>3. n \in 1 .. l /\ n - 1 <= N \div 2 /\ n - 1 \in Int
      BY <2>1, <2>2
    <2>4. N \div 2 \in Int /\ N \div 2 + N \div 2 <= N
      BY <2>1
    <2> HIDE DEF n
    <2>5. Len(rq[w]) + (n - 1) <= N
      BY <2>1, <2>3, <2>4
    <2>6. scan' \in [Workers -> Seq(Workers)] /\ pc[w] # "run"
      BY <1>1, <1>2, <1>3
    <2>7. CASE v = w
      <3>1. rq' = [rq EXCEPT ![w] = SubSeq(rq[w], n + 1, Len(rq[w])) \o SubSeq(rq[w], 1, n - 1)]
        BY <1>3, <2>1, <2>7
      <3>2. n \in 1 .. Len(rq[w]) /\ RunTask(w, rq[w][n])
        BY <1>3, <2>3, <2>7 DEF l
      <3>3. QED
        BY <1>1, <2>6, <3>1, <3>2, StealOwnKeeps
    <2>8. CASE v # w
      <3>1. rq' = [rq EXCEPT ![v] = SubSeq(rq[v], n + 1, Len(rq[v])),
                             ![w] = rq[w] \o SubSeq(rq[v], 1, n - 1)]
        BY <1>2, <1>3, <2>1, <2>8
      <3>2. n \in 1 .. Len(rq[v]) /\ RunTask(w, rq[v][n])
        BY <1>3, <2>3 DEF l
      <3>3. QED
        BY <1>1, <1>2, <2>5, <2>6, <2>8, <3>1, <3>2, StealKeeps
    <2>9. QED
      BY <2>7, <2>8
  <1>4. CASE scan' = [scan EXCEPT ![w] = Tail(@)] /\ UNCHANGED <<rq, pc, cur, life>>
    <2>1. scan' \in [Workers -> Seq(Workers)] /\ pc' \in [Workers -> Points]
      BY <1>1, <1>2, <1>4 DEF PlaceInv, RunInv
    <2>2. QED
      BY <1>1, <1>4, <2>1, StayKeeps
  <1>5. QED
    BY <1>3, <1>4 DEF Visit

LEMMA RunEndKeeps ==
    ASSUME PlaceInv, NEW w \in Workers, RunEnd(w)
    PROVE  PlaceInv'
  <1> DEFINE t == cur[w]
  <1>1. /\ QueueInv /\ RunInv /\ None \notin Tasks /\ t \in Tasks /\ pc[w] = "run"
        /\ life[t] \in {"running", "rewoken"} /\ life \in [Tasks -> Lives]
    BY ExecutorAssumption DEF PlaceInv, RunInv, RunEnd
  <1>2. /\ cur' \in [Workers -> Tasks \cup {None}] /\ pc' \in [Workers -> Points]
        /\ scan' = scan
        /\ \A v \in Workers : cur'[v] = IF v = w THEN None ELSE cur[v]
        /\ \A v \in Workers : pc'[v] = "run" <=> (v # w /\ pc[v] = "run")
    BY <1>1 DEF RunEnd, RunInv, Goto, Points
  <1> HIDE DEF t
  <1>3. ASSUME NEW s \in Lives \ {"running", "rewoken"}, life' = [life EXCEPT ![t] = s]
        PROVE  RunInv'
    <2>1. life' \in [Tasks -> Lives] /\ \A x \in Tasks : life'[x] = IF x = t THEN s ELSE life[x]
      BY <1>1, <1>3
    <2>2. \A v \in Workers : v # w => cur[v] # t
      BY <1>1 DEF RunInv, t
    <2>3. \A x \in Tasks : life'[x] \in {"running", "rewoken"} <=> \E v \in Workers : cur'[v] = x
      BY <1>1, <1>2, <1>3, <2>1, <2>2 DEF RunInv, t
    <2>4. \A v, x \in Workers : v # x /\ cur'[v] # None => cur'[v] # cur'[x]
      BY <1>1, <1>2 DEF RunInv
    <2>5. \A v \in Workers : pc'[v] = "run" <=> cur'[v] # None
      BY <1>1, <1>2 DEF RunInv
    <2>6. QED
      BY <1>1, <1>2, <2>1, <2>3, <2>4, <2>5 DEF RunInv
  <1>4. ASSUME NEW s \in {"done", "waiting"}, SetLife(t, s),
               UNCHANGED <<injector, preempt_slot, rq>>
        PROVE  PlaceInv'
    <2>1. s \in Lives \ {"running", "rewoken"} /\ life' = [life EXCEPT ![t] = s]
      BY <1>4 DEF Lives, SetLife
    <2>2. \A x \in Tasks : life'[x] = IF x = t THEN s ELSE life[x]
      BY <1>1, <2>1
    <2>3. \A x \in Tasks : life'[x] = "scheduled" <=> life[x] = "scheduled"
      BY <1>1, <1>4, <2>2
    <2>4. QueueInv'
      BY <1>1, <1>4, <2>3 DEF QueueInv, QueueTypeOK, Apart, Kept
    <2>5. QED
      BY <1>3, <2>1, <2>4 DEF PlaceInv
  <1>5. CASE life[t] = "rewoken" /\ Enqueue(w, t, TRUE)
    <2>1. QueueInv' /\ \E s \in {"scheduled", "dropped"} : life' = [life EXCEPT ![t] = s]
      BY <1>1, <1>5, EnqueueKeeps
    <2>2. PICK s \in {"scheduled", "dropped"} : life' = [life EXCEPT ![t] = s]
      BY <2>1
    <2>3. s \in Lives \ {"running", "rewoken"}
      BY DEF Lives
    <2>4. QED
      BY <1>3, <2>1, <2>2, <2>3 DEF PlaceInv
  <1>6. QED
    BY <1>4, <1>5 DEF RunEnd, t

\* spawn() and the wake-up of a waiting task.
LEMMA ScheduleKeeps ==
    ASSUME PlaceInv, NEW w \in Workers, NEW t \in Tasks, life[t] \in {"new", "waiting"},
           Enqueue(w, t, FALSE), UNCHANGED <<pc, scan, cur>>
    PROVE  PlaceInv'
  <1>1. QueueInv /\ RunInv /\ life \in [Tasks -> Lives] /\ life[t] # "scheduled"
    BY DEF PlaceInv, RunInv
  <1>2. QueueInv' /\ \E s \in {"scheduled", "dropped"} : life' = [life EXCEPT ![t] = s]
    BY <1>1, EnqueueKeeps
  <1>3. PICK s \in {"scheduled", "dropped"} : life' = [life EXCEPT ![t] = s]
    BY <1>2
  <1>4. life' \in [Tasks -> Lives] /\ \A x \in Tasks : life'[x] = IF x = t THEN s ELSE life[x]
    BY <1>1, <1>3 DEF Lives
  <1>5. \A x \in Tasks : life'[x] \in {"running", "rewoken"} <=> life[x] \in {"running", "rewoken"}
    BY <1>4
  <1>6. RunInv'
    BY <1>1, <1>4, <1>5 DEF RunInv
  <1>7. QED
    BY <1>2, <1>6 DEF PlaceInv

LEMMA RewakeKeeps ==
    ASSUME PlaceInv, NEW t \in Tasks, life[t] = "running", SetLife(t, "rewoken"),
           UNCHANGED <<injector, workerVars>>
    PROVE  PlaceInv'
  <1>1. QueueInv /\ RunInv /\ life \in [Tasks -> Lives]
    BY DEF PlaceInv, RunInv
  <1>2. /\ life' \in [Tasks -> Lives]
        /\ \A x \in Tasks : life'[x] = IF x = t THEN "rewoken" ELSE life[x]
    BY <1>1 DEF SetLife, Lives
  <1>3. \A x \in Tasks : /\ life'[x] \in {"running", "rewoken"} <=> life[x] \in {"running", "rewoken"}
                         /\ life'[x] = "scheduled" <=> life[x] = "scheduled"
    BY <1>2
  <1>4. QueueInv'
    BY <1>1, <1>3 DEF QueueInv, QueueTypeOK, Apart, Kept, workerVars
  <1>5. RunInv'
    BY <1>1, <1>2, <1>3 DEF RunInv, workerVars
  <1>6. QED
    BY <1>4, <1>5 DEF PlaceInv

LEMMA StepKeeps ==
    ASSUME PlaceInv, NEW w \in Workers, Step(w)
    PROVE  PlaceInv'
  <1>1. pc \in [Workers -> Points] /\ scan \in [Workers -> Seq(Workers)]
    BY DEF PlaceInv, RunInv
  <1>2. ASSUME NEW l \in Points \ {"run"}, Goto(w, l), pc[w] # "run"
        PROVE  pc' \in [Workers -> Points] /\ \A v \in Workers : pc'[v] = "run" <=> pc[v] = "run"
    BY <1>1, <1>2 DEF Goto
  <1>3. CASE Loop(w)
    <2>1. PICK l \in {"exited", "next"} : Goto(w, l)
      BY <1>3 DEF Loop
    <2>2. l \in Points \ {"run"}
      BY DEF Points
    <2>3. UNCHANGED <<injector, preempt_slot, rq, scan, cur, life>> /\ pc[w] # "run"
      BY <1>3 DEF Loop
    <2>4. QED
      BY <1>1, <1>2, <2>1, <2>2, <2>3, StayKeeps
  <1>4. CASE NextTask(w)
    <2>1. scan' \in [Workers -> Seq(Workers)] /\ pc[w] # "run"
      BY <1>1, <1>4 DEF NextTask
    <2>2. CASE TakeInjected(w)
      BY <2>1, <2>2, TakeInjectedKeeps
    <2>3. CASE WorkerPop(w)
      BY <2>1, <2>3, WorkerPopKeeps
    <2>4. CASE Goto(w, "between") /\ UNCHANGED <<injector, preempt_slot, rq, cur, life>>
      <3>1. "between" \in Points \ {"run"}
        BY DEF Points
      <3>2. QED
        BY <1>2, <2>1, <2>4, <3>1, StayKeeps
    <2>5. QED
      BY <1>4, <2>2, <2>3, <2>4 DEF NextTask
  <1>5. CASE StealTask(w)
    <2>1. PICK o \in Workers : scan' = [scan EXCEPT ![w] = Offsets(w, o)]
      BY <1>5 DEF StealTask
    <2>2. Offsets(w, o) \in Seq(Workers)
      <3>1. NumWorkers \in Nat \ {0}
        BY ExecutorAssumption
      <3>2. ASSUME NEW k \in 1 .. NumWorkers PROVE (o + k - 1) % NumWorkers \in Workers
        <4>1. o + k - 1 \in Int
          BY <3>1 DEF Workers
        <4>2. QED
          BY <3>1, <4>1 DEF Workers
      <3>3. Offsets(w, o) \in [1 .. NumWorkers -> Workers]
        BY <3>2 DEF Offsets
      <3>4. QED
        BY <3>1, <3>3, SeqDef
    <2>3. scan' \in [Workers -> Seq(Workers)]
      BY <1>1, <2>1, <2>2
    <2>4. "steal" \in Points \ {"run"}
      BY DEF Points
    <2>5. Goto(w, "steal") /\ pc[w] # "run" /\ UNCHANGED <<injector, preempt_slot, rq, cur, life>>
      BY <1>5 DEF StealTask
    <2>6. QED
      BY <1>2, <2>3, <2>4, <2>5, StayKeeps
  <1>6. CASE Visit(w)
    BY <1>6, VisitKeeps
  <1>7. CASE StealInjected(w)
    <2>1. scan' \in [Workers -> Seq(Workers)] /\ pc[w] # "run"
      BY <1>1, <1>7 DEF StealInjected
    <2>2. CASE TakeInjected(w)
      BY <2>1, <2>2, TakeInjectedKeeps
    <2>3. CASE Goto(w, "loop") /\ UNCHANGED <<injector, preempt_slot, rq, cur, life>>
      <3>1. "loop" \in Points \ {"run"}
        BY DEF Points
      <3>2. QED
        BY <1>2, <2>1, <2>3, <3>1, StayKeeps
    <2>4. QED
      BY <1>7, <2>2, <2>3 DEF StealInjected
  <1>8. QED
    BY <1>3, <1>4, <1>5, <1>6, <1>7 DEF Step

LEMMA InitPlaces == Init => PlaceInv
  <1> SUFFICES ASSUME Init PROVE PlaceInv
    OBVIOUS
  <1>1. Main \in Tasks /\ None \notin Tasks /\ N \in Nat
    BY ExecutorAssumption
  <1>2. /\ injector \in Seq(Tasks) /\ Distinct(injector) /\ Range(injector) = {Main}
    BY <1>1 DEF Init, Distinct, Range
  <1>3. \A w \in Workers : /\ rq[w] = <<>> /\ preempt_slot[w] = None
                           /\ pc[w] = "loop" /\ cur[w] = None
    BY DEF Init
  <1>4. \A w \in Workers : Distinct(rq[w]) /\ Range(rq[w]) = {} /\ Len(rq[w]) <= N
    BY <1>1, <1>3 DEF Distinct, Range
  <1>5. QueueTypeOK
    BY <1>2, <1>4 DEF QueueTypeOK, Init
  <1>6. Apart
    BY <1>1, <1>2, <1>3, <1>4 DEF Apart
  <1>7. \A t \in Tasks : life[t] = IF t = Main THEN "scheduled" ELSE "new"
    BY DEF Init
  <1>8. \A t \in Tasks : life[t] = "scheduled" <=> Kept(t)
    BY <1>1, <1>2, <1>3, <1>4, <1>7 DEF Kept
  <1>9. /\ life \in [Tasks -> Lives] /\ pc \in [Workers -> Points]
        /\ scan \in [Workers -> Seq(Workers)] /\ cur \in [Workers -> Tasks \cup {None}]
    BY DEF Init, Lives, Points
  <1>10. \A t \in Tasks : life[t] \notin {"running", "rewoken"} /\ \A w \in Workers : cur[w] # t
    BY <1>1, <1>3, <1>7
  <1>11. RunInv
    BY <1>3, <1>9, <1>10 DEF RunInv
  <1>12. QED
    BY <1>5, <1>6, <1>8, <1>11 DEF PlaceInv, QueueInv

LEMMA NextPlaces == PlaceInv /\ [Next]_vars => PlaceInv'
  <1> SUFFICES ASSUME PlaceInv, [Next]_vars PROVE PlaceInv'
    OBVIOUS
  <1>1. pc \in [Workers -> Points] /\ scan \in [Workers -> Seq(Workers)]
    BY DEF PlaceInv, RunInv
  <1>2. ASSUME NEW w \in Workers, Step(w) PROVE PlaceInv'
    BY <1>2, StepKeeps
  <1>3. ASSUME NEW w \in Workers, RunEnd(w) PROVE PlaceInv'
    BY <1>3, RunEndKeeps
  <1>4. CASE UNCHANGED <<injector, workerVars, life>>
    BY <1>1, <1>4, StayKeeps DEF workerVars
  <1>5. ASSUME NEW w \in Workers, NEW t \in Tasks, Spawn(w, t) \/ Wake(w, t) PROVE PlaceInv'
    <2>1. CASE Spawn(w, t)
      BY <2>1, ScheduleKeeps DEF Spawn
    <2>2. CASE Wake(w, t)
      BY <2>2, ScheduleKeeps, RewakeKeeps DEF Wake
    <2>3. QED
      BY <1>5, <2>1, <2>2
  <1>6. QED
    BY <1>2, <1>3, <1>4, <1>5 DEF Next, Shutdown, vars

\* A set whose elements are all the same has one, or none.
LEMMA OneOrNone ==
    ASSUME NEW S, \A a, b \in S : a = b
    PROVE  Cardinality(S) = IF S = {} THEN 0 ELSE 1
  <1>1. CASE S = {}
    BY <1>1, FS_EmptySet
  <1>2. CASE S # {}
    <2>1. PICK a : S = {a}
      BY <1>2
    <2>2. QED
      BY <1>2, <2>1, FS_Singleton
  <1>3. QED
    BY <1>1, <1>2

LEMMA InvOnePlace == PlaceInv => OnePlace
  <1> SUFFICES ASSUME PlaceInv, NEW t \in Tasks
               PROVE  /\ Queued(t) = IF life[t] = "scheduled" THEN 1 ELSE 0
                      /\ Cardinality(RunBy(t)) = IF life[t] \in {"running", "rewoken"} THEN 1 ELSE 0
    BY DEF OnePlace
  <1> DEFINE A == {k \in DOMAIN injector : injector[k] = t}
             B == {x \in Workers \X (1..N) : x[2] <= Len(rq[x[1]]) /\ rq[x[1]][x[2]] = t}
             C == {w \in Workers : preempt_slot[w] = t}
             D == RunBy(t)
  <1>1. QueueTypeOK /\ Apart /\ RunInv /\ None \notin Tasks /\ t # None /\ N \in Nat
        /\ (life[t] = "scheduled" <=> Kept(t))
    BY ExecutorAssumption DEF PlaceInv, QueueInv
  <1>2. (\A i, j \in A : i = j) /\ (A # {} <=> t \in Range(injector))
    BY <1>1 DEF QueueTypeOK, Distinct, Range
  <1>3. (\A v, w \in C : v = w) /\ (C # {} <=> \E w \in Workers : preempt_slot[w] = t)
    BY <1>1 DEF Apart
  <1>4. (\A v, w \in D : v = w) /\ (D # {} <=> \E w \in Workers : cur[w] = t)
    BY <1>1 DEF RunInv, RunBy
  <1>5. ASSUME NEW w \in Workers
        PROVE  /\ rq[w] \in Seq(Tasks) /\ Len(rq[w]) \in Nat /\ Len(rq[w]) <= N
               /\ DOMAIN rq[w] = 1 .. Len(rq[w]) /\ Distinct(rq[w])
    BY <1>1 DEF QueueTypeOK
  <1>6. ASSUME NEW x \in B
        PROVE  /\ x[1] \in Workers /\ x[2] \in DOMAIN rq[x[1]] /\ rq[x[1]][x[2]] = t
               /\ x = <<x[1], x[2]>>
    <2>1. x[1] \in Workers /\ x[2] \in 1 .. N /\ x[2] <= Len(rq[x[1]]) /\ x = <<x[1], x[2]>>
      OBVIOUS
    <2>2. QED
      BY <1>1, <1>5, <2>1
  <1>7. \A x, y \in B : x = y
    <2> SUFFICES ASSUME NEW x \in B, NEW y \in B PROVE x = y
      OBVIOUS
    <2>1. /\ x[1] \in Workers /\ x[2] \in DOMAIN rq[x[1]] /\ rq[x[1]][x[2]] = t
          /\ y[1] \in Workers /\ y[2] \in DOMAIN rq[y[1]] /\ rq[y[1]][y[2]] = t
          /\ x = <<x[1], x[2]>> /\ y = <<y[1], y[2]>>
      BY <1>6
    <2> HIDE DEF B
    <2>2. t \in Range(rq[x[1]]) /\ t \in Range(rq[y[1]])
      BY <2>1 DEF Range
    <2>3. x[1] = y[1]
      BY <1>1, <2>1, <2>2 DEF Apart
    <2>4. x[2] = y[2]
      BY <1>5, <2>1, <2>3 DEF Distinct
    <2>5. QED
      BY <2>1, <2>3, <2>4
  <1>8. B # {} <=> \E w \in Workers : t \in Range(rq[w])
    <2>1. ASSUME NEW x \in B PROVE \E w \in Workers : t \in Range(rq[w])
      BY <1>6 DEF Range
    <2>2. ASSUME NEW w \in Workers, t \in Range(rq[w]) PROVE B # {}
      <3>1. PICK k \in 1 .. Len(rq[w]) : rq[w][k] = t
        BY <1>5, <2>2 DEF Range
      <3>2. k \in 1 .. N /\ k <= Len(rq[w])
        BY <1>1, <1>5
      <3>3. <<w, k>> \in B
        BY <3>1, <3>2
      <3>4. QED
        BY <3>3
    <2>3. QED
      BY <2>1, <2>2
  <1>9. Queued(t) = Cardinality(A) + Cardinality(B) + Cardinality(C) /\ D = RunBy(t)
    BY DEF Queued, Times
  <1> HIDE DEF A, B, C, D
  <1>10. /\ Cardinality(A) = IF A = {} THEN 0 ELSE 1
         /\ Cardinality(B) = IF B = {} THEN 0 ELSE 1
         /\ Cardinality(C) = IF C = {} THEN 0 ELSE 1
         /\ Cardinality(D) = IF D = {} THEN 0 ELSE 1
    BY <1>2, <1>3, <1>4, <1>7, OneOrNone
  <1>11. ~(A # {} /\ B # {}) /\ ~(A # {} /\ C # {}) /\ ~(B # {} /\ C # {})
    BY <1>1, <1>2, <1>3, <1>8 DEF Apart
  <1>12. life[t] = "scheduled" <=> A # {} \/ B # {} \/ C # {}
    BY <1>1, <1>2, <1>3, <1>8 DEF Kept
  <1>13. life[t] \in {"running", "rewoken"} <=> D # {}
    BY <1>1, <1>4 DEF RunInv
  <1>14. Queued(t) = IF life[t] = "scheduled" THEN 1 ELSE 0
    BY <1>9, <1>10, <1>11, <1>12
  <1>15. QED
    BY <1>9, <1>10, <1>13, <1>14

\* However many workers there are and whatever the capacity of their queues, a
\* scheduled task is in exactly one of the slots, the queues and the injector, and a
\* running one is run by exactly one worker.
THEOREM ExecutorOnePlace == Spec => []OnePlace
  <1>1. Spec => []PlaceInv
    BY InitPlaces, NextPlaces, PTL DEF Spec
  <1>2. QED
    BY <1>1, InvOnePlace, PTL
=============================================================================
