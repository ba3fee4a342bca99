-------------------------------- MODULE Futex --------------------------------
(***************************************************************************)
(* The futexes of an address space (mizu/kernel/src/mem/futex.rs) and the  *)
(* system call futex() (mem/syscall.rs): a queue of wakers for every key,  *)
(* waits that move to another queue when they are requeued, waits that     *)
(* time out.                                                               *)
(***************************************************************************)
EXTENDS Integers, FiniteSets

CONSTANTS Waiters, Wakers, Keys,
          NIds,        \* bound: entries that exist at a time
          MaxDebt,     \* bound: prewoken, on both sides of 0
          Counts,      \* how many a FUTEX_WAKE wakes
          Requeues     \* the pairs (notify, reque) of FUTEX_REQUEUE

Ids == 1..NIds
Vacant == [st |-> "vacant"]
Waiting(p) == [st |-> "waiting", who |-> p]
Notified == [st |-> "notified"]
Requed(k) == [st |-> "requed", to |-> k]

VARIABLES word,       \* the user's word of each key
          wakers,     \* FutexQueue::wakers: by key and id
          prewoken,   \* FutexQueue::prewoken
          fpc,        \* "idle", "checked", "poll", "parked", "drop"
          fq, fid,    \* FutexWait: queue (its key), id (0 is None)
          owed        \* what a wake() has still to add to prewoken: [key, count]

fxvars == <<word, wakers, prewoken, fpc, fq, fid, owed>>

NoDebt == [count |-> 0]

Init ==
    /\ word = [k \in Keys |-> 0]
    /\ wakers = [k \in Keys |-> [i \in Ids |-> Vacant]]
    /\ prewoken = [k \in Keys |-> 0]
    /\ fpc = [p \in Waiters |-> "idle"]
    /\ fq = [p \in Waiters |-> CHOOSE k \in Keys : TRUE]
    /\ fid = [p \in Waiters |-> 0]
    /\ owed = [w \in Wakers |-> NoDebt]

Used == {i \in Ids : (\E k \in Keys : wakers[k][i] # Vacant) \/ (\E p \in Waiters : fid[p] = i)}
Small(k) == prewoken[k] \in (1 - MaxDebt)..(MaxDebt - 1)
Goto(p, pc) == fpc' = [fpc EXCEPT ![p] = pc]

\* FUTEX_WAIT: the word is compared, ...
WaitCheck(p, k) ==
    /\ fpc[p] = "idle" /\ word[k] = 0
    /\ fq' = [fq EXCEPT ![p] = k] /\ Goto(p, "checked")
    /\ UNCHANGED <<word, wakers, prewoken, fid, owed>>

\* ... and only then the wait is polled for the first time: it takes an id.
WaitStart(p) ==
    /\ fpc[p] = "checked" /\ Ids # Used /\ Small(fq[p])
    /\ fid' = [fid EXCEPT ![p] = CHOOSE i \in Ids \ Used : \A j \in Ids \ Used : i <= j]
    /\ Goto(p, "poll")
    /\ UNCHANGED <<word, wakers, prewoken, fq, owed>>

\* FutexQueue::poll(), under the lock of the queue.
Entry(p) == wakers[fq[p]][fid[p]]
Put(p, e) == wakers' = [wakers EXCEPT ![fq[p]][fid[p]] = e]

PollWaiting(p) ==
    /\ fpc[p] = "poll" /\ fid[p] # 0 /\ Entry(p).st = "waiting"
    /\ Goto(p, "parked") /\ UNCHANGED <<word, wakers, prewoken, fq, fid, owed>>

PollNotified(p) ==
    /\ fpc[p] = "poll" /\ fid[p] # 0 /\ Entry(p).st = "notified"
    /\ Put(p, Vacant) /\ Goto(p, "drop")
    /\ UNCHANGED <<word, prewoken, fq, fid, owed>>

PollRequed(p) ==
    /\ fpc[p] = "poll" /\ fid[p] # 0 /\ Entry(p).st = "requed"
    /\ fq' = [fq EXCEPT ![p] = Entry(p).to] /\ Put(p, Vacant)
    /\ UNCHANGED <<word, prewoken, fpc, fid, owed>>

\* No entry: a wake() that was counted in advance, or a new entry.
PollVacant(p) ==
    /\ fpc[p] = "poll" /\ fid[p] # 0 /\ Entry(p).st = "vacant"
    /\ prewoken' = [prewoken EXCEPT ![fq[p]] = @ - 1]
    /\ IF prewoken[fq[p]] >= 0
       THEN Goto(p, "drop") /\ UNCHANGED wakers
       ELSE Goto(p, "parked") /\ Put(p, Waiting(p))
    /\ UNCHANGED <<word, fq, fid, owed>>

\* The timeout of FUTEX_WAIT, or a signal: the future is dropped.
Cancel(p) ==
    /\ fpc[p] \in {"parked", "poll"} /\ Goto(p, "drop")
    /\ UNCHANGED <<word, wakers, prewoken, fq, fid, owed>>

\* FutexWait::drop(): discard() in every queue the wait has moved through.
Discard(p) ==
    /\ fpc[p] = "drop" /\ Put(p, Vacant)
    /\ IF Entry(p).st = "requed"
       THEN fq' = [fq EXCEPT ![p] = Entry(p).to] /\ UNCHANGED <<fpc, fid>>
       ELSE Goto(p, "idle") /\ fid' = [fid EXCEPT ![p] = 0] /\ UNCHANGED fq
    /\ UNCHANGED <<word, prewoken, owed>>
-----------------------------------------------------------------------------
IsWaiting(k) == {i \in Ids : wakers[k][i].st = "waiting"}
IsRequed(k) == {i \in Ids : wakers[k][i].st = "requed"}
AtMost(n, S) == IF n < Cardinality(S) THEN n ELSE Cardinality(S)
Woken(k, W) == [p \in Waiters |->
    IF \E i \in W : wakers[k][i] = Waiting(p) /\ fpc[p] = "parked" THEN "poll" ELSE fpc[p]]


\* wake(): entries in the order of the hash map, until n waiting ones were woken. An
\* entry that was requeued and is passed on the way is overwritten too.
Wake(w, k, n) ==
    /\ owed[w] = NoDebt /\ Small(k)
    /\ \E W \in SUBSET IsWaiting(k), R \in SUBSET IsRequed(k) :
          /\ \/ n > 0 /\ Cardinality(W) = n
             \/ (n = 0 \/ Cardinality(W) < n) /\ W = IsWaiting(k) /\ R = IsRequed(k)
          /\ wakers' = [wakers EXCEPT ![k] = [i \in Ids |-> IF i \in W \cup R THEN Notified ELSE @[i]]]
          /\ fpc' = Woken(k, W)
          /\ owed' = [owed EXCEPT ![w] = IF W = {} THEN NoDebt ELSE [key |-> k, count |-> Cardinality(W)]]
    /\ UNCHANGED <<word, prewoken, fq, fid>>

\* The counter is added to after the lock is released.
WakeCount(w) ==
    /\ owed[w] # NoDebt
    /\ prewoken' = [prewoken EXCEPT ![owed[w].key] = @ + owed[w].count]
    /\ owed' = [owed EXCEPT ![w] = NoDebt]
    /\ UNCHANGED <<word, wakers, fpc, fq, fid>>

\* requeue(), under both locks: notify waits are woken, reque others move, and every
\* other entry of the queue is dropped by retain(), waiting or not.
Requeue(w, k, to, notify, reque) ==
    /\ owed[w] = NoDebt /\ k # to /\ Small(k) /\ Small(to)
    /\ \E N \in SUBSET IsWaiting(k) : \E M \in SUBSET (IsWaiting(k) \ N) :
          /\ Cardinality(N) = AtMost(notify, IsWaiting(k))
          /\ Cardinality(M) = AtMost(reque, IsWaiting(k) \ N)
          /\ wakers' = [wakers EXCEPT
                ![k] = [i \in Ids |-> IF i \in M THEN Requed(to) ELSE Vacant],
                ![to] = [i \in Ids |-> IF i \in M THEN wakers[k][i] ELSE @[i]]]
          /\ fpc' = Woken(k, N)
          /\ prewoken' = [prewoken EXCEPT ![k] = @ + Cardinality(N)]
    /\ UNCHANGED <<word, fq, fid, owed>>

\* User code changes the word.
Store(k, v) ==
    /\ word[k] # v /\ word' = [word EXCEPT ![k] = v]
    /\ UNCHANGED <<wakers, prewoken, fpc, fq, fid, owed>>

Poll(p) == WaitStart(p) \/ PollWaiting(p) \/ PollNotified(p) \/ PollRequed(p) \/ PollVacant(p) \/ Discard(p)

Next ==
    \/ \E p \in Waiters : Poll(p) \/ Cancel(p) \/ \E k \in Keys : WaitCheck(p, k)
    \/ \E w \in Wakers : WakeCount(w) \/ \E k \in Keys, n \in Counts : Wake(w, k, n)
    \/ \E w \in Wakers, k, to \in Keys, r \in Requeues : Requeue(w, k, to, r[1], r[2])
    \/ \E k \in Keys, v \in {0, 1} : Store(k, v)

Spec == Init /\ [][Next]_fxvars
-----------------------------------------------------------------------------
\* A parked wait has a waiting entry with its waker in some queue: a FUTEX_WAKE of that
\* key finds it, wherever it was requeued to.
Findable ==
    \A p \in Waiters : fpc[p] = "parked" => \E k \in Keys : wakers[k][fid[p]] = Waiting(p)

\* The queues a wait was requeued through never lead back to one of them: the loops of
\* FutexWait::poll() and of its drop() end.
ChainEnds ==
    \A i \in Ids :
        LET to == [k \in {j \in Keys : wakers[j][i].st = "requed"} |-> wakers[k][i].to]
        IN  \A S \in SUBSET DOMAIN to : S # {} => \E k \in S : to[k] \notin S

\* A waiting entry belongs to a wait that is still there: the one wake() picks is not
\* lost on a wait that has timed out.
NoStaleEntry ==
    \A k \in Keys, i \in Ids : wakers[k][i].st = "waiting" =>
        \E p \in Waiters : fid[p] = i /\ wakers[k][i] = Waiting(p)
=============================================================================
