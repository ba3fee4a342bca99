------------------------------ MODULE Semaphore ------------------------------
(***************************************************************************)
(* The semaphore of ksync (mizu/lib/ksync/src/semaphore.rs): a counter and *)
(* an event.  Acquire keeps its listener from one poll to the next;        *)
(* AcquireArc and AcquireArsc take() it out of the future and bind the new *)
(* one to the temporary, so that their poll() loops and never waits.       *)
(***************************************************************************)
EXTENDS Event

CONSTANTS Waiters,   \* processes
          Owned,     \* those of them that use acquire_arc() or acquire_arsc()
          Permits    \* the argument of new()

VARIABLES count, event,   \* Semaphore
          seen,           \* the count each process has loaded
          smpc            \* where each process is

smvars == <<count, event, seen, smpc>>

Init ==
    /\ count = Permits /\ event = NewEvent
    /\ seen = [p \in Waiters |-> 0]
    /\ smpc = [p \in Waiters |-> "idle"]

Goto(p, l) == smpc' = [smpc EXCEPT ![p] = l]

\* try_acquire(), by itself or in a poll: load the counter.  Without a permit a
\* call that is not a poll returns None.
Load(p) ==
    /\ smpc[p] \in {"idle", "load"}
    /\ seen' = [seen EXCEPT ![p] = count]
    /\ \/ count > 0 /\ Goto(p, "cas")
       \/ count = 0 /\ Goto(p, "blocked")
       \/ count = 0 /\ p \notin Listeners(event) /\ Goto(p, "idle")
    /\ UNCHANGED <<count, event>>

AcquireBlind(p) ==    \* mutant: the counter is stored, not compared
    /\ smpc[p] = "cas"
    /\ count' = seen[p] - 1 /\ Goto(p, "done")
    /\ UNCHANGED <<event, seen>>

\* compare_exchange_weak(count, count - 1); on failure the loop goes on with the
\* count it returned (here: loaded again).
Acquire(p) ==
    /\ smpc[p] = "cas"
    /\ \/ count = seen[p] /\ count' = count - 1 /\ Goto(p, "done")
       \/ UNCHANGED count /\ Goto(p, "load")
    /\ UNCHANGED <<event, seen>>

\* Acquire::poll, AcquireArc::poll when there is no permit.
Block(p) ==
    /\ smpc[p] = "blocked"
    /\ \/ p \notin Listeners(event) /\ event' = Listen(event, p)
          /\ Goto(p, IF p \in Owned THEN "unlisten" ELSE "load")
       \/ IsNotified(event, p) /\ event' = Consume(event, p) /\ Goto(p, "load")
       \/ p \in Range(event.waiting) /\ UNCHANGED event /\ Goto(p, "wait")
    /\ UNCHANGED <<count, seen>>

\* The temporary of the owned futures is dropped at the end of the match.
Unlisten(p) ==
    /\ smpc[p] = "unlisten"
    /\ event' = DropListener(event, p) /\ Goto(p, "load")
    /\ UNCHANGED <<count, seen>>

DropFuture(p) ==
    event' = IF p \in Listeners(event) THEN DropListener(event, p) ELSE event

\* The future is over, and its listener is dropped.
Done(p) ==
    /\ smpc[p] = "done" /\ DropFuture(p) /\ Goto(p, "hold")
    /\ UNCHANGED <<count, seen>>

Poll(p) ==
    /\ smpc[p] = "wait" /\ Goto(p, "load")
    /\ UNCHANGED <<count, event, seen>>

Cancel(p) ==
    /\ smpc[p] = "wait" /\ DropFuture(p) /\ Goto(p, "idle")
    /\ UNCHANGED <<count, seen>>

\* The drop() of the guards.
Release(p) ==
    /\ smpc[p] = "hold" /\ count' = count + 1 /\ Goto(p, "notify")
    /\ UNCHANGED <<event, seen>>


ReleaseNotify(p) ==
    /\ smpc[p] = "notify" /\ event' = Notify(event, 1) /\ Goto(p, "idle")
    /\ UNCHANGED <<count, seen>>

Run(p) ==
    \/ (smpc[p] = "load" /\ Load(p)) \/ Acquire(p) \/ Block(p) \/ Unlisten(p) \/ Done(p)
    \/ Release(p) \/ ReleaseNotify(p)
    \/ IsNotified(event, p) /\ Poll(p)

Next == \E p \in Waiters : Load(p) \/ Run(p) \/ Poll(p) \/ Cancel(p)

Spec == Init /\ [][Next]_smvars /\ \A p \in Waiters : WF_smvars(Run(p))
-----------------------------------------------------------------------------
Holding(p) == smpc[p] \in {"done", "hold"}

\* No permit is created or lost: the counter and the guards alive add up to the
\* number the semaphore was made with, whatever races there were on the counter.
PermitsConserved == count + Cardinality({p \in Waiters : Holding(p)}) = Permits

Parked(p) == smpc[p] = "wait" /\ ~IsNotified(event, p)

\* Nobody sleeps in a semaphore that nobody uses: as long as one process is parked and
\* nothing is about to happen, a guard is alive whose drop will wake it.
NobodyStranded ==
    (\A p \in Waiters : smpc[p] \in {"idle", "hold"} \/ Parked(p)) =>
        \A p \in Waiters : Parked(p) => count < Permits
-----------------------------------------------------------------------------
(* PROOFS, for any finite set of processes. *)

Ready == {"load", "cas", "blocked", "unlisten", "done", "wait"}
TypeOK ==
    /\ count \in Nat /\ EventOK(event, Waiters)
    /\ seen \in [Waiters -> Nat]
    /\ smpc \in [Waiters -> Ready \cup {"idle", "hold", "notify"}]
    /\ \A p \in Waiters : smpc[p] = "cas" => seen[p] > 0

Holders == {p \in Waiters : Holding(p)}

SemInv == TypeOK /\ PermitsConserved

\* The number of guards, and that the counter is smaller while there is one.
LEMMA HoldersCount ==
    ASSUME IsFiniteSet(Waiters), Permits \in Nat, SemInv
    PROVE  /\ IsFiniteSet(Holders) /\ Cardinality(Holders) \in Nat
           /\ count + Cardinality(Holders) = Permits
           /\ (\E p \in Waiters : Holding(p)) => count < Permits
  <1>1. IsFiniteSet(Holders) /\ Cardinality(Holders) \in Nat
    BY FS_Subset, FS_CardinalityType DEF Holders
  <1>2. count + Cardinality(Holders) = Permits
    BY DEF SemInv, PermitsConserved, Holders
  <1>3. Holders # {} => Cardinality(Holders) # 0
    BY <1>1, FS_EmptySet
  <1>4. QED
    BY <1>1, <1>2, <1>3 DEF SemInv, TypeOK, Holders

\* A step of a process that is no holder before and after it, or one at both times, leaves
\* the set of holders alone; one that becomes or stops being one changes it by itself.
LEMMA HoldersMove ==
    ASSUME TypeOK, NEW p \in Waiters, NEW l \in Ready \cup {"idle", "hold", "notify"}, Goto(p, l)
    PROVE  Holders' = IF l \in {"done", "hold"} THEN Holders \cup {p} ELSE Holders \ {p}
  BY DEF TypeOK, Goto, Holders, Holding

LEMMA InitSemInv == ASSUME IsFiniteSet(Waiters), Permits \in Nat, Init PROVE SemInv
  <1>1. {p \in Waiters : Holding(p)} = {}
    BY DEF Init, Holding
  <1>2. PermitsConserved
    BY <1>1, FS_EmptySet DEF Init, PermitsConserved
  <1>3. TypeOK
    BY NewEventOK DEF Init, TypeOK
  <1>4. QED
    BY <1>2, <1>3 DEF SemInv

LEMMA NextSemInv ==
    ASSUME IsFiniteSet(Waiters), Permits \in Nat, SemInv, [Next]_smvars PROVE SemInv'
  <1> USE DEF Ready
  <1>t. TypeOK
    BY DEF SemInv
  <1>c. /\ IsFiniteSet(Holders) /\ Cardinality(Holders) \in Nat
        /\ count + Cardinality(Holders) = Permits
    BY HoldersCount
  <1>0. CASE UNCHANGED smvars
    BY <1>0, <1>t DEF SemInv, smvars, TypeOK, PermitsConserved, Holding
  <1>1. ASSUME NEW p \in Waiters, Load(p) \/ Poll(p) PROVE SemInv'
    <2>1. TypeOK'
      BY <1>t, <1>1 DEF TypeOK, Load, Poll, Goto
    <2>2. Holders' = Holders /\ count' = count
      BY <1>t, <1>1 DEF TypeOK, Load, Poll, Goto, Holders, Holding
    <2>3. QED
      BY <1>c, <2>1, <2>2 DEF SemInv, PermitsConserved, Holders
  <1>2. ASSUME NEW p \in Waiters, Acquire(p) PROVE SemInv'
    <2>1. TypeOK'
      BY <1>t, <1>2 DEF TypeOK, Acquire, Goto
    <2>2. p \notin Holders
      BY <1>2 DEF Acquire, Holders, Holding
    <2>3. CASE count' = count - 1 /\ Goto(p, "done")
      <3>1. Holders' = Holders \cup {p}
        BY <1>t, <2>3, HoldersMove
      <3>2. Cardinality(Holders') = Cardinality(Holders) + 1
        BY <1>c, <2>2, <3>1, FS_AddElement
      <3>3. count' + Cardinality(Holders') = Permits
        BY <1>c, <1>t, <2>3, <3>2 DEF TypeOK
      <3>4. QED
        BY <2>1, <3>3 DEF SemInv, PermitsConserved, Holders
    <2>4. CASE UNCHANGED count /\ Goto(p, "load")
      <3>1. Holders' = Holders
        BY <1>t, <2>2, <2>4, HoldersMove
      <3>2. QED
        BY <1>c, <2>1, <2>4, <3>1 DEF SemInv, PermitsConserved, Holders
    <2>5. QED
      BY <1>2, <2>3, <2>4 DEF Acquire
  <1>3. ASSUME NEW p \in Waiters,
               Block(p) \/ Unlisten(p) \/ Done(p) \/ Cancel(p) \/ ReleaseNotify(p)
        PROVE  SemInv'
    <2>1. EventOK(event', Waiters)
      BY <1>t, <1>3, ListenAdds, ConsumeForgets, DropPassesOn, NotifyWakes
         DEF TypeOK, Block, Unlisten, Done, Cancel, ReleaseNotify, DropFuture
    <2>2. TypeOK'
      BY <1>t, <1>3, <2>1 DEF TypeOK, Block, Unlisten, Done, Cancel, ReleaseNotify, Goto
    <2>3. Holders' = Holders /\ count' = count
      BY <1>t, <1>3 DEF TypeOK, Block, Unlisten, Done, Cancel, ReleaseNotify, Goto, Holders, Holding
    <2>4. QED
      BY <1>c, <2>2, <2>3 DEF SemInv, PermitsConserved, Holders
  <1>4. ASSUME NEW p \in Waiters, Release(p) PROVE SemInv'
    <2>1. TypeOK'
      BY <1>t, <1>4 DEF TypeOK, Release, Goto
    <2>2. p \in Holders
      BY <1>4 DEF Release, Holders, Holding
    <2>3. Holders' = Holders \ {p}
      BY <1>t, <1>4, HoldersMove DEF Release
    <2>4. Cardinality(Holders') = Cardinality(Holders) - 1
      BY <1>c, <2>2, <2>3, FS_RemoveElement
    <2>5. count' + Cardinality(Holders') = Permits
      BY <1>c, <1>t, <1>4, <2>4 DEF TypeOK, Release
    <2>6. QED
      BY <2>1, <2>5 DEF SemInv, PermitsConserved, Holders
  <1>5. QED
    BY <1>0, <1>1, <1>2, <1>3, <1>4 DEF Next, Run

\* The counter and the guards alive always add up to the permits (PermitsConserved).
THEOREM SemaphoreConserves ==
    ASSUME IsFiniteSet(Waiters), Permits \in Nat PROVE Spec => []PermitsConserved
  <1>1. Init => SemInv
    BY InitSemInv
  <1>2. SemInv /\ [Next]_smvars => SemInv'
    BY NextSemInv
  <1>3. SemInv => PermitsConserved
    BY DEF SemInv
  <1>4. QED
    BY <1>1, <1>2, <1>3, PTL DEF Spec

\* A listener belongs to a poll that is under way or to one that returned Pending.
Placed ==
    /\ \A p \in Listeners(event) : smpc[p] \in Ready
    /\ \A p \in Waiters : smpc[p] = "wait" => p \in Listeners(event)

\* A process that will look at the counter, or wake somebody, before it sleeps.
Active(q) ==
    \/ smpc[q] \in {"load", "cas", "unlisten", "notify"}
    \/ smpc[q] = "blocked" /\ q \notin Listeners(event)

\* With all the permits back and somebody in the queue, a notification is under way.
WakePending ==
    Range(event.waiting) # {} /\ count = Permits =>
        event.notified # {} \/ \E q \in Waiters : Active(q)

WakeInv == SemInv /\ Placed /\ WakePending

LEMMA InitWakeInv == ASSUME IsFiniteSet(Waiters), Permits \in Nat, Init PROVE WakeInv
  <1>1. SemInv
    BY InitSemInv
  <1>2. Listeners(event) = {}
    BY NewEventOK DEF Init
  <1>3. QED
    BY <1>1, <1>2 DEF WakeInv, Placed, WakePending, Listeners, Init

\* The steps that leave the event alone.
LEMMA CounterStep ==
    ASSUME IsFiniteSet(Waiters), Permits \in Nat \ {0}, WakeInv, NEW p \in Waiters,
           Load(p) \/ Acquire(p) \/ Poll(p) \/ Release(p)
    PROVE  Placed' /\ WakePending'
  <1> USE DEF Ready
  <1>1. /\ TypeOK /\ count <= Permits
        /\ (\E q \in Waiters : Holding(q)) => count < Permits
    <2>1. SemInv /\ TypeOK
      BY DEF WakeInv, SemInv
    <2>2. QED
      BY <2>1, HoldersCount DEF TypeOK
  <1>2. event' = event /\ \A q \in Waiters \ {p} : smpc'[q] = smpc[q]
    BY <1>1 DEF Load, Acquire, Poll, Release, Goto, TypeOK
  <1>3. Listeners(event) \subseteq Waiters
    BY <1>1 DEF TypeOK, EventOK, Listeners, Range
  <1>4. Placed'
    BY <1>1, <1>2, <1>3 DEF WakeInv, Placed, Load, Acquire, Poll, Release, Goto, TypeOK
  <1>5. ASSUME Range(event.waiting) # {}, count' = Permits, event.notified = {}
        PROVE  \E q \in Waiters : Active(q)'
    <2>1. CASE smpc'[p] \in {"load", "cas", "unlisten", "notify"}
      BY <2>1 DEF Active
    <2>2. CASE smpc'[p] \notin {"load", "cas", "unlisten", "notify"}
      <3>1. Acquire(p) \/ Load(p)
        BY <1>1, <2>2 DEF Poll, Release, Goto, TypeOK
      <3>2. CASE Acquire(p)
        BY <1>1, <1>5, <2>2, <3>2 DEF Acquire, Goto, TypeOK
      <3>3. CASE Load(p)
        BY <1>1, <1>5, <2>2, <3>3 DEF Load, Goto, TypeOK
      <3>4. QED
        BY <3>1, <3>2, <3>3
    <2>3. QED
      BY <2>1, <2>2
  <1>6. WakePending'
    BY <1>2, <1>5 DEF WakePending
  <1>7. QED
    BY <1>4, <1>6

\* The steps on the event.
LEMMA EventStep ==
    ASSUME IsFiniteSet(Waiters), Permits \in Nat \ {0}, WakeInv, NEW p \in Waiters,
           Block(p) \/ Unlisten(p) \/ Done(p) \/ Cancel(p) \/ ReleaseNotify(p)
    PROVE  Placed' /\ WakePending'
  <1> USE DEF Ready
  <1>1. /\ TypeOK /\ EventOK(event, Waiters) /\ count <= Permits
        /\ (\E q \in Waiters : Holding(q)) => count < Permits
    <2>1. SemInv /\ TypeOK
      BY DEF WakeInv, SemInv
    <2>2. QED
      BY <2>1, HoldersCount DEF TypeOK
  <1>2. /\ count' = count /\ \A q \in Waiters \ {p} : smpc'[q] = smpc[q]
        /\ p \in DOMAIN smpc
    BY <1>1 DEF Block, Unlisten, Done, Cancel, ReleaseNotify, Goto, TypeOK
  <1>3. Listeners(event) \subseteq Waiters
    BY <1>1 DEF TypeOK, EventOK, Listeners, Range
  <1>4. CASE Block(p) /\ smpc'[p] # "wait"
    <2>1. smpc'[p] \in {"load", "unlisten"}
      BY <1>1, <1>4 DEF Block, Goto, TypeOK
    <2>2. Listeners(event') \ {p} = Listeners(event) \ {p}
      <3>1. CASE p \notin Listeners(event) /\ event' = Listen(event, p)
        BY <1>1, <3>1, ListenAdds DEF Listeners
      <3>2. CASE event' = Consume(event, p)
        BY <1>1, <3>2, ConsumeForgets DEF Listeners
      <3>3. QED
        BY <1>2, <1>4, <3>1, <3>2 DEF Block, Goto
    <2>3. QED
      BY <1>2, <1>3, <2>1, <2>2 DEF WakeInv, Placed, WakePending, Active
  <1>5. CASE Block(p) /\ smpc'[p] = "wait"
    <2>1. event' = event /\ p \in Listeners(event)
      BY <1>1, <1>5 DEF Block, Goto, TypeOK, Listeners
    <2>2. ~Active(p)
      BY <1>5, <2>1 DEF Active, Block
    <2>3. QED
      BY <1>2, <1>3, <1>5, <2>1, <2>2 DEF WakeInv, Placed, WakePending, Active
  <1>6. CASE Unlisten(p) \/ Done(p) \/ Cancel(p)
    <2>1. /\ Listeners(event') = Listeners(event) \ {p}
          /\ Range(event'.waiting) \in SUBSET Range(event.waiting)
          /\ event.notified # {} => event'.notified # {} \/ Range(event'.waiting) = {}
      <3>1. CASE event' = DropListener(event, p)
        BY <1>1, <3>1, DropPassesOn
      <3>2. CASE event' = event /\ p \notin Listeners(event)
        BY <3>2
      <3>3. QED
        BY <1>6, <3>1, <3>2 DEF Unlisten, Done, Cancel, DropFuture
    <2>2. smpc'[p] # "wait"
      BY <1>2, <1>6 DEF Unlisten, Done, Cancel, Goto
    <2>3. Placed'
      BY <1>2, <1>3, <2>1, <2>2 DEF WakeInv, Placed
    <2>4. CASE Unlisten(p)
      <3>1. Active(p)'
        BY <1>2, <2>4 DEF Unlisten, Goto, Active
      <3>2. QED
        BY <2>3, <3>1 DEF WakePending
    <2>5. CASE Done(p)
      <3>1. count < Permits
        BY <1>1, <2>5 DEF Done, Holding
      <3>2. QED
        BY <1>1, <1>2, <2>3, <3>1 DEF WakePending, TypeOK
    <2>6. CASE Cancel(p)
      <3>1. ~Active(p)
        BY <2>6 DEF Cancel, Active
      <3>2. ASSUME NEW q \in Waiters, Active(q) PROVE Active(q)'
        BY <1>2, <2>1, <3>1, <3>2 DEF Active
      <3>3. QED
        BY <1>2, <2>1, <2>3, <3>2 DEF WakeInv, WakePending
    <2>7. QED
      BY <1>6, <2>4, <2>5, <2>6
  <1>7. CASE ReleaseNotify(p)
    <2>1. /\ Listeners(event') = Listeners(event)
          /\ event'.notified # {} \/ Range(event'.waiting) = {}
      BY <1>1, <1>7, NotifyWakes DEF ReleaseNotify, Listeners
    <2>2. smpc[p] = "notify" /\ smpc'[p] = "idle"
      BY <1>2, <1>7 DEF ReleaseNotify, Goto
    <2>3. QED
      BY <1>2, <1>3, <2>1, <2>2 DEF WakeInv, Placed, WakePending
  <1>8. QED
    BY <1>4, <1>5, <1>6, <1>7

\* Nobody sleeps in a semaphore that nobody uses (NobodyStranded), also where the futures
\* of the others are dropped while they hold a notification.
THEOREM SemaphoreStrandsNobody ==
    ASSUME IsFiniteSet(Waiters), Permits \in Nat \ {0} PROVE Spec => []NobodyStranded
  <1>1. Init => WakeInv
    BY InitWakeInv
  <1>2. WakeInv /\ [Next]_smvars => WakeInv'
    <2> SUFFICES ASSUME WakeInv, [Next]_smvars PROVE WakeInv'
      OBVIOUS
    <2>1. SemInv'
      BY NextSemInv DEF WakeInv
    <2>2. CASE UNCHANGED smvars
      BY <2>1, <2>2 DEF WakeInv, smvars, Placed, WakePending, Active, Ready
    <2>3. CASE Next
      BY <2>1, <2>3, CounterStep, EventStep DEF Next, Run, WakeInv
    <2>4. QED
      BY <2>2, <2>3
  <1>3. WakeInv => NobodyStranded
    <2> SUFFICES ASSUME WakeInv, \A p \in Waiters : smpc[p] \in {"idle", "hold"} \/ Parked(p),
                        NEW p \in Waiters, Parked(p)
                 PROVE  count < Permits
      BY DEF NobodyStranded
    <2>1. SemInv /\ EventOK(event, Waiters) /\ count \in Nat
      BY DEF WakeInv, SemInv, TypeOK
    <2>2. count <= Permits
      BY <2>1, HoldersCount
    <2>3. p \in Range(event.waiting)
      BY DEF WakeInv, Placed, Parked, IsNotified, Listeners
    <2>4. \A q \in Waiters : ~Active(q)
      BY DEF Active, Parked
    <2>5. event.notified = {}
      BY <2>1 DEF WakeInv, Placed, Ready, Parked, IsNotified, Listeners, EventOK
    <2>6. QED
      BY <2>1, <2>2, <2>3, <2>4, <2>5 DEF WakeInv, WakePending
  <1>4. QED
    BY <1>1, <1>2, <1>3, PTL DEF Spec
=============================================================================
