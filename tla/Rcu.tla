--------------------------------- MODULE Rcu ---------------------------------
(***************************************************************************)
(* RcuSlot (mizu/lib/ksync/src/rcu.rs): an atomic pointer whose old values *)
(* are destroyed once nobody can read them any more.  The collector of     *)
(* crossbeam-epoch is external: what is deferred is destroyed when every   *)
(* guard that was alive at that moment is gone.                            *)
(***************************************************************************)
EXTENDS Naturals, FiniteSets, FiniteSetTheorems, TLAPS

CONSTANTS Threads,
          Objects,   \* bound: the values that are ever made
          Null

VARIABLES slot,      \* RcuSlot::inner
          pinned,    \* the threads that hold a guard
          current,   \* what update() or read() has loaded
          temp,      \* the object in update()'s box
          rupc,
          made,      \* objects constructed so far
          garbage,   \* deferred objects, each with the guards that hold it back
          destroyed  \* objects whose destructor has run, with how often

ruvars == <<slot, pinned, current, temp, rupc, made, garbage, destroyed>>

Init ==
    /\ slot = Null /\ pinned = {}
    /\ current = [t \in Threads |-> Null]
    /\ temp = [t \in Threads |-> Null]
    /\ rupc = [t \in Threads |-> "idle"]
    /\ made = {} /\ garbage = {}
    /\ destroyed = [o \in Objects |-> 0]

Goto(t, l) == rupc' = [rupc EXCEPT ![t] = l]

\* pin() and the end of the guard.
Pin(t) ==
    /\ t \notin pinned /\ pinned' = pinned \cup {t}
    /\ UNCHANGED <<slot, current, temp, rupc, made, garbage, destroyed>>

Unpin(t) ==
    /\ t \in pinned /\ rupc[t] = "idle" /\ pinned' = pinned \ {t}
    /\ current' = [current EXCEPT ![t] = Null]
    /\ garbage' = {[g EXCEPT !.guards = @ \ {t}] : g \in garbage}
    /\ UNCHANGED <<slot, temp, rupc, made, destroyed>>

\* The collector destroys what no guard holds back.
Collect ==
    \E g \in garbage :
        /\ g.guards = {}
        /\ garbage' = garbage \ {g}
        /\ destroyed' = [destroyed EXCEPT ![g.object] = @ + 1]
        /\ UNCHANGED <<slot, pinned, current, temp, rupc, made>>

\* RcuDropGuard::drop of what came out of the slot.
Defer(o) ==
    garbage' = IF o = Null THEN garbage ELSE garbage \cup {[object |-> o, guards |-> pinned]}

Read(t) ==
    /\ t \in pinned /\ rupc[t] = "idle"
    /\ current' = [current EXCEPT ![t] = slot]
    /\ UNCHANGED <<slot, pinned, temp, rupc, made, garbage, destroyed>>

ReplaceEager(t) ==    \* mutant: the old value is destroyed at once
    /\ t \in pinned /\ rupc[t] = "idle"
    /\ \E o \in Objects \ made : slot' = o /\ made' = made \cup {o}
    /\ destroyed' = IF slot = Null THEN destroyed ELSE [destroyed EXCEPT ![slot] = @ + 1]
    /\ UNCHANGED <<pinned, current, temp, rupc, garbage>>

\* replace(), write()
Replace(t) ==
    /\ t \in pinned /\ rupc[t] = "idle"
    /\ \E o \in Objects \ made : slot' = o /\ made' = made \cup {o}
    /\ Defer(slot)
    /\ UNCHANGED <<pinned, current, temp, rupc, destroyed>>

\* take(), and the drop() of the slot, which pins a guard of its own.
Take(t) ==
    /\ t \in pinned /\ rupc[t] = "idle"
    /\ slot' = Null /\ Defer(slot)
    /\ UNCHANGED <<pinned, current, temp, rupc, made, destroyed>>

\* update(): load; the closure makes the new value, out of the one in the box if
\* there is one; it may also give up and drop that one.
UpdateLoad(t) ==
    /\ t \in pinned /\ rupc[t] = "idle"
    /\ current' = [current EXCEPT ![t] = slot]
    /\ Goto(t, "closure")
    /\ UNCHANGED <<slot, pinned, temp, made, garbage, destroyed>>

UpdateClosure(t) ==
    /\ rupc[t] = "closure"
    /\ \/ /\ temp[t] = Null /\ Goto(t, "cas")
          /\ \E o \in Objects \ made : temp' = [temp EXCEPT ![t] = o] /\ made' = made \cup {o}
          /\ UNCHANGED destroyed
       \/ temp[t] # Null /\ Goto(t, "cas") /\ UNCHANGED <<temp, made, destroyed>>
       \/ /\ Goto(t, "idle") /\ UNCHANGED made
          /\ temp' = [temp EXCEPT ![t] = Null]
          /\ destroyed' = IF temp[t] = Null THEN destroyed
                          ELSE [destroyed EXCEPT ![temp[t]] = @ + 1]
    /\ UNCHANGED <<slot, pinned, current, garbage>>

UpdateCasAny(t) ==    \* mutant: the exchange does not compare
    /\ rupc[t] = "cas"
    /\ slot' = temp[t] /\ temp' = [temp EXCEPT ![t] = Null]
    /\ Defer(current[t]) /\ Goto(t, "idle")
    /\ UNCHANGED <<pinned, current, made, destroyed>>

\* compare_exchange_weak: success gives the box to the slot, failure (also for no
\* reason) keeps it for the next round.
UpdateCas(t) ==
    /\ rupc[t] = "cas"
    /\ \/ /\ slot = current[t] /\ slot' = temp[t]
          /\ temp' = [temp EXCEPT ![t] = Null]
          /\ Defer(current[t]) /\ Goto(t, "idle")
          /\ UNCHANGED current
       \/ /\ current' = [current EXCEPT ![t] = slot] /\ Goto(t, "closure")
          /\ UNCHANGED <<slot, temp, garbage>>
    /\ UNCHANGED <<pinned, made, destroyed>>

Next ==
    \/ Collect
    \/ \E t \in Threads : Pin(t) \/ Unpin(t) \/ Read(t) \/ Replace(t) \/ Take(t)
                          \/ UpdateLoad(t) \/ UpdateClosure(t) \/ UpdateCas(t)

Spec == Init /\ [][Next]_ruvars
-----------------------------------------------------------------------------
\* A thread under a guard never holds a reference to a destroyed value, however
\* replace(), take(), update() and the collector interleave.
NoUseAfterFree == \A t \in pinned : current[t] # Null => destroyed[current[t]] = 0

\* Every value has one owner until it is destroyed once: the slot, the box of one
\* update() or the collector.
OneOwner ==
    \A o \in made :
        destroyed[o] + Cardinality({t \in Threads : temp[t] = o})
        + Cardinality({g \in garbage : g.object = o}) + (IF slot = o THEN 1 ELSE 0) = 1
-----------------------------------------------------------------------------
(* PROOFS, for any set of threads and of objects. *)

TypeOK ==
    /\ slot \in made \cup {Null} /\ made \in SUBSET Objects
    /\ pinned \in SUBSET Threads
    /\ current \in [Threads -> Objects \cup {Null}]
    /\ temp \in [Threads -> made \cup {Null}]
    /\ rupc \in [Threads -> {"idle", "closure", "cas"}]
    /\ garbage \in SUBSET [object : made, guards : SUBSET Threads]
    /\ destroyed \in [Objects -> Nat]

InBox(o) == \E t \in Threads : temp[t] = o
InBin(o) == \E g \in garbage : g.object = o

\* An object is with one of its owners, and only there.
Owned ==
    /\ \A t, u \in Threads : temp[t] = temp[u] /\ temp[t] # Null => t = u
    /\ \A g, h \in garbage : g.object = h.object => g = h
    /\ \A o \in Objects :
          /\ o \notin made => destroyed[o] = 0
          /\ o \in made =>
                \/ slot = o /\ ~InBox(o) /\ ~InBin(o) /\ destroyed[o] = 0
                \/ slot # o /\ InBox(o) /\ ~InBin(o) /\ destroyed[o] = 0
                \/ slot # o /\ ~InBox(o) /\ InBin(o) /\ destroyed[o] = 0
                \/ slot # o /\ ~InBox(o) /\ ~InBin(o) /\ destroyed[o] = 1

\* What a thread under a guard has loaded is still in the slot, or its guard holds the
\* collector back.
Guarded ==
    \A t \in Threads :
        /\ t \notin pinned => current[t] = Null /\ rupc[t] = "idle"
        /\ current[t] # Null =>
              \/ current[t] = slot
              \/ \E g \in garbage : g.object = current[t] /\ t \in g.guards

RcuInv == TypeOK /\ Owned /\ Guarded

\* Nothing is made before the first step.
LEMMA InitRcuInv == ASSUME Null \notin Objects, Init PROVE RcuInv
  BY DEF Init, RcuInv, TypeOK, Owned, Guarded, InBox, InBin


\* What the drop of an RcuDropGuard leaves: the object is in the collector, once, and held
\* back by every guard there is.
LEMMA Deferred ==
    ASSUME Null \notin Objects, RcuInv, NEW o \in made \cup {Null}, ~InBin(o), Defer(o)
    PROVE  /\ garbage \in SUBSET garbage'
           /\ garbage' \in SUBSET [object : made, guards : SUBSET Threads]
           /\ \A g, h \in garbage' : g.object = h.object => g = h
           /\ \A x \in Objects : InBin(x)' <=> InBin(x) \/ x = o
           /\ o # Null => \E g \in garbage' : g.object = o /\ g.guards = pinned
  <1>1. CASE o = Null
    BY <1>1 DEF RcuInv, TypeOK, Owned, InBin, Defer
  <1>2. CASE o # Null
    <2> DEFINE new == [object |-> o, guards |-> pinned]
    <2>1. garbage' = garbage \cup {new}
      BY <1>2 DEF Defer
    <2>2. new \in [object : made, guards : SUBSET Threads] /\ new.object = o /\ new.guards = pinned
      BY <1>2 DEF RcuInv, TypeOK
    <2> HIDE DEF new
    <2>3. QED
      BY <2>1, <2>2 DEF RcuInv, TypeOK, Owned, InBin
  <1>3. QED
    BY <1>1, <1>2

\* Every step keeps the invariant.
LEMMA NextRcuInv == ASSUME Null \notin Objects, RcuInv, [Next]_ruvars PROVE RcuInv'
  <1> USE DEF RcuInv
  <1>0. CASE UNCHANGED ruvars
    BY <1>0 DEF ruvars, TypeOK, Owned, Guarded, InBox, InBin
  <1>1. CASE Collect
    <2> USE <1>1 DEF Collect
    <2>1. TypeOK' BY DEF TypeOK
    <2>2. Owned' BY DEF TypeOK, Owned, InBox, InBin
    <2>3. Guarded' BY DEF TypeOK, Owned, Guarded
    <2>4. QED BY <2>1, <2>2, <2>3
  <1>2. ASSUME NEW t \in Threads, Pin(t) PROVE RcuInv'
    <2> USE <1>2 DEF Pin
    <2>1. TypeOK' BY DEF TypeOK
    <2>2. Owned' BY DEF TypeOK, Owned, InBox, InBin
    <2>3. Guarded' BY DEF TypeOK, Owned, Guarded
    <2>4. QED BY <2>1, <2>2, <2>3
  <1>3. ASSUME NEW t \in Threads, Unpin(t) PROVE RcuInv'
    <2> DEFINE Cut(g) == [g EXCEPT !.guards = @ \ {t}]
    <2>1. TypeOK' BY <1>3 DEF Unpin, TypeOK
    <2>2. garbage' = {Cut(g) : g \in garbage} BY <1>3 DEF Unpin
    <2>3. \A g \in garbage : Cut(g).object = g.object /\ Cut(g).guards = g.guards \ {t}
      BY DEF TypeOK
    <2> HIDE DEF Cut
    <2>4. \A o : InBin(o)' <=> InBin(o)
      BY <2>2, <2>3 DEF InBin
    <2>5. Owned' BY <1>3, <2>2, <2>3, <2>4 DEF Unpin, TypeOK, Owned, InBox
    <2>6. Guarded' BY <1>3, <2>2, <2>3 DEF Unpin, TypeOK, Owned, Guarded
    <2>7. QED BY <2>1, <2>5, <2>6
  <1>4. ASSUME NEW t \in Threads, Read(t) PROVE RcuInv'
    <2> USE <1>4 DEF Read
    <2>1. TypeOK' BY DEF TypeOK
    <2>2. Owned' BY DEF TypeOK, Owned, InBox, InBin
    <2>3. Guarded' BY DEF TypeOK, Owned, Guarded
    <2>4. QED BY <2>1, <2>2, <2>3
  <1>5. ASSUME NEW t \in Threads, Replace(t) PROVE RcuInv'
    <2>0. ~InBin(slot) BY DEF TypeOK, Owned, InBin
    <2>1. PICK o \in Objects \ made : slot' = o /\ made' = made \cup {o} BY <1>5 DEF Replace
    <2> USE <1>5, <2>0, <2>1, Deferred DEF Replace
    <2>2. TypeOK' BY DEF TypeOK
    <2>3. Owned'
      <3>1. ~InBin(o) /\ ~InBox(o) BY DEF TypeOK, InBin, InBox
      <3>2. \A x : InBox(x)' <=> InBox(x) BY DEF InBox
      <3>3. QED BY <3>1, <3>2 DEF TypeOK, Owned
    <2>4. Guarded' BY DEF TypeOK, Guarded
    <2>5. QED BY <2>2, <2>3, <2>4
  <1>6. ASSUME NEW t \in Threads, Take(t) PROVE RcuInv'
    <2> USE <1>6 DEF Take
    <2>0. ~InBin(slot) BY DEF TypeOK, Owned, InBin
    <2>1. TypeOK' BY <2>0, Deferred DEF TypeOK
    <2>2. Owned' BY <2>0, Deferred DEF TypeOK, Owned, InBox
    <2>3. Guarded' BY <2>0, Deferred DEF TypeOK, Guarded
    <2>4. QED BY <2>1, <2>2, <2>3
  <1>7. ASSUME NEW t \in Threads, UpdateLoad(t) PROVE RcuInv'
    <2> USE <1>7 DEF UpdateLoad, Goto
    <2>1. TypeOK' BY DEF TypeOK
    <2>2. Owned' BY DEF TypeOK, Owned, InBox, InBin
    <2>3. Guarded' BY DEF TypeOK, Owned, Guarded
    <2>4. QED BY <2>1, <2>2, <2>3
  <1>8. ASSUME NEW t \in Threads, UpdateClosure(t) PROVE RcuInv'
    <2> USE <1>8 DEF UpdateClosure, Goto
    <2>1. TypeOK' BY DEF TypeOK
    <2>2. Owned' BY DEF TypeOK, Owned, InBox, InBin
    <2>3. Guarded' BY DEF TypeOK, Owned, Guarded
    <2>4. QED BY <2>1, <2>2, <2>3
  <1>9. ASSUME NEW t \in Threads, UpdateCas(t) PROVE RcuInv'
    <2> USE DEF Goto
    <2>0. ~InBin(slot) BY DEF TypeOK, Owned, InBin
    <2>1. CASE /\ slot = current[t] /\ slot' = temp[t] /\ temp' = [temp EXCEPT ![t] = Null]
               /\ Defer(slot) /\ Goto(t, "idle")
               /\ UNCHANGED <<current, pinned, made, destroyed>>
      <3>1. TypeOK' BY <2>0, <2>1, Deferred DEF TypeOK
      <3>2. Owned' BY <2>0, <2>1, Deferred DEF TypeOK, Owned, InBox
      <3>3. Guarded' BY <1>9, <2>0, <2>1, Deferred DEF TypeOK, Guarded, UpdateCas
      <3>4. QED BY <3>1, <3>2, <3>3
    <2>2. CASE /\ current' = [current EXCEPT ![t] = slot] /\ Goto(t, "closure")
               /\ UNCHANGED <<slot, temp, garbage, pinned, made, destroyed>>
      <3>1. TypeOK' BY <2>2 DEF TypeOK
      <3>2. Owned' BY <2>2 DEF TypeOK, Owned, InBox, InBin
      <3>3. Guarded' BY <1>9, <2>2 DEF TypeOK, Guarded, UpdateCas
      <3>4. QED BY <3>1, <3>2, <3>3
    <2>3. QED BY <1>9, <2>1, <2>2 DEF UpdateCas
  <1>10. QED
    BY <1>0, <1>1, <1>2, <1>3, <1>4, <1>5, <1>6, <1>7, <1>8, <1>9 DEF Next

\* For any threads and values: what a thread reads under a guard is never destroyed while
\* the guard lives, whatever is replaced, taken, updated and collected meanwhile.
THEOREM RcuNoUseAfterFree == ASSUME Null \notin Objects PROVE Spec => []NoUseAfterFree
  <1>1. Init => RcuInv
    BY InitRcuInv
  <1>2. RcuInv /\ [Next]_ruvars => RcuInv'
    BY NextRcuInv
  <1>3. RcuInv => NoUseAfterFree
    BY DEF RcuInv, TypeOK, Owned, Guarded, InBin, NoUseAfterFree
  <1>4. QED
    BY <1>1, <1>2, <1>3, PTL DEF Spec

\* For any threads and values: a value that was made has one owner, or was destroyed once.
THEOREM RcuOneOwner == ASSUME Null \notin Objects PROVE Spec => []OneOwner
  <1>1. Init => RcuInv
    BY InitRcuInv
  <1>2. RcuInv /\ [Next]_ruvars => RcuInv'
    BY NextRcuInv
  <1>3. RcuInv => OneOwner
    <2> SUFFICES ASSUME RcuInv, NEW o \in made
                 PROVE  destroyed[o] + Cardinality({t \in Threads : temp[t] = o})
                        + Cardinality({g \in garbage : g.object = o})
                        + (IF slot = o THEN 1 ELSE 0) = 1
      BY DEF OneOwner
    <2> DEFINE Boxes == {t \in Threads : temp[t] = o}
               Bins == {g \in garbage : g.object = o}
    <2>1. o \in Objects /\ o # Null
      BY DEF RcuInv, TypeOK
    <2>2. /\ ~InBox(o) => Boxes = {}
          /\ \A t \in Threads : temp[t] = o => Boxes = {t}
      BY <2>1 DEF RcuInv, Owned, InBox
    <2>3. /\ ~InBin(o) => Bins = {}
          /\ \A g \in garbage : g.object = o => Bins = {g}
      BY <2>1 DEF RcuInv, Owned, InBin
    <2> HIDE DEF Boxes, Bins
    <2>4. Cardinality(Boxes) = (IF InBox(o) THEN 1 ELSE 0)
      BY <2>2, FS_EmptySet, FS_Singleton DEF InBox
    <2>5. Cardinality(Bins) = (IF InBin(o) THEN 1 ELSE 0)
      BY <2>3, FS_EmptySet, FS_Singleton DEF InBin
    <2>6. destroyed[o] + Cardinality(Boxes) + Cardinality(Bins) + (IF slot = o THEN 1 ELSE 0) = 1
      BY <2>1, <2>4, <2>5 DEF RcuInv, TypeOK, Owned
    <2>7. QED
      BY <2>6 DEF Boxes, Bins
  <1>4. QED
    BY <1>1, <1>2, <1>3, PTL DEF Spec
=============================================================================
