------------------------------- MODULE Event -------------------------------
(***************************************************************************)
(* The `Event` of the event-listener crate (version 2.5.3 in Cargo.lock),  *)
(* on which every blocking primitive of ksync is built.  The crate is not  *)
(* part of the repository: these operators say what ksync relies on.       *)
(*                                                                         *)
(* An event is a record: `waiting` holds the listeners nobody notified, in *)
(* the order in which they called listen(); `notified` holds the listeners *)
(* that were notified and whose owner did not poll them yet, `extra` those *)
(* of them whose notification was an additional one.  A listener is named  *)
(* by the process that owns it: no process has two on one event.           *)
(***************************************************************************)
EXTENDS Naturals, Sequences, FiniteSets, Functions, FiniteSetTheorems, TLAPS

NewEvent == [waiting |-> <<>>, notified |-> {}, extra |-> {}]

Listeners(e) == Range(e.waiting) \cup e.notified

\* Event::listen(): a new listener at the end of the queue.
Listen(e, p) == [e EXCEPT !.waiting = Append(@, p)]

\* The next k listeners of the queue receive a notification.
WakeFirst(e, k) ==
    LET m == IF k <= Len(e.waiting) THEN k ELSE Len(e.waiting)
    IN  [waiting  |-> SubSeq(e.waiting, m + 1, Len(e.waiting)),
         notified |-> e.notified \cup Range(SubSeq(e.waiting, 1, m)),
         extra    |-> e.extra]

\* Event::notify(n): make sure that n listeners are notified, counting the ones
\* that have been notified and have not been polled or dropped since.
Notify(e, n) ==
    LET have == Cardinality(e.notified)
    IN  IF have >= n THEN e ELSE WakeFirst(e, n - have)

\* Event::notify_additional(n): notify n more listeners.
NotifyAdditional(e, n) ==
    LET f == WakeFirst(e, n) IN [f EXCEPT !.extra = @ \cup (f.notified \ e.notified)]

\* EventListener::poll() returns Ready and forgets the listener.
IsNotified(e, p) == p \in e.notified
Consume(e, p) == [e EXCEPT !.notified = @ \ {p}, !.extra = @ \ {p}]

\* The queue without the listener of p, which is in it once at most.
Without(s, p) ==
    LET k == CHOOSE i \in DOMAIN s : s[i] = p
    IN  IF p \notin Range(s) THEN s
        ELSE [i \in 1 .. Len(s) - 1 |-> IF i < k THEN s[i] ELSE s[i + 1]]

\* EventListener::drop(): a notification that was not consumed is passed on, as
\* the kind of notification it was.
DropListener(e, p) ==
    IF p \in e.extra THEN NotifyAdditional(Consume(e, p), 1)
    ELSE IF p \in e.notified THEN Notify(Consume(e, p), 1)
    ELSE [e EXCEPT !.waiting = Without(@, p)]
-----------------------------------------------------------------------------
(* What the proofs about the users of events need to know of these operators. *)

\* Every listener is of a process of S, and no process has two.
EventOK(e, S) ==
    /\ e \in [waiting : Seq(S), notified : SUBSET S, extra : SUBSET S] /\ e.extra \subseteq e.notified
    /\ \A i, j \in DOMAIN e.waiting : e.waiting[i] = e.waiting[j] => i = j
    /\ Range(e.waiting) \cap e.notified = {}

\* A fresh event has no listener.
LEMMA NewEventOK == ASSUME NEW S PROVE EventOK(NewEvent, S) /\ Listeners(NewEvent) = {}
  BY DEF EventOK, NewEvent, Range, Listeners

\* listen() adds a listener that nobody has notified.
LEMMA ListenAdds ==
    ASSUME NEW S, NEW e, EventOK(e, S), NEW p \in S, p \notin Listeners(e)
    PROVE  /\ EventOK(Listen(e, p), S)
           /\ Range(Listen(e, p).waiting) = Range(e.waiting) \cup {p}
           /\ Listen(e, p).notified = e.notified /\ Listen(e, p).extra = e.extra
  <1> DEFINE s == e.waiting
             r == Append(s, p)
  <1>1. s \in Seq(S) /\ Len(s) \in Nat /\ DOMAIN s = 1 .. Len(s)
    BY DEF EventOK
  <1>2. /\ r \in Seq(S) /\ Len(r) = Len(s) + 1 /\ DOMAIN r = 1 .. Len(r)
        /\ r[Len(s) + 1] = p /\ \A i \in 1 .. Len(s) : r[i] = s[i]
    BY <1>1
  <1>3. /\ Listen(e, p).waiting = r /\ Listen(e, p).notified = e.notified
        /\ Listen(e, p).extra = e.extra
    BY DEF Listen, EventOK
  <1> HIDE DEF r
  <1>4. Range(r) = Range(s) \cup {p}
    <2>1. \A i \in 1 .. Len(r) : i = Len(s) + 1 \/ i \in 1 .. Len(s)
      BY <1>1, <1>2
    <2>2. Len(s) + 1 \in 1 .. Len(r) /\ \A i \in 1 .. Len(s) : i \in 1 .. Len(r)
      BY <1>1, <1>2
    <2>3. QED
      BY <1>1, <1>2, <2>1, <2>2 DEF Range
  <1>5. \A i, j \in DOMAIN r : r[i] = r[j] => i = j
    BY <1>1, <1>2 DEF EventOK, Listeners, Range
  <1>6. Listen(e, p) \in [waiting : Seq(S), notified : SUBSET S, extra : SUBSET S]
    BY <1>2 DEF Listen, EventOK, r
  <1>7. QED
    BY <1>3, <1>4, <1>5, <1>6 DEF EventOK, Listeners

\* poll() of a notified listener forgets it.
LEMMA ConsumeForgets ==
    ASSUME NEW S, NEW e, EventOK(e, S), NEW p
    PROVE  /\ EventOK(Consume(e, p), S)
           /\ Consume(e, p).waiting = e.waiting
           /\ Consume(e, p).notified = e.notified \ {p}
           /\ Consume(e, p).extra = e.extra \ {p}
  BY DEF EventOK, Consume

\* One more notification goes to one of those who wait, if anybody does.
LEMMA WakeFirstWakes ==
    ASSUME NEW S, NEW e, EventOK(e, S)
    PROVE  /\ EventOK(WakeFirst(e, 1), S) /\ WakeFirst(e, 1).extra = e.extra
           /\ Range(e.waiting) = {} => WakeFirst(e, 1) = e
           /\ Range(e.waiting) # {} =>
                 \E p \in Range(e.waiting) :
                     /\ Range(WakeFirst(e, 1).waiting) = Range(e.waiting) \ {p}
                     /\ WakeFirst(e, 1).notified = e.notified \cup {p}
  <1>1. CASE e.waiting = <<>>
    <2>1. WakeFirst(e, 1) = e
      BY <1>1 DEF WakeFirst, EventOK, Range
    <2>2. QED
      BY <1>1, <2>1 DEF EventOK, Range
  <1>2. CASE e.waiting # <<>>
    <2> DEFINE s == e.waiting
               r == SubSeq(s, 2, Len(s))
    <2>1. s \in Seq(S) /\ Len(s) \in Nat /\ Len(s) >= 1 /\ s[1] \in S
      BY <1>2 DEF EventOK
    <2>2. /\ r \in Seq(S) /\ Len(r) = Len(s) - 1
          /\ \A i \in 1 .. Len(r) : r[i] = s[i + 1]
      BY <2>1
    <2>3. Range(SubSeq(s, 1, 1)) = {s[1]}
      <3>1. Len(SubSeq(s, 1, 1)) = 1 /\ SubSeq(s, 1, 1)[1] = s[1] /\ SubSeq(s, 1, 1) \in Seq(S)
        BY <2>1
      <3>2. DOMAIN SubSeq(s, 1, 1) = {1}
        BY <3>1
      <3>3. QED
        BY <3>1, <3>2 DEF Range
    <2>4. WakeFirst(e, 1) = [waiting |-> r, notified |-> e.notified \cup {s[1]}, extra |-> e.extra]
      <3>1. WakeFirst(e, 1) = [waiting |-> SubSeq(s, 1 + 1, Len(s)),
                               notified |-> e.notified \cup Range(SubSeq(s, 1, 1)),
                               extra |-> e.extra]
        BY <2>1 DEF WakeFirst
      <3>2. QED
        BY <2>3, <3>1
    <2> HIDE DEF r
    <2>5. Range(r) = Range(s) \ {s[1]}
      <3>1. \A i \in 1 .. Len(s) : i = 1 \/ (i - 1 \in 1 .. Len(r) /\ r[i - 1] = s[i])
        BY <2>1, <2>2
      <3>2. \A i \in 1 .. Len(r) : i + 1 \in 1 .. Len(s) /\ r[i] = s[i + 1] /\ s[i + 1] # s[1]
        BY <2>1, <2>2 DEF EventOK
      <3>3. Range(s) = {s[i] : i \in 1 .. Len(s)} /\ Range(r) = {r[i] : i \in 1 .. Len(r)}
        BY <2>1, <2>2 DEF Range
      <3>4. ASSUME NEW x \in Range(r) PROVE x \in Range(s) /\ x # s[1]
        BY <3>2, <3>3, <3>4
      <3>5. ASSUME NEW x \in Range(s), x # s[1] PROVE x \in Range(r)
        BY <3>1, <3>3, <3>5
      <3>6. QED
        BY <3>4, <3>5
    <2>6. \A i, j \in DOMAIN r : r[i] = r[j] => i = j
      BY <2>1, <2>2 DEF EventOK
    <2>7. s[1] \in Range(s)
      BY <2>1 DEF Range
    <2>8. QED
      BY <2>1, <2>2, <2>4, <2>5, <2>6, <2>7 DEF EventOK
  <1>3. QED
    BY <1>1, <1>2

\* notify_additional(1) wakes one more of those who wait, if anybody does.
LEMMA AdditionalWakes ==
    ASSUME NEW S, NEW e, EventOK(e, S)
    PROVE  LET d == NotifyAdditional(e, 1)
           IN  /\ EventOK(d, S)
               /\ Range(e.waiting) = {} => d = e
               /\ Range(e.waiting) # {} =>
                     \E p \in Range(e.waiting) : /\ Range(d.waiting) = Range(e.waiting) \ {p}
                                                 /\ d.notified = e.notified \cup {p}
                                                 /\ d.extra = e.extra \cup {p}
  <1> DEFINE f == WakeFirst(e, 1)
             d == NotifyAdditional(e, 1)
  <1>1. /\ EventOK(f, S) /\ f.extra = e.extra
        /\ Range(e.waiting) = {} => f = e
        /\ Range(e.waiting) # {} => \E p \in Range(e.waiting) :
                                        /\ Range(f.waiting) = Range(e.waiting) \ {p}
                                        /\ f.notified = e.notified \cup {p}
    BY WakeFirstWakes
  <1>2. d = [f EXCEPT !.extra = @ \cup (f.notified \ e.notified)]
    BY DEF NotifyAdditional
  <1> HIDE DEF f, d
  <1>3. f \in [waiting : Seq(S), notified : SUBSET S, extra : SUBSET S]
    BY <1>1 DEF EventOK
  <1>4. /\ d \in [waiting : Seq(S), notified : SUBSET S, extra : SUBSET S]
        /\ d.waiting = f.waiting /\ d.notified = f.notified
        /\ d.extra = e.extra \cup (f.notified \ e.notified)
    BY <1>1, <1>2, <1>3
  <1>5. EventOK(d, S)
    BY <1>1, <1>4 DEF EventOK
  <1>6. CASE Range(e.waiting) = {}
    <2>1. f = e /\ d.extra = e.extra
      BY <1>1, <1>4, <1>6
    <2>2. d = e
      BY <1>1, <1>2, <1>3, <2>1
    <2>3. QED
      BY <1>5, <1>6, <2>2 DEF d
  <1>7. CASE Range(e.waiting) # {}
    <2>1. PICK p \in Range(e.waiting) : /\ Range(f.waiting) = Range(e.waiting) \ {p}
                                         /\ f.notified = e.notified \cup {p}
      BY <1>1, <1>7
    <2>2. p \notin e.notified
      BY DEF EventOK
    <2>3. d.extra = e.extra \cup {p}
      BY <1>4, <2>1, <2>2
    <2>4. QED
      BY <1>4, <1>5, <1>7, <2>1, <2>3 DEF d
  <1>8. QED
    BY <1>6, <1>7

\* notify(1) does nothing if a notification is under way, and otherwise wakes one of those
\* who wait, if anybody does.
LEMMA NotifyWakes ==
    ASSUME NEW S, IsFiniteSet(S), NEW e, EventOK(e, S)
    PROVE  /\ EventOK(Notify(e, 1), S)
           /\ e.notified # {} \/ Range(e.waiting) = {} => Notify(e, 1) = e
           /\ e.notified = {} /\ Range(e.waiting) # {} =>
                 \E p \in Range(e.waiting) :
                     /\ Range(Notify(e, 1).waiting) = Range(e.waiting) \ {p}
                     /\ Notify(e, 1).notified = {p}
  <1>1. IsFiniteSet(e.notified) /\ Cardinality(e.notified) \in Nat
    BY FS_Subset, FS_CardinalityType DEF EventOK
  <1>2. CASE e.notified = {}
    <2>1. Cardinality(e.notified) = 0
      BY <1>2, FS_EmptySet
    <2>2. Notify(e, 1) = WakeFirst(e, 1)
      BY <2>1 DEF Notify
    <2>3. QED
      BY <1>2, <2>2, WakeFirstWakes
  <1>3. CASE e.notified # {}
    <2>1. Cardinality(e.notified) >= 1
      BY <1>1, <1>3, FS_EmptySet
    <2>2. Notify(e, 1) = e
      BY <1>1, <2>1 DEF Notify
    <2>3. QED
      BY <1>3, <2>2
  <1>4. QED
    BY <1>2, <1>3

\* The queue without one listener holds the others, in one place each.
LEMMA WithoutRemoves ==
    ASSUME NEW S, NEW s \in Seq(S), \A i, j \in DOMAIN s : s[i] = s[j] => i = j, NEW p
    PROVE  /\ Without(s, p) \in Seq(S)
           /\ Range(Without(s, p)) = Range(s) \ {p}
           /\ \A i, j \in DOMAIN Without(s, p) : Without(s, p)[i] = Without(s, p)[j] => i = j
  <1>1. CASE p \notin Range(s)
    BY <1>1 DEF Without
  <1>2. CASE p \in Range(s)
    <2> DEFINE k == CHOOSE i \in DOMAIN s : s[i] = p
               r == Without(s, p)
    <2>1. k \in 1 .. Len(s) /\ s[k] = p /\ Len(s) \in Nat /\ DOMAIN s = 1 .. Len(s)
      BY <1>2 DEF Range
    <2> HIDE DEF k
    <2>2. r = [i \in 1 .. Len(s) - 1 |-> IF i < k THEN s[i] ELSE s[i + 1]]
      BY <1>2 DEF Without, k
    <2>3. Len(s) - 1 \in Nat /\ \A i \in 1 .. Len(s) - 1 : i \in 1 .. Len(s) /\ i + 1 \in 1 .. Len(s)
      BY <2>1
    <2>4. \A i \in 1 .. Len(s) - 1 : (IF i < k THEN s[i] ELSE s[i + 1]) \in S
      BY <2>1, <2>3
    <2>5. /\ r \in Seq(S) /\ Len(r) = Len(s) - 1 /\ DOMAIN r = 1 .. Len(r)
          /\ \A i \in 1 .. Len(r) : r[i] = IF i < k THEN s[i] ELSE s[i + 1]
      BY <2>2, <2>3, <2>4
    <2> HIDE DEF r
    <2> DEFINE At(i) == IF i < k THEN i ELSE i + 1
    <2>6. \A i \in 1 .. Len(r) : r[i] = s[At(i)] /\ At(i) \in 1 .. Len(s) /\ At(i) # k
      BY <2>1, <2>3, <2>5
    <2>7. \A i, j \in 1 .. Len(r) : At(i) = At(j) => i = j
      BY <2>1, <2>5
    <2>8. \A i \in 1 .. Len(s) : i # k => \E j \in 1 .. Len(r) : At(j) = i
      <3> SUFFICES ASSUME NEW i \in 1 .. Len(s), i # k PROVE \E j \in 1 .. Len(r) : At(j) = i
        OBVIOUS
      <3>1. CASE i < k
        <4>1. i \in 1 .. Len(r) /\ At(i) = i
          BY <2>1, <2>5, <3>1
        <4>2. QED
          BY <4>1
      <3>2. CASE i > k
        <4>1. i - 1 \in 1 .. Len(r) /\ At(i - 1) = i
          BY <2>1, <2>5, <3>2
        <4>2. QED
          BY <4>1
      <3>3. QED
        BY <2>1, <3>1, <3>2
    <2> HIDE DEF At
    <2>9. ASSUME NEW i \in DOMAIN r, NEW j \in DOMAIN r, r[i] = r[j] PROVE i = j
      <3>1. i \in 1 .. Len(r) /\ j \in 1 .. Len(r)
        BY <2>5
      <3>2. At(i) \in DOMAIN s /\ At(j) \in DOMAIN s /\ s[At(i)] = s[At(j)]
        BY <2>1, <2>6, <2>9, <3>1
      <3>3. At(i) = At(j)
        BY <3>2
      <3>4. QED
        BY <2>7, <3>1, <3>3
    <2>10. Range(r) = Range(s) \ {p}
      <3>1. ASSUME NEW x \in Range(r) PROVE x \in Range(s) /\ x # p
        BY <2>1, <2>5, <2>6, <3>1 DEF Range
      <3>2. ASSUME NEW x \in Range(s), x # p PROVE x \in Range(r)
        <4>1. PICK i \in 1 .. Len(s) : x = s[i]
          BY <2>1, <3>2 DEF Range
        <4>2. PICK j \in 1 .. Len(r) : At(j) = i
          BY <2>1, <2>8, <3>2, <4>1
        <4>3. QED
          BY <2>5, <2>6, <4>1, <4>2 DEF Range
      <3>3. QED
        BY <3>1, <3>2
    <2>11. QED
      BY <2>5, <2>9, <2>10 DEF r
  <1>3. QED
    BY <1>1, <1>2

\* drop() of a listener: the others stay, and a notification is not lost as long as there
\* is somebody to give it to.
LEMMA DropPassesOn ==
    ASSUME NEW S, IsFiniteSet(S), NEW e, EventOK(e, S), NEW p \in S
    PROVE  LET d == DropListener(e, p)
           IN  /\ EventOK(d, S)
               /\ Listeners(d) = Listeners(e) \ {p}
               /\ Range(d.waiting) \in SUBSET Range(e.waiting)
               /\ e.notified \ {p} \in SUBSET d.notified
               /\ e.notified # {} => d.notified # {} \/ Range(d.waiting) = {}
  <1>1. CASE p \in e.notified
    <2> DEFINE c == Consume(e, p)
    <2>1. EventOK(c, S) /\ c.waiting = e.waiting /\ c.notified = e.notified \ {p}
      BY ConsumeForgets
    <2>2. DropListener(e, p) = Notify(c, 1) \/ DropListener(e, p) = NotifyAdditional(c, 1)
      BY <1>1 DEF DropListener
    <2> HIDE DEF c
    <2>3. p \notin Range(e.waiting)
      BY <1>1 DEF EventOK
    <2>4. CASE DropListener(e, p) = Notify(c, 1)
      BY <2>1, <2>3, <2>4, NotifyWakes DEF Listeners
    <2>5. CASE DropListener(e, p) = NotifyAdditional(c, 1)
      BY <2>1, <2>3, <2>5, AdditionalWakes DEF Listeners
    <2>6. QED
      BY <2>2, <2>4, <2>5
  <1>2. CASE p \notin e.notified
    <2>1. DropListener(e, p) = [e EXCEPT !.waiting = Without(@, p)]
      BY <1>2 DEF DropListener, EventOK
    <2>2. /\ DropListener(e, p).waiting = Without(e.waiting, p)
          /\ DropListener(e, p).notified = e.notified /\ DropListener(e, p).extra = e.extra
      BY <2>1 DEF EventOK
    <2>3. /\ Without(e.waiting, p) \in Seq(S)
          /\ Range(Without(e.waiting, p)) = Range(e.waiting) \ {p}
          /\ \A i, j \in DOMAIN Without(e.waiting, p) :
                Without(e.waiting, p)[i] = Without(e.waiting, p)[j] => i = j
      BY WithoutRemoves DEF EventOK
    <2>4. DropListener(e, p) \in [waiting : Seq(S), notified : SUBSET S, extra : SUBSET S]
      BY <2>1, <2>3 DEF EventOK
    <2>5. QED
      BY <1>2, <2>2, <2>3, <2>4 DEF EventOK, Listeners
  <1>3. QED
    BY <1>1, <1>2

\* notify() with a number that is large enough wakes everybody.
LEMMA NotifyWakesAll ==
    ASSUME NEW S, IsFiniteSet(S), NEW e, EventOK(e, S), NEW n \in Nat, Cardinality(S) <= n
    PROVE  /\ EventOK(Notify(e, n), S)
           /\ Range(Notify(e, n).waiting) = {} /\ Notify(e, n).notified = Listeners(e)
  <1> DEFINE s == e.waiting
             l == Len(s)
             h == Cardinality(e.notified)
  <1>1. /\ s \in Seq(S) /\ l \in Nat /\ DOMAIN s = 1 .. l /\ Range(s) \subseteq S
        /\ \A i, j \in 1 .. l : s[i] = s[j] => i = j
    BY DEF EventOK, Range
  <1>2. /\ IsFiniteSet(e.notified) /\ h \in Nat /\ IsFiniteSet(Range(s))
        /\ Cardinality(S) \in Nat
    BY <1>1, FS_Subset, FS_CardinalityType DEF EventOK
  <1>3. Cardinality(Range(s)) = l
    <2>1. s \in [1 .. l -> Range(s)]
      BY <1>1 DEF Range
    <2>2. s \in Bijection(1 .. l, Range(s))
      BY <1>1, <2>1 DEF Bijection, Injection, Surjection, IsInjective, Range
    <2>3. QED
      BY <1>1, <2>2, FS_CountingElements DEF ExistsBijection
  <1>4. h + l <= n
    <2>1. e.notified \cap Range(s) = {} /\ e.notified \cup Range(s) \in SUBSET S
      BY <1>1 DEF EventOK
    <2>2. Cardinality(e.notified \cup Range(s)) = h + l
      <3>1. Cardinality(e.notified \cap Range(s)) = 0
        BY <2>1, FS_EmptySet
      <3>2. Cardinality(e.notified \cup Range(s))
               = h + Cardinality(Range(s)) - Cardinality(e.notified \cap Range(s))
        BY <1>2, FS_Union
      <3>3. QED
        BY <1>1, <1>2, <1>3, <3>1, <3>2
    <2>3. Cardinality(e.notified \cup Range(s)) <= Cardinality(S)
      BY <2>1, FS_Subset
    <2>4. QED
      BY <1>1, <1>2, <2>2, <2>3
  <1>5. CASE h >= n
    <2>1. l = 0
      BY <1>1, <1>2, <1>4, <1>5
    <2>2. Range(s) = {} /\ Notify(e, n) = e
      BY <1>1, <1>5, <2>1 DEF Range, Notify
    <2>3. QED
      BY <2>2 DEF Listeners
  <1>6. CASE ~(h >= n)
    <2>1. n - h \in Nat /\ (n - h <= l => n - h = l)
      BY <1>1, <1>2, <1>4, <1>6
    <2> DEFINE a == SubSeq(s, 1, l)
               b == SubSeq(s, l + 1, l)
    <2>2. Notify(e, n) = [waiting |-> b, notified |-> e.notified \cup Range(a), extra |-> e.extra]
      <3>1. Notify(e, n) = WakeFirst(e, n - h)
        BY <1>6 DEF Notify
      <3>2. QED
        BY <2>1, <3>1 DEF WakeFirst
    <2>3. a = s
      BY <1>1
    <2>4. b = <<>>
      BY <1>1
    <2> HIDE DEF a, b
    <2>5. Range(b) = {}
      BY <2>4 DEF Range
    <2>6. QED
      BY <1>1, <2>2, <2>3, <2>4, <2>5 DEF EventOK, Listeners
  <1>7. QED
    BY <1>5, <1>6

\* drop() of a listener that was notified by notify_additional(): another one is.
LEMMA DropAdditional ==
    ASSUME NEW S, NEW e, EventOK(e, S), NEW p \in e.extra
    PROVE  LET d == DropListener(e, p)
           IN  /\ Range(e.waiting) = {} => /\ Range(d.waiting) = {}
                                           /\ d.notified = e.notified \ {p} /\ d.extra = e.extra \ {p}
               /\ Range(e.waiting) # {} =>
                     \E w \in Range(e.waiting) : /\ Range(d.waiting) = Range(e.waiting) \ {w}
                                                 /\ d.notified = (e.notified \ {p}) \cup {w}
                                                 /\ d.extra = (e.extra \ {p}) \cup {w}
  <1> DEFINE c == Consume(e, p)
  <1>1. /\ EventOK(c, S) /\ c.waiting = e.waiting
        /\ c.notified = e.notified \ {p} /\ c.extra = e.extra \ {p}
    BY ConsumeForgets
  <1>2. DropListener(e, p) = NotifyAdditional(c, 1)
    BY DEF DropListener
  <1> HIDE DEF c
  <1>3. QED
    BY <1>1, <1>2, AdditionalWakes

\* drop() of a listener nobody has notified.
LEMMA DropWaiting ==
    ASSUME NEW S, NEW e, EventOK(e, S), NEW p, p \notin e.notified
    PROVE  LET d == DropListener(e, p)
           IN  Range(d.waiting) = Range(e.waiting) \ {p} /\ d.notified = e.notified /\ d.extra = e.extra
  <1>1. DropListener(e, p) = [e EXCEPT !.waiting = Without(@, p)]
    BY DEF DropListener, EventOK
  <1>2. Range(Without(e.waiting, p)) = Range(e.waiting) \ {p}
    BY WithoutRemoves DEF EventOK
  <1>3. QED
    BY <1>1, <1>2 DEF EventOK
=============================================================================
