-------------------------- MODULE EventQueue_proofs --------------------------
(***************************************************************************)
(* The list of the event queue is consistent, sorted and never late, for   *)
(* any number of events, ticks and priorities; and it implements the pool  *)
(* of EventPool.                                                           *)
(***************************************************************************)
EXTENDS EventQueue, SequenceTheorems, WellFoundedInduction, TLAPS

-----------------------------------------------------------------------------
(* Sequences.                                                              *)

LEMMA LeastNumber ==
    ASSUME NEW T, T \subseteq Nat, T # {}
    PROVE  \E x \in T : \A y \in T : x <= y
<1>1. PICK x \in T : \A y \in T : ~(<<y, x>> \in OpToRel(<, Nat))
  BY WFMin, NatLessThanWellFounded
<1>2. \A y \in T : ~(y < x)
  BY <1>1 DEF OpToRel
<1> QED
  BY <1>2

LEMMA InsertAtProperties ==
    ASSUME NEW S, NEW s \in Seq(S), NEW i \in 1 .. Len(s) + 1, NEW x \in S
    PROVE  /\ InsertAt(s, i, x) \in Seq(S)
           /\ Len(InsertAt(s, i, x)) = Len(s) + 1
           /\ \A k \in 1 .. Len(s) + 1 :
                 InsertAt(s, i, x)[k] =
                    IF k < i THEN s[k] ELSE IF k = i THEN x ELSE s[k - 1]
<1>0. Len(s) \in Nat
  BY LenProperties
<1> DEFINE front == SubSeq(s, 1, i - 1)
           back  == SubSeq(s, i, Len(s))
<1>1. /\ front \in Seq(S) /\ Len(front) = i - 1
      /\ \A k \in 1 .. i - 1 : front[k] = s[k]
  BY SubSeqProperties
<1>2. /\ back \in Seq(S) /\ Len(back) = Len(s) - i + 1
      /\ \A k \in 1 .. Len(s) - i + 1 : back[k] = s[i + k - 1]
  BY SubSeqProperties
<1>3. /\ <<x>> \in Seq(S) /\ Len(<<x>>) = 1 /\ <<x>>[1] = x
  OBVIOUS
<1> DEFINE mid == front \o <<x>>
<1> HIDE DEF front, back
<1>4. /\ mid \in Seq(S) /\ Len(mid) = i
      /\ \A k \in 1 .. i : mid[k] = IF k <= i - 1 THEN front[k] ELSE x
  BY <1>1, <1>3, ConcatProperties
<1> DEFINE all == mid \o back
<1> HIDE DEF mid
<1>5. /\ all \in Seq(S) /\ Len(all) = Len(mid) + Len(back)
      /\ \A k \in 1 .. Len(mid) + Len(back) :
            all[k] = IF k <= Len(mid) THEN mid[k] ELSE back[k - Len(mid)]
  BY <1>2, <1>4, ConcatProperties
<1>6. InsertAt(s, i, x) = all
  BY DEF InsertAt, mid, front, back
<1> HIDE DEF all
<1>8. /\ Len(all) = Len(s) + 1
      /\ \A k \in 1 .. Len(s) + 1 : all[k] = IF k <= i THEN mid[k] ELSE back[k - i]
  BY <1>0, <1>2, <1>4, <1>5
<1>7. ASSUME NEW k \in 1 .. Len(s) + 1
      PROVE  all[k] = IF k < i THEN s[k] ELSE IF k = i THEN x ELSE s[k - 1]
  <2>1. CASE k <= i
    BY <2>1, <1>8, <1>4, <1>1
  <2>2. CASE ~(k <= i)
    <3>1. k - i \in 1 .. Len(s) - i + 1 /\ i + (k - i) - 1 = k - 1
      BY <2>2, <1>0
    <3>2. all[k] = s[k - 1]
      BY <2>2, <3>1, <1>8, <1>2
    <3> QED
      BY <2>2, <3>2
  <2> QED
    BY <2>1, <2>2
<1> QED
  BY <1>5, <1>6, <1>7, <1>8

LEMMA RemoveAtProperties ==
    ASSUME NEW S, NEW s \in Seq(S), NEW i \in 1 .. Len(s)
    PROVE  /\ RemoveAt(s, i) \in Seq(S)
           /\ Len(RemoveAt(s, i)) = Len(s) - 1
           /\ \A k \in 1 .. Len(s) - 1 :
                 RemoveAt(s, i)[k] = IF k < i THEN s[k] ELSE s[k + 1]
<1>0. Len(s) \in Nat
  BY LenProperties
<1> DEFINE front == SubSeq(s, 1, i - 1)
           back  == SubSeq(s, i + 1, Len(s))
<1>1. /\ front \in Seq(S) /\ Len(front) = i - 1
      /\ \A k \in 1 .. i - 1 : front[k] = s[k]
  BY SubSeqProperties
<1>2. /\ back \in Seq(S) /\ Len(back) = Len(s) - i
      /\ \A k \in 1 .. Len(s) - i : back[k] = s[i + k]
  BY SubSeqProperties
<1> HIDE DEF front, back
<1>3. /\ front \o back \in Seq(S) /\ Len(front \o back) = Len(s) - 1
      /\ \A k \in 1 .. Len(s) - 1 :
            (front \o back)[k] = IF k <= i - 1 THEN front[k] ELSE back[k - (i - 1)]
  BY <1>1, <1>2, ConcatProperties
<1>4. RemoveAt(s, i) = front \o back
  BY DEF RemoveAt, front, back
<1>5. ASSUME NEW k \in 1 .. Len(s) - 1
      PROVE  (front \o back)[k] = IF k < i THEN s[k] ELSE s[k + 1]
  BY <1>1, <1>2, <1>3, SMTT(30)
<1> QED
  BY <1>3, <1>4, <1>5
-----------------------------------------------------------------------------
(* The list operations.  Holds(q, pend): q links each event of pend once and *)
(* nothing else.  InOrder(q, w, p): q is sorted by times w and priorities p.  *)

Holds(q, pend) ==
    /\ \A e \in Events : e \in pend <=> \E i \in 1 .. Len(q) : q[i] = e
    /\ \A i, j \in 1 .. Len(q) : q[i] = q[j] => i = j

InOrder(q, w, p) ==
    \A i, j \in 1 .. Len(q) : i < j => NotAfter(w, p, q[i], q[j])

LEMMA InsertPosProperties ==
    ASSUME NEW q \in Seq(Events), NEW w, NEW p, NEW e
    PROVE  /\ InsertPos(q, w, p, e) \in 1 .. Len(q) + 1
           /\ \A j \in 1 .. InsertPos(q, w, p, e) - 1 : ~NotAfter(w, p, e, q[j])
           /\ InsertPos(q, w, p, e) <= Len(q) =>
                 NotAfter(w, p, e, q[InsertPos(q, w, p, e)])
<1> DEFINE Fits(i) == i <= Len(q) => NotAfter(w, p, e, q[i])
           T == {i \in 1 .. Len(q) + 1 : Fits(i)}
<1>0. Len(q) \in Nat
  BY LenProperties
<1> HIDE DEF Fits
<1>1. Len(q) + 1 \in T
  BY <1>0 DEF Fits
<1>2. T \subseteq Nat
  BY <1>0
<1>3. PICK i \in T : \A k \in T : i <= k
  BY <1>1, <1>2, LeastNumber
<1>4. ASSUME NEW j \in 1 .. i - 1
      PROVE  ~Fits(j) /\ j <= Len(q)
  BY <1>0, <1>3
<1>5. \E k \in 1 .. Len(q) + 1 :
          /\ \A j \in 1 .. k - 1 : ~NotAfter(w, p, e, q[j])
          /\ k <= Len(q) => NotAfter(w, p, e, q[k])
  BY <1>3, <1>4 DEF Fits
<1> QED
  BY <1>5 DEF InsertPos

\* r is q with e linked in at pos; both as functions, on 1 .. n + 1 and 1 .. n.
Inserted(r, q, n, pos, e) ==
    \A k \in 1 .. n + 1 :
       r[k] = IF k < pos THEN q[k] ELSE IF k = pos THEN e ELSE q[k - 1]

HoldsUpTo(n, q, pend) ==
    /\ \A f \in pend : \E i \in 1 .. n : q[i] = f
    /\ \A i \in 1 .. n : q[i] \in pend
    /\ \A i, j \in 1 .. n : q[i] = q[j] => i = j

LEMMA InsertedHolds ==
    ASSUME NEW n \in Nat, NEW q, NEW r, NEW pos \in 1 .. n + 1, NEW pend, NEW e, e \notin pend,
           Inserted(r, q, n, pos, e),
           HoldsUpTo(n, q, pend)
    PROVE  HoldsUpTo(n + 1, r, pend \cup {e})
<1> USE DEF Inserted, HoldsUpTo
<1>1. ASSUME NEW f \in pend
      PROVE  \E i \in 1 .. n + 1 : r[i] = f
  <2>1. PICK i \in 1 .. n : q[i] = f
    OBVIOUS
  <2>2. CASE i < pos
    BY <2>1, <2>2
  <2>3. CASE ~(i < pos)
    <3>1. i + 1 \in 1 .. n + 1 /\ r[i + 1] = q[(i + 1) - 1] /\ (i + 1) - 1 = i
      BY <2>3
    <3> QED
      BY <2>1, <3>1
  <2> QED
    BY <2>2, <2>3
<1>2. r[pos] = e
  OBVIOUS
<1>3. \A i \in 1 .. n + 1 : r[i] \in pend \cup {e}
  OBVIOUS
<1>4. ASSUME NEW i \in 1 .. n + 1, NEW j \in 1 .. n + 1, r[i] = r[j]
      PROVE  i = j
  <2>1. \A k \in 1 .. n + 1 : r[k] = e => k = pos
    OBVIOUS
  <2>2. CASE i = pos \/ j = pos
    BY <1>2, <1>4, <2>1, <2>2
  <2>3. CASE i # pos /\ j # pos
    <3> DEFINE a == IF i < pos THEN i ELSE i - 1
               b == IF j < pos THEN j ELSE j - 1
    <3>1. a \in 1 .. n /\ b \in 1 .. n /\ q[a] = r[i] /\ q[b] = r[j]
      BY <2>3
    <3>2. a = b
      BY <1>4, <3>1
    <3> QED
      BY <2>3, <3>2
  <2> QED
    BY <2>2, <2>3
<1> QED
  BY <1>1, <1>2, <1>3, <1>4

LEMMA InsertedInOrder ==
    ASSUME NEW n \in Nat, NEW q, NEW r, NEW pos \in 1 .. n + 1, NEW e \in Events,
           NEW w \in [Events -> Int], NEW p \in [Events -> Int],
           Inserted(r, q, n, pos, e),
           \A i \in 1 .. n : q[i] \in Events,
           \A j \in 1 .. pos - 1 : ~NotAfter(w, p, e, q[j]),
           pos <= n => NotAfter(w, p, e, q[pos]),
           \A i, j \in 1 .. n : i < j => NotAfter(w, p, q[i], q[j])
    PROVE  \A i, j \in 1 .. n + 1 : i < j => NotAfter(w, p, r[i], r[j])
<1> USE DEF Inserted
<1> SUFFICES ASSUME NEW i \in 1 .. n + 1, NEW j \in 1 .. n + 1, i < j
             PROVE  NotAfter(w, p, r[i], r[j])
  OBVIOUS
<1>1. CASE i # pos /\ j # pos
  <2> DEFINE a == IF i < pos THEN i ELSE i - 1
             b == IF j < pos THEN j ELSE j - 1
  <2>1. a \in 1 .. n /\ b \in 1 .. n /\ a < b /\ r[i] = q[a] /\ r[j] = q[b]
    BY <1>1
  <2> QED
    BY <2>1
<1>2. CASE j = pos
  <2>1. /\ r[i] = q[i] /\ r[j] = e /\ ~NotAfter(w, p, e, q[i]) /\ q[i] \in Events
    BY <1>2
  <2> QED
    BY <2>1 DEF NotAfter
<1>3. CASE i = pos
  <2>1. r[i] = e /\ r[j] = q[j - 1] /\ pos <= j - 1 /\ j - 1 \in 1 .. n
    BY <1>3
  <2>2. NotAfter(w, p, e, q[pos]) /\ q[pos] \in Events /\ q[j - 1] \in Events
    BY <2>1
  <2>3. pos = j - 1 \/ NotAfter(w, p, q[pos], q[j - 1])
    BY <2>1
  <2> QED
    BY <2>1, <2>2, <2>3 DEF NotAfter
<1> QED
  BY <1>1, <1>2, <1>3

LEMMA LinkProperties ==
    ASSUME NEW q \in Seq(Events), NEW pend \in SUBSET Events, NEW e \in Events \ pend,
           NEW w \in [Events -> Int], NEW p \in [Events -> Int],
           Holds(q, pend), InOrder(q, w, p)
    PROVE  /\ Link(q, w, p, e) \in Seq(Events)
           /\ Holds(Link(q, w, p, e), pend \cup {e})
           /\ InOrder(Link(q, w, p, e), w, p)
<1> DEFINE n == Len(q)
           pos == InsertPos(q, w, p, e)
           new == Link(q, w, p, e)
<1>0. /\ n \in Nat
      /\ \A i \in 1 .. n : q[i] \in Events
  BY LenProperties, ElementOfSeq
<1>1. /\ pos \in 1 .. n + 1
      /\ \A j \in 1 .. pos - 1 : ~NotAfter(w, p, e, q[j])
      /\ pos <= n => NotAfter(w, p, e, q[pos])
  BY InsertPosProperties
<1>2. new \in Seq(Events) /\ Len(new) = n + 1 /\ Inserted(new, q, n, pos, e)
  <2>1. new = InsertAt(q, pos, e)
    BY DEF Link
  <2> HIDE DEF pos, new
  <2>2. e \in Events /\ pos \in 1 .. Len(q) + 1
    BY <1>1
  <2>3. /\ InsertAt(q, pos, e) \in Seq(Events)
        /\ Len(InsertAt(q, pos, e)) = Len(q) + 1
        /\ Inserted(InsertAt(q, pos, e), q, Len(q), pos, e)
    BY <2>2, InsertAtProperties DEF Inserted
  <2> QED
    BY <2>1, <2>3
<1>3. /\ HoldsUpTo(n, q, pend)
      /\ \A i, j \in 1 .. n : i < j => NotAfter(w, p, q[i], q[j])
  BY <1>0 DEF Holds, HoldsUpTo, InOrder
<1> HIDE DEF n, pos, new
<1>4. HoldsUpTo(n + 1, new, pend \cup {e})
  BY <1>0, <1>1, <1>2, <1>3, InsertedHolds
<1>5. \A i, j \in 1 .. n + 1 : i < j => NotAfter(w, p, new[i], new[j])
  BY <1>0, <1>1, <1>2, <1>3, InsertedInOrder
<1>6. Holds(new, pend \cup {e})
  BY <1>2, <1>4 DEF Holds, HoldsUpTo
<1>7. InOrder(new, w, p)
  BY <1>2, <1>5 DEF InOrder
<1> QED
  BY <1>2, <1>6, <1>7 DEF new

LEMMA UnlinkProperties ==
    ASSUME NEW q \in Seq(Events), NEW pend \in SUBSET Events, NEW e \in Events,
           Holds(q, pend)
    PROVE  /\ Unlink(q, e) \in Seq(Events)
           /\ Holds(Unlink(q, e), pend \ {e})
           /\ \A w, p : InOrder(q, w, p) => InOrder(Unlink(q, e), w, p)
<1>0. /\ Len(q) \in Nat
      /\ \A i \in 1 .. Len(q) : q[i] \in Events
  BY LenProperties, ElementOfSeq
<1>1. CASE e \notin pend
  <2>1. Unlink(q, e) = q
    BY <1>1 DEF Holds, Unlink
  <2>2. pend \ {e} = pend
    BY <1>1
  <2> QED
    BY <2>1, <2>2
<1>2. CASE e \in pend
  <2> DEFINE pos == CHOOSE i \in 1 .. Len(q) : q[i] = e
             new == RemoveAt(q, pos)
  <2>1. \E i \in 1 .. Len(q) : q[i] = e
    BY <1>2 DEF Holds
  <2>2. pos \in 1 .. Len(q) /\ q[pos] = e
    BY <2>1
  <2>3. Unlink(q, e) = new
    BY <2>1 DEF Unlink
  <2> HIDE DEF pos
  <2>4. /\ new \in Seq(Events) /\ Len(new) = Len(q) - 1
        /\ \A k \in 1 .. Len(q) - 1 : new[k] = IF k < pos THEN q[k] ELSE q[k + 1]
    BY <2>2, RemoveAtProperties
  <2> HIDE DEF new
  <2>5. \A i \in 1 .. Len(q) : q[i] = e => i = pos
    BY <2>2 DEF Holds
  <2>6. Holds(new, pend \ {e})
    <3>1. ASSUME NEW f \in pend \ {e}
          PROVE  \E i \in 1 .. Len(new) : new[i] = f
      <4>1. PICK i \in 1 .. Len(q) : q[i] = f
        BY <3>1 DEF Holds
      <4>2. IF i < pos THEN i \in 1 .. Len(new) /\ new[i] = f
                       ELSE i - 1 \in 1 .. Len(new) /\ new[i - 1] = f
        BY <4>1, <3>1, <1>0, <2>2, <2>4
      <4> QED
        BY <4>2
    <3>2. \A i \in 1 .. Len(new) : new[i] \in pend \ {e}
      BY <1>0, <2>2, <2>4, <2>5 DEF Holds
    <3>3. \A i, j \in 1 .. Len(new) : new[i] = new[j] => i = j
      BY <1>0, <2>2, <2>4, SMTT(30) DEF Holds
    <3> QED
      BY <3>1, <3>2, <3>3 DEF Holds
  <2>7. ASSUME NEW w, NEW p, InOrder(q, w, p)
        PROVE  InOrder(new, w, p)
    BY <2>7, <1>0, <2>2, <2>4 DEF InOrder
  <2> QED
    BY <2>3, <2>4, <2>6, <2>7
<1> QED
  BY <1>1, <1>2

LEMMA TailOfListProperties ==
    ASSUME NEW q \in Seq(Events), NEW pend \in SUBSET Events, q # <<>>,
           NEW w, NEW p, Holds(q, pend), InOrder(q, w, p)
    PROVE  /\ Head(q) \in pend
           /\ Tail(q) \in Seq(Events)
           /\ Holds(Tail(q), pend \ {Head(q)})
           /\ InOrder(Tail(q), w, p)
           /\ \A f \in pend \ {Head(q)} : NotAfter(w, p, Head(q), f)
<1>1. /\ Len(q) \in Nat \ {0}
      /\ \A i \in 1 .. Len(q) : q[i] \in Events
  BY LenProperties, ElementOfSeq, EmptySeq
<1>2. /\ Tail(q) \in Seq(Events) /\ Len(Tail(q)) = Len(q) - 1
      /\ \A k \in 1 .. Len(q) - 1 : Tail(q)[k] = q[k + 1]
      /\ Head(q) = q[1]
  BY <1>1, HeadTailProperties
<1>3. Head(q) \in pend
  BY <1>1, <1>2 DEF Holds
<1>4. ASSUME NEW f \in pend \ {Head(q)}
      PROVE  \E i \in 2 .. Len(q) : q[i] = f
  BY <1>1, <1>2 DEF Holds
<1>5. Holds(Tail(q), pend \ {Head(q)})
  <2>1. ASSUME NEW f \in pend \ {Head(q)}
        PROVE  \E i \in 1 .. Len(Tail(q)) : Tail(q)[i] = f
    <3>1. PICK i \in 2 .. Len(q) : q[i] = f
      BY <1>4
    <3>2. i - 1 \in 1 .. Len(Tail(q)) /\ Tail(q)[i - 1] = f
      BY <1>1, <1>2, <3>1
    <3> QED
      BY <3>2
  <2>2. \A i \in 1 .. Len(Tail(q)) : Tail(q)[i] \in pend \ {Head(q)}
    BY <1>1, <1>2 DEF Holds
  <2>3. \A i, j \in 1 .. Len(Tail(q)) : Tail(q)[i] = Tail(q)[j] => i = j
    BY <1>1, <1>2 DEF Holds
  <2> QED
    BY <2>1, <2>2, <2>3 DEF Holds
<1>6. InOrder(Tail(q), w, p)
  BY <1>1, <1>2 DEF InOrder
<1>7. \A f \in pend \ {Head(q)} : NotAfter(w, p, Head(q), f)
  BY <1>1, <1>2, <1>4 DEF InOrder
<1> QED
  BY <1>2, <1>3, <1>5, <1>6, <1>7

\* The order only depends on the times and priorities of the linked events.
Agree(pend, w, p, w2, p2) == \A f \in pend : w2[f] = w[f] /\ p2[f] = p[f]

LEMMA InOrderDepends ==
    ASSUME NEW q \in Seq(Events), NEW pend \in SUBSET Events, Holds(q, pend),
           NEW w, NEW p, NEW w2, NEW p2, InOrder(q, w, p),
           Agree(pend, w, p, w2, p2)
    PROVE  InOrder(q, w2, p2)
<1>1. \A i \in 1 .. Len(q) : q[i] \in pend
  BY ElementOfSeq DEF Holds
<1> QED
  BY <1>1 DEF InOrder, NotAfter, Agree

-----------------------------------------------------------------------------
(* The inductive invariant.  Restoring an event needs a checkpoint to read   *)
(* and an object to restore, so both are part of it.                         *)

IInv ==
    /\ TypeOK
    /\ FlagMatchesList
    /\ Sorted
    /\ NotInThePast
    /\ SquashedIsPending
    /\ PendingIsAlive
    /\ RestoredExactly
    /\ Static \subseteq alive
    /\ toRestore # {} => ckpt \in [Persistent -> SavedEvent]

LEMMA ListIsHoldsInOrder ==
    /\ FlagMatchesList <=> Holds(queue, scheduled)
    /\ Sorted <=> InOrder(queue, when, prio)
BY DEF FlagMatchesList, Sorted, Holds, InOrder

LEMMA Constants ==
    /\ AutoDelete \subseteq Events /\ Persistent \subseteq Static /\ Static \subseteq Events
    /\ Priorities \subseteq Int /\ InitPrio \in [Events -> Priorities]
    /\ MaxTick \in Nat /\ Ticks \subseteq Int /\ 0 \in Ticks
    /\ Events \cap {Setup, Loop, Poll, Exited} = {} /\ Setup \notin {Loop, Poll, Exited}
BY EventQueueAssumption DEF Static, Ticks

LEMMA InitEstablishes == Init => IInv
<1> SUFFICES ASSUME Init PROVE IInv
  OBVIOUS
<1> USE DEF Init
<1>1. TypeOK
  BY Constants, EmptySeq DEF TypeOK, Static
<1>2. FlagMatchesList /\ Sorted
  BY DEF FlagMatchesList, Sorted
<1>3. NotInThePast /\ SquashedIsPending /\ PendingIsAlive /\ RestoredExactly
  BY DEF NotInThePast, SquashedIsPending, PendingIsAlive, RestoredExactly
<1> QED
  BY <1>1, <1>2, <1>3 DEF IInv

\* What linking event e in at tick t, with priorities p, does to the list.
LEMMA ScheduledList ==
    ASSUME TypeOK, FlagMatchesList, Sorted,
           NEW e \in Events, NEW t \in Ticks, NEW p \in [Events -> Priorities],
           \A f \in scheduled \ {e} : p[f] = prio[f],
           NEW q, q = Unlink(queue, e),
           NEW w, w = [when EXCEPT ![e] = t]
    PROVE  /\ Link(q, w, p, e) \in Seq(Events)
           /\ Holds(Link(q, w, p, e), scheduled \cup {e})
           /\ InOrder(Link(q, w, p, e), w, p)
<1>1. /\ q \in Seq(Events) /\ Holds(q, scheduled \ {e}) /\ InOrder(q, when, prio)
  BY ListIsHoldsInOrder, UnlinkProperties DEF TypeOK
<1>2. w \in [Events -> Int] /\ p \in [Events -> Int]
  BY Constants DEF TypeOK
<1>3. InOrder(q, w, p)
  <2>1. Agree(scheduled \ {e}, when, prio, w, p)
    BY DEF TypeOK, Agree
  <2>2. scheduled \ {e} \in SUBSET Events
    BY DEF TypeOK
  <2> HIDE DEF TypeOK, FlagMatchesList, Sorted
  <2> QED
    BY <1>1, <2>1, <2>2, InOrderDepends
<1>4. e \in Events \ (scheduled \ {e}) /\ (scheduled \ {e}) \cup {e} = scheduled \cup {e}
  OBVIOUS
<1> QED
  BY <1>1, <1>2, <1>3, <1>4, LinkProperties DEF TypeOK

LEMMA UnlinkAbsent ==
    ASSUME FlagMatchesList, NEW e \in Events \ scheduled
    PROVE  Unlink(queue, e) = queue
BY DEF FlagMatchesList, Unlink

LEMMA ScheduleAtPreserves ==
    ASSUME IInv, NEW e \in Events, NEW t \in Ticks, ScheduleAt(e, t),
           prio' \in [Events -> Priorities], \A f \in scheduled : prio'[f] = prio[f],
           alive' \in SUBSET Events, alive \subseteq alive', e \in alive',
           InHandler \/ InSetup \/ ctx = Poll
    PROVE  IInv'
<1> USE DEF ScheduleAt
<1>1. e \notin scheduled /\ Unlink(queue, e) = queue
  BY UnlinkAbsent DEF IInv
<1>2. /\ queue' \in Seq(Events)
      /\ Holds(queue', scheduled')
      /\ InOrder(queue', when', prio')
  <2>1. when' = [when EXCEPT ![e] = t] /\ scheduled' = scheduled \cup {e}
    OBVIOUS
  <2>2. queue' = Link(queue, when', prio', e)
    OBVIOUS
  <2>3. TypeOK /\ FlagMatchesList /\ Sorted /\ queue = Unlink(queue, e)
    BY <1>1 DEF IInv
  <2>4. \A f \in scheduled \ {e} : prio'[f] = prio[f]
    OBVIOUS
  <2> HIDE DEF ScheduleAt
  <2> QED
    BY <2>1, <2>2, <2>3, <2>4, ScheduledList
<1>3. TypeOK'
  BY <1>2 DEF IInv, TypeOK
<1>4. FlagMatchesList' /\ Sorted'
  BY <1>2 DEF FlagMatchesList, Sorted, Holds, InOrder
<1>5. NotInThePast'
  BY DEF IInv, TypeOK, NotInThePast
<1>6. SquashedIsPending' /\ PendingIsAlive' /\ Static \subseteq alive'
  BY DEF IInv, SquashedIsPending, PendingIsAlive
<1>7. RestoredExactly'
  BY Constants DEF RestoredExactly, InHandler, InSetup
<1>8. (toRestore # {} => ckpt \in [Persistent -> SavedEvent])'
  BY DEF IInv
<1> QED
  BY <1>3, <1>4, <1>5, <1>6, <1>7, <1>8 DEF IInv

LEMMA NextPreserves == IInv /\ [Next]_vars => IInv'
<1> SUFFICES ASSUME IInv, [Next]_vars PROVE IInv'
  OBVIOUS
<1> USE Constants
<1>1. ASSUME NEW e \in Events, NEW t \in Ticks, Schedule(e, t)
      PROVE  IInv'
  <2>1. prio' = prio /\ alive' = alive /\ e \in alive /\ ScheduleAt(e, t)
    BY <1>1 DEF Schedule
  <2>2. prio \in [Events -> Priorities] /\ alive \in SUBSET Events
    BY DEF IInv, TypeOK
  <2>3. InHandler \/ InSetup
    BY <1>1 DEF Schedule
  <2> QED
    BY <2>1, <2>2, <2>3, ScheduleAtPreserves
<1>2. ASSUME NEW e \in Events, NEW t \in Ticks, Construct(e, t), InHandler \/ ctx = Poll
      PROVE  IInv'
  <2>1. /\ ScheduleAt(e, t) /\ e \in AutoDelete \ alive
        /\ alive' = alive \cup {e} /\ prio' = [prio EXCEPT ![e] = InitPrio[e]]
    BY <1>2 DEF Construct
  <2>2. prio \in [Events -> Priorities] /\ alive \in SUBSET Events
    BY DEF IInv, TypeOK
  <2>3. \A f \in scheduled : prio'[f] = prio[f]
    BY <2>1, <2>2 DEF IInv, TypeOK, PendingIsAlive
  <2>4. prio' \in [Events -> Priorities] /\ alive' \in SUBSET Events /\ alive \subseteq alive'
    BY <2>1, <2>2
  <2> QED
    BY <1>2, <2>1, <2>3, <2>4, ScheduleAtPreserves
<1>3. ASSUME NEW e \in Events, NEW t \in Ticks, NewEvent(e, t)
      PROVE  IInv'
  BY <1>2, <1>3 DEF NewEvent
<1>4. ASSUME NEW e \in Events, AsyncEvent(e)
      PROVE  IInv'
  BY <1>2, <1>4 DEF AsyncEvent, IInv, TypeOK
<1>5. ASSUME NEW e \in Events, NEW t \in Ticks, Reschedule(e, t)
      PROVE  IInv'
  <2> USE <1>5 DEF Reschedule
  <2>1. /\ queue' \in Seq(Events)
        /\ Holds(queue', scheduled')
        /\ InOrder(queue', when', prio')
    <3>1. when' = [when EXCEPT ![e] = t] /\ scheduled' = scheduled \cup {e} /\ prio' = prio
      OBVIOUS
    <3>2. queue' = Link(Unlink(queue, e), when', prio, e)
      OBVIOUS
    <3>3. TypeOK /\ FlagMatchesList /\ Sorted /\ prio \in [Events -> Priorities]
      BY DEF IInv, TypeOK
    <3> HIDE <1>5 DEF Reschedule
    <3> QED
      BY <3>1, <3>2, <3>3, ScheduledList
  <2>2. TypeOK'
    BY <2>1 DEF IInv, TypeOK
  <2>3. FlagMatchesList' /\ Sorted'
    BY <2>1 DEF FlagMatchesList, Sorted, Holds, InOrder
  <2>4. NotInThePast' /\ SquashedIsPending' /\ PendingIsAlive'
    BY DEF IInv, TypeOK, NotInThePast, SquashedIsPending, PendingIsAlive
  <2>5. RestoredExactly'
    BY DEF InHandler, RestoredExactly
  <2> QED
    BY <2>2, <2>3, <2>4, <2>5 DEF IInv
<1>6. ASSUME NEW e \in Events, Deschedule(e)
      PROVE  IInv'
  <2> USE <1>6 DEF Deschedule
  <2>1. /\ queue' \in Seq(Events)
        /\ Holds(queue', scheduled')
        /\ InOrder(queue', when', prio')
    BY ListIsHoldsInOrder, UnlinkProperties DEF IInv, TypeOK
  <2>2. TypeOK'
    BY <2>1 DEF IInv, TypeOK
  <2>3. FlagMatchesList' /\ Sorted'
    BY <2>1 DEF FlagMatchesList, Sorted, Holds, InOrder
  <2>4. NotInThePast' /\ SquashedIsPending' /\ PendingIsAlive'
    BY DEF IInv, NotInThePast, SquashedIsPending, PendingIsAlive
  <2>5. RestoredExactly'
    BY DEF InHandler, RestoredExactly
  <2> QED
    BY <2>2, <2>3, <2>4, <2>5 DEF IInv
<1>7. ASSUME NEW e \in Events, Squash(e)
      PROVE  IInv'
  BY <1>7 DEF Squash, InHandler, IInv, TypeOK, FlagMatchesList, Sorted, NotAfter, NotInThePast,
              SquashedIsPending, PendingIsAlive, RestoredExactly
<1>8. ASSUME NEW p \in Priorities, SetPriority(p)
      PROVE  IInv'
  <2> USE <1>8 DEF SetPriority
  <2>1. Agree(scheduled, when, prio, when', prio')
    BY DEF IInv, TypeOK, Agree
  <2>2. InOrder(queue, when', prio')
    BY <2>1, ListIsHoldsInOrder, InOrderDepends DEF IInv, TypeOK
  <2>3. TypeOK'
    BY DEF IInv, TypeOK
  <2>4. FlagMatchesList' /\ Sorted'
    BY <2>2 DEF IInv, FlagMatchesList, Sorted, InOrder
  <2>5. NotInThePast' /\ SquashedIsPending' /\ PendingIsAlive' /\ RestoredExactly'
    BY DEF IInv, NotInThePast, SquashedIsPending, PendingIsAlive, RestoredExactly
  <2> QED
    BY <2>3, <2>4, <2>5 DEF IInv
<1>9. ASSUME NEW e \in Persistent, Unserialize(e)
      PROVE  IInv'
  <2> USE <1>9 DEF Unserialize
  <2>1. /\ e \in Static /\ e \in alive /\ e \in Events
        /\ ckpt[e] \in SavedEvent /\ prio' = [prio EXCEPT ![e] = ckpt[e].prio]
    BY DEF IInv
  <2>2. prio' \in [Events -> Priorities] /\ \A f \in scheduled \ {e} : prio'[f] = prio[f]
    BY <2>1 DEF IInv, TypeOK, SavedEvent
  <2>3. /\ queue' \in Seq(Events)
        /\ Holds(queue', scheduled')
        /\ InOrder(queue', when', prio')
    <3>1. CASE ckpt[e].scheduled /\ ~ckpt[e].squashed
      <4>1. /\ when' = [when EXCEPT ![e] = curTick] /\ scheduled' = scheduled \cup {e}
            /\ queue' = Link(Unlink(queue, e), when', prio', e)
        BY <3>1
      <4>2. TypeOK /\ FlagMatchesList /\ Sorted /\ curTick \in Ticks
        BY DEF IInv, TypeOK
      <4> HIDE <1>9 DEF Unserialize
      <4> QED
        BY <2>1, <2>2, <4>1, <4>2, ScheduledList
    <3>2. CASE ~(ckpt[e].scheduled /\ ~ckpt[e].squashed)
      <4>1. when' = when /\ scheduled' = scheduled \ {e} /\ queue' = Unlink(queue, e)
        BY <3>2
      <4>2. /\ queue' \in Seq(Events)
            /\ Holds(queue', scheduled')
            /\ InOrder(queue', when, prio)
        BY <2>1, <4>1, ListIsHoldsInOrder, UnlinkProperties DEF IInv, TypeOK
      <4>3. Agree(scheduled', when, prio, when', prio')
        BY <2>2, <4>1 DEF Agree
      <4>4. scheduled' \in SUBSET Events
        BY <4>1 DEF IInv, TypeOK
      <4> HIDE <1>9 DEF Unserialize
      <4> QED
        BY <4>2, <4>3, <4>4, InOrderDepends
    <3> QED
      BY <3>1, <3>2
  <2>4. TypeOK'
    BY <2>1, <2>2, <2>3 DEF IInv, TypeOK
  <2>5. FlagMatchesList' /\ Sorted'
    BY <2>3 DEF FlagMatchesList, Sorted, Holds, InOrder
  <2>6. NotInThePast' /\ SquashedIsPending' /\ PendingIsAlive'
    BY <2>1 DEF IInv, TypeOK, NotInThePast, SquashedIsPending, PendingIsAlive
  <2>7. RestoredExactly'
    <3> SUFFICES ASSUME NEW f \in Persistent \ toRestore'
                 PROVE  /\ f \in scheduled' <=> ckpt[f].scheduled /\ ~ckpt[f].squashed
                        /\ f \in scheduled' => when'[f] = curTick
      BY DEF RestoredExactly
    <3>1. CASE f = e
      BY <3>1, <2>1 DEF IInv, TypeOK
    <3>2. CASE f # e
      BY <3>2 DEF IInv, TypeOK, RestoredExactly
    <3> QED
      BY <3>1, <3>2
  <2> QED
    BY <2>4, <2>5, <2>6, <2>7 DEF IInv
<1>10. ASSUME Dispatch
       PROVE  IInv'
  <2> USE <1>10 DEF Dispatch
  <2> DEFINE e == Head(queue)
  <2>1. /\ e \in scheduled
        /\ Tail(queue) \in Seq(Events)
        /\ Holds(Tail(queue), scheduled \ {e})
        /\ InOrder(Tail(queue), when, prio)
        /\ \A f \in scheduled \ {e} : NotAfter(when, prio, e, f)
    BY ListIsHoldsInOrder, TailOfListProperties DEF IInv, TypeOK
  <2> HIDE DEF e
  <2>2. /\ curTick' = when[e] /\ queue' = Tail(queue) /\ scheduled' = scheduled \ {e}
        /\ when' = when /\ prio' = prio /\ ckpt' = ckpt /\ toRestore' = toRestore
        /\ \/ squashed' = squashed \ {e} /\ alive' = Free(e, scheduled') /\ ctx' = Poll
           \/ e \notin squashed /\ squashed' = squashed /\ alive' = alive /\ ctx' = e
    BY DEF e
  <2> HIDE <1>10
  <2>3. TypeOK'
    BY <2>1, <2>2 DEF IInv, TypeOK, Free
  <2>4. FlagMatchesList' /\ Sorted'
    BY <2>1, <2>2 DEF FlagMatchesList, Sorted, Holds, InOrder
  <2>5. NotInThePast'
    <3> SUFFICES ASSUME NEW f \in scheduled'
                 PROVE  when[e] <= when[f]
      BY <2>2 DEF NotInThePast
    <3>1. NotAfter(when, prio, e, f) /\ when[e] \in Int /\ when[f] \in Int
      BY <2>1, <2>2 DEF IInv, TypeOK
    <3> QED
      BY <3>1 DEF NotAfter
  <2>6. SquashedIsPending' /\ PendingIsAlive' /\ Static \subseteq alive'
    BY <2>1, <2>2 DEF IInv, SquashedIsPending, PendingIsAlive, Free, Static
  <2>7. RestoredExactly'
    BY <2>1, <2>2 DEF RestoredExactly, IInv, TypeOK
  <2>8. (toRestore # {} => ckpt \in [Persistent -> SavedEvent])'
    BY <2>2 DEF IInv
  <2> QED
    BY <2>3, <2>4, <2>5, <2>6, <2>7, <2>8 DEF IInv
<1>11. ASSUME Return
       PROVE  IInv'
  BY <1>11 DEF Return, InHandler, Free, Static, IInv, TypeOK, FlagMatchesList, Sorted, NotAfter,
               NotInThePast, SquashedIsPending, PendingIsAlive, RestoredExactly
<1>12. ASSUME NextRound \/ NoEvents \/ EnterLoop
       PROVE  IInv'
  BY <1>12 DEF NextRound, NoEvents, EnterLoop, IInv, TypeOK, FlagMatchesList, Sorted, NotAfter,
               NotInThePast, SquashedIsPending, PendingIsAlive, RestoredExactly
<1>13. ASSUME Serialize
       PROVE  IInv'
  <2> USE <1>13 DEF Serialize
  <2>1. ckpt' \in [Persistent -> SavedEvent]
    BY DEF SavedEvent, IInv, TypeOK, Static
  <2> QED
    BY <2>1 DEF InHandler, IInv, TypeOK, FlagMatchesList, Sorted, NotAfter,
                NotInThePast, SquashedIsPending, PendingIsAlive, RestoredExactly
<1>14. ASSUME Restart
       PROVE  IInv'
  <2> USE <1>14 DEF Restart
  <2>1. TypeOK'
    BY EmptySeq DEF IInv, TypeOK, Static
  <2>2. FlagMatchesList' /\ Sorted'
    BY DEF FlagMatchesList, Sorted
  <2>3. NotInThePast' /\ SquashedIsPending' /\ PendingIsAlive' /\ RestoredExactly'
    BY DEF NotInThePast, SquashedIsPending, PendingIsAlive, RestoredExactly
  <2>4. ckpt' \in [Persistent -> SavedEvent]
    BY DEF IInv, TypeOK
  <2> QED
    BY <2>1, <2>2, <2>3, <2>4 DEF IInv
<1>15. CASE UNCHANGED vars
  BY <1>15 DEF vars, IInv, TypeOK, FlagMatchesList, Sorted, NotAfter,
               NotInThePast, SquashedIsPending, PendingIsAlive, RestoredExactly
<1> QED
  BY <1>1, <1>3, <1>4, <1>5, <1>6, <1>7, <1>8, <1>9, <1>10, <1>11, <1>12, <1>13, <1>14, <1>15
  DEF Next

\* The list of the event queue is what its users take it for, always: see the
\* conjuncts of EventQueueInv (types, flag and links agree, sorted, never in the
\* past, no stale Squashed flag, no link to freed memory).
THEOREM QueueConsistent == Spec => []EventQueueInv
<1>1. IInv => EventQueueInv
  BY DEF IInv, EventQueueInv
<1> QED
  BY InitEstablishes, NextPreserves, <1>1, PTL DEF Spec

\* The variables keep their types: above all, _when is never set to a tick that
\* no caller asked for, and only persistent events are restored.
THEOREM TypeCorrect == Spec => []TypeOK
<1>1. IInv => TypeOK
  BY DEF IInv
<1> QED
  BY InitEstablishes, NextPreserves, <1>1, PTL DEF Spec

\* scheduled() tells the truth: an event's flag Scheduled is set exactly when the
\* event is in the list, and no event is in it twice.
THEOREM ScheduledMeansListed == Spec => []FlagMatchesList
<1>1. IInv => FlagMatchesList
  BY DEF IInv
<1> QED
  BY InitEstablishes, NextPreserves, <1>1, PTL DEF Spec

\* The head of the list is always the next event to serve: by time, then by
\* priority, after any sequence of schedule, reschedule, deschedule and restart.
THEOREM ListIsSorted == Spec => []Sorted
<1>1. IInv => Sorted
  BY DEF IInv
<1> QED
  BY InitEstablishes, NextPreserves, <1>1, PTL DEF Spec

\* serviceEvents never finds an event of a tick that has passed, so simulated
\* time never goes back.
THEOREM NeverInThePast == Spec => []NotInThePast
<1>1. IInv => NotInThePast
  BY DEF IInv
<1> QED
  BY InitEstablishes, NextPreserves, <1>1, PTL DEF Spec

\* The flag Squashed is set only on an event that is pending: it cannot suppress
\* a later use of the event.
THEOREM NoStaleSquash == Spec => []SquashedIsPending
<1>1. IInv => SquashedIsPending
  BY DEF IInv
<1> QED
  BY InitEstablishes, NextPreserves, <1>1, PTL DEF Spec

\* No event is freed while the list links to it.
THEOREM NoDanglingLink == Spec => []PendingIsAlive
<1>1. IInv => PendingIsAlive
  BY DEF IInv
<1> QED
  BY InitEstablishes, NextPreserves, <1>1, PTL DEF Spec

\* A restarted process finds pending exactly the events the checkpoint says.
THEOREM RestoreIsExact == Spec => []RestoredExactly
<1>1. IInv => RestoredExactly
  BY DEF IInv
<1> QED
  BY InitEstablishes, NextPreserves, <1>1, PTL DEF Spec

-----------------------------------------------------------------------------
(* The last in of equals is the first out.                                 *)

\* r links events of pend, and e before its equals.
FirstOfEquals(r, pend, w, p, e) ==
    \A i \in 1 .. Len(r) :
       \/ r[i] \in pend
       \/ /\ r[i] = e
          /\ \A j \in 1 .. Len(r) : w[e] = w[r[j]] /\ p[e] = p[r[j]] => i <= j

LEMMA LinkedFirst ==
    ASSUME NEW q \in Seq(Events), NEW pend \in SUBSET Events, NEW e \in Events \ pend,
           NEW w \in [Events -> Int], NEW p \in [Events -> Int],
           Holds(q, pend)
    PROVE  FirstOfEquals(Link(q, w, p, e), pend, w, p, e)
<1> DEFINE n == Len(q)
           pos == InsertPos(q, w, p, e)
           new == Link(q, w, p, e)
<1> SUFFICES ASSUME NEW i \in 1 .. Len(new)
             PROVE  \/ new[i] \in pend
                    \/ /\ new[i] = e
                       /\ \A j \in 1 .. Len(new) :
                             w[e] = w[new[j]] /\ p[e] = p[new[j]] => i <= j
  BY DEF FirstOfEquals
<1>0. /\ n \in Nat
      /\ \A k \in 1 .. n : q[k] \in pend
  BY LenProperties, ElementOfSeq DEF Holds
<1>1. /\ pos \in 1 .. n + 1
      /\ \A j \in 1 .. pos - 1 : ~NotAfter(w, p, e, q[j])
  BY InsertPosProperties
<1>2. Len(new) = n + 1 /\ Inserted(new, q, n, pos, e)
  <2>1. new = InsertAt(q, pos, e)
    BY DEF Link
  <2> HIDE DEF pos, new
  <2>2. e \in Events /\ pos \in 1 .. Len(q) + 1
    BY <1>1
  <2>3. /\ Len(InsertAt(q, pos, e)) = Len(q) + 1
        /\ Inserted(InsertAt(q, pos, e), q, Len(q), pos, e)
    BY <2>2, InsertAtProperties DEF Inserted
  <2> QED
    BY <2>1, <2>3
<1> HIDE DEF n, pos, new
<1>3. CASE i # pos
  <2>1. CASE i < pos
    BY <1>0, <1>1, <1>2, <2>1 DEF Inserted
  <2>2. CASE ~(i < pos)
    <3>1. new[i] = q[i - 1] /\ i - 1 \in 1 .. n
      BY <1>0, <1>1, <1>2, <1>3, <2>2 DEF Inserted
    <3> QED
      BY <1>0, <3>1
  <2> QED
    BY <2>1, <2>2
<1>4. CASE i = pos
  <2>1. new[i] = e
    BY <1>1, <1>2, <1>4 DEF Inserted
  <2>2. ASSUME NEW j \in 1 .. Len(new), w[e] = w[new[j]], p[e] = p[new[j]]
        PROVE  i <= j
    <3>1. SUFFICES ASSUME j < pos PROVE FALSE
      BY <1>0, <1>1, <1>2, <1>4
    <3>2. new[j] = q[j] /\ ~NotAfter(w, p, e, q[j])
      BY <1>0, <1>1, <1>2, <3>1 DEF Inserted
    <3> QED
      BY <2>2, <3>2 DEF NotAfter
  <2> QED
    BY <2>1, <2>2
<1> QED
  BY <1>3, <1>4

\* The step that links e in at tick t.
LEMMA LinkingStep ==
    ASSUME IInv, NEW e \in Events, NEW t \in Ticks, prio' \in [Events -> Priorities],
           when' = [when EXCEPT ![e] = t],
           queue' = Link(Unlink(queue, e), when', prio', e)
    PROVE  LinksBeforeEquals
<1> DEFINE q == Unlink(queue, e)
           pend == scheduled \ {e}
<1>1. q \in Seq(Events) /\ Holds(q, pend) /\ pend \in SUBSET Events
  BY ListIsHoldsInOrder, UnlinkProperties DEF IInv, TypeOK
<1>2. /\ when' \in [Events -> Int] /\ prio' \in [Events -> Int]
      /\ \A f \in pend : when'[f] = when[f]
  BY Constants DEF IInv, TypeOK
<1>3. queue' = Link(q, when', prio', e) /\ e \in Events \ pend
  OBVIOUS
<1> HIDE DEF q, pend
<1>4. FirstOfEquals(queue', pend, when', prio', e)
  <2>1. \A w, p \in [Events -> Int] : FirstOfEquals(Link(q, w, p, e), pend, w, p, e)
    BY <1>1, <1>3, LinkedFirst
  <2> QED
    BY <1>2, <1>3, <2>1
<1> SUFFICES ASSUME NEW i \in 1 .. Len(queue'), NEW j \in 1 .. Len(queue'),
                    queue'[i] \notin scheduled \/ when'[queue'[i]] # when[queue'[i]],
                    when'[queue'[i]] = when'[queue'[j]],
                    prio'[queue'[i]] = prio'[queue'[j]]
             PROVE  i <= j
  BY DEF LinksBeforeEquals
<1>5. queue'[i] \notin pend
  BY <1>2 DEF pend
<1> QED
  BY <1>4, <1>5 DEF FirstOfEquals

\* A step after which the list links only events it did, at the same times.
LEMMA NoLinkingStep ==
    ASSUME IInv', scheduled' \subseteq scheduled,
           \A f \in scheduled' : when'[f] = when[f]
    PROVE  LinksBeforeEquals
<1>1. \A i \in 1 .. Len(queue') : queue'[i] \in Events /\ queue'[i] \in scheduled'
  BY ElementOfSeq DEF IInv, TypeOK, FlagMatchesList
<1> QED
  BY <1>1 DEF LinksBeforeEquals

LEMMA StepLinksBeforeEquals == IInv /\ IInv' /\ [Next]_vars => [LinksBeforeEquals]_vars
<1> SUFFICES ASSUME IInv, IInv', Next PROVE LinksBeforeEquals
  OBVIOUS
<1> USE Constants
<1>1. prio' \in [Events -> Priorities] /\ when \in [Events -> Ticks] /\ curTick \in Ticks
  BY DEF IInv, TypeOK
<1>2. ASSUME NEW e \in Events, NEW t \in Ticks, ScheduleAt(e, t)
      PROVE  LinksBeforeEquals
  <2>1. when' = [when EXCEPT ![e] = t] /\ queue' = Link(Unlink(queue, e), when', prio', e)
    BY <1>2, UnlinkAbsent DEF ScheduleAt, IInv
  <2> QED
    BY <1>1, <2>1, LinkingStep
<1>3. ASSUME NEW e \in Events, NEW t \in Ticks, Reschedule(e, t)
      PROVE  LinksBeforeEquals
  <2>1. /\ when' = [when EXCEPT ![e] = t]
        /\ queue' = Link(Unlink(queue, e), when', prio', e)
    BY <1>3 DEF Reschedule
  <2> QED
    BY <1>1, <2>1, LinkingStep
<1>4. ASSUME NEW e \in Persistent, Unserialize(e)
      PROVE  LinksBeforeEquals
  <2>1. CASE ckpt[e].scheduled /\ ~ckpt[e].squashed
    <3>1. /\ when' = [when EXCEPT ![e] = curTick]
          /\ queue' = Link(Unlink(queue, e), when', prio', e)
      BY <1>4, <2>1 DEF Unserialize
    <3>2. e \in Events
      OBVIOUS
    <3> QED
      BY <1>1, <3>1, <3>2, LinkingStep
  <2>2. CASE ~(ckpt[e].scheduled /\ ~ckpt[e].squashed)
    <3>1. scheduled' \subseteq scheduled /\ when' = when
      BY <1>4, <2>2 DEF Unserialize
    <3> QED
      BY <3>1, NoLinkingStep
  <2> QED
    BY <2>1, <2>2
<1>5. CASE \/ \E e \in Events : Deschedule(e) \/ Squash(e)
           \/ \E p \in Priorities : SetPriority(p)
           \/ Dispatch \/ Return \/ NextRound \/ NoEvents
           \/ Serialize \/ Restart \/ EnterLoop
  <2>1. scheduled' \subseteq scheduled /\ \A f \in scheduled' : when'[f] = when[f]
    BY <1>5 DEF Deschedule, Squash, SetPriority, Dispatch, Return, NextRound, NoEvents,
                Serialize, Restart, EnterLoop
  <2> QED
    BY <2>1, NoLinkingStep
<1> QED
  BY <1>1, <1>2, <1>3, <1>4, <1>5 DEF Next, Schedule, NewEvent, AsyncEvent, Construct

\* Events of the same tick and priority leave the list in the reverse of the order
\* in which they were scheduled or moved, whoever does it: schedule() of a pending
\* event, of a new one, reschedule() or the restore of a checkpoint.
THEOREM LastScheduledIsFirst == Spec => LastInFirstOut
BY InitEstablishes, NextPreserves, StepLinksBeforeEquals, PTL DEF Spec, LastInFirstOut

-----------------------------------------------------------------------------
(* The list implements the pool.                                           *)

LEMMA PutStep ==
    ASSUME NEW e \in Events, NEW t \in Ticks, t >= curTick,
           prio'[e] \in Priorities,
           when' = [when EXCEPT ![e] = t], when \in [Events -> Ticks],
           scheduled \subseteq Events, scheduled' = scheduled \cup {e},
           \A f \in scheduled \ {e} : prio'[f] = prio[f],
           squashed' = squashed \ {e}, curTick' = curTick, ctx' = ctx
    PROVE  Pool!Next
<1> DEFINE d == [tick |-> t, prio |-> prio'[e]]
<1>1. d \in Pool!Due
  BY DEF Pool!Due, Pool!Ticks, Ticks
<1>2. DOMAIN pending = scheduled /\ running' = running
  BY DEF pending, running
<1>3. pending' = [f \in scheduled \cup {e} |-> IF f = e THEN d ELSE pending[f]]
  BY DEF pending
<1>4. Pool!Put(e, d)
  BY <1>2, <1>3 DEF Pool!Put
<1> QED
  BY <1>1, <1>4 DEF Pool!Next

LEMMA CancelStep ==
    ASSUME NEW e \in scheduled, scheduled' = scheduled \ {e},
           \A f \in scheduled' : when'[f] = when[f] /\ prio'[f] = prio[f],
           squashed' = squashed \ {e}, curTick' = curTick,
           ctx \in Events \cup {Setup}, ctx' = ctx
    PROVE  Pool!Next
<1>1. DOMAIN pending = scheduled /\ running' = running
  BY DEF pending, running
<1>2. pending' = [f \in scheduled \ {e} |-> pending[f]]
  BY DEF pending
<1>3. running # Loop
  BY Constants DEF running
<1>4. Pool!Cancel(e)
  BY <1>1, <1>2, <1>3 DEF Pool!Cancel, Pool!Restrict
<1> QED
  BY <1>1, <1>4 DEF Pool!Next

LEMMA StutterStep ==
    ASSUME scheduled' = scheduled, curTick' = curTick, squashed' = squashed,
           \A f \in scheduled : when'[f] = when[f] /\ prio'[f] = prio[f],
           running' = running
    PROVE  UNCHANGED Pool!vars
BY DEF Pool!vars, pending

\* serviceOne takes the head of the list: an event that none precedes.
LEMMA DispatchServes ==
    ASSUME IInv, Dispatch
    PROVE  Pool!Next
<1> USE Constants
<1>0. when \in [Events -> Ticks] /\ prio \in [Events -> Priorities] /\ scheduled \subseteq Events
  BY DEF IInv, TypeOK
<1> DEFINE e == Head(queue)
<1>1. /\ e \in scheduled
      /\ \A f \in scheduled \ {e} : NotAfter(when, prio, e, f)
  BY ListIsHoldsInOrder, TailOfListProperties DEF Dispatch, IInv, TypeOK
<1>2. /\ curTick' = when[e] /\ scheduled' = scheduled \ {e}
      /\ when' = when /\ prio' = prio /\ ctx = Loop
      /\ \/ e \in squashed /\ squashed' = squashed \ {e} /\ ctx' = Poll
         \/ e \notin squashed /\ squashed' = squashed /\ ctx' = e
  BY DEF Dispatch
<1> HIDE DEF e
<1>3. DOMAIN pending = scheduled
      /\ \A f \in scheduled : pending[f] = [tick |-> when[f], prio |-> prio[f]]
  BY DEF pending
<1>4. ASSUME NEW f \in scheduled
      PROVE  ~Pool!Precedes(pending[f], pending[e])
  <2>1. /\ when[f] \in Int /\ when[e] \in Int /\ prio[f] \in Int /\ prio[e] \in Int
    BY <1>0, <1>1
  <2>2. pending[f].tick = when[f] /\ pending[f].prio = prio[f]
        /\ pending[e].tick = when[e] /\ pending[e].prio = prio[e]
    BY <1>1, <1>3
  <2> QED
    BY <1>1, <2>1, <2>2 DEF Pool!Precedes, NotAfter
<1>5. pending' = [f \in scheduled \ {e} |-> pending[f]]
  BY <1>2 DEF pending
<1>6. curTick' = pending[e].tick
  BY <1>1, <1>2, <1>3
<1>7. e \in Events
  BY <1>0, <1>1
<1>8. /\ running = Loop
      /\ squashed' = squashed \ {e}
      /\ running' = IF e \in squashed THEN Loop ELSE e
  BY <1>2, <1>7 DEF running
<1>9. Pool!Serve(e)
  BY <1>3, <1>4, <1>5, <1>6, <1>8 DEF Pool!Serve, Pool!Restrict
<1> QED
  BY <1>1, <1>3, <1>9 DEF Pool!Next

\* A restored event is put to the current tick, or is not pending any more.
LEMMA UnserializePutsOrCancels ==
    ASSUME IInv, NEW e \in Persistent, Unserialize(e)
    PROVE  [Pool!Next]_(Pool!vars)
<1> USE Constants DEF Unserialize
<1>0. /\ when \in [Events -> Ticks] /\ prio \in [Events -> Priorities]
      /\ scheduled \subseteq Events /\ curTick \in Ticks /\ squashed \subseteq scheduled
  BY DEF IInv, TypeOK, SquashedIsPending
<1>1. e \in Events /\ ckpt[e] \in SavedEvent
  BY DEF IInv
<1>2. /\ prio'[e] \in Priorities /\ \A f \in scheduled \ {e} : prio'[f] = prio[f]
      /\ curTick' = curTick /\ squashed' = squashed \ {e} /\ ctx = Setup /\ ctx' = ctx
  BY <1>0, <1>1 DEF SavedEvent
<1>3. CASE ckpt[e].scheduled /\ ~ckpt[e].squashed
  <2>1. when' = [when EXCEPT ![e] = curTick] /\ scheduled' = scheduled \cup {e}
    BY <1>3
  <2>2. curTick >= curTick
    BY <1>0
  <2> HIDE DEF Unserialize
  <2> QED
    BY <1>0, <1>1, <1>2, <2>1, <2>2, PutStep
<1>4. CASE ~(ckpt[e].scheduled /\ ~ckpt[e].squashed)
  <2>1. when' = when /\ scheduled' = scheduled \ {e}
    BY <1>4
  <2> HIDE DEF Unserialize
  <2>2. CASE e \in scheduled
    BY <1>2, <2>1, <2>2, CancelStep
  <2>3. CASE e \notin scheduled
    <3>1. squashed' = squashed /\ scheduled' = scheduled /\ running' = running
      BY <1>0, <1>2, <2>1, <2>3 DEF running
    <3> QED
      BY <1>2, <2>1, <3>1, <2>3, StutterStep
  <2> QED
    BY <2>2, <2>3
<1> QED
  BY <1>3, <1>4

LEMMA StepRefines == IInv /\ [Next]_vars => [Pool!Next]_(Pool!vars)
<1> SUFFICES ASSUME IInv, [Next]_vars PROVE [Pool!Next]_(Pool!vars)
  OBVIOUS
<1> USE Constants
<1>0. /\ when \in [Events -> Ticks] /\ prio \in [Events -> Priorities]
      /\ scheduled \subseteq Events /\ curTick \in Ticks /\ squashed \subseteq scheduled
  BY DEF IInv, TypeOK, SquashedIsPending
<1>1. ASSUME NEW e \in Events, NEW t \in Ticks, Schedule(e, t)
      PROVE  Pool!Next
  <2>1. squashed' = squashed \ {e}
    BY <1>0, <1>1 DEF Schedule, ScheduleAt
  <2> QED
    BY <1>0, <1>1, <2>1, PutStep DEF Schedule, ScheduleAt
<1>2. ASSUME NEW e \in Events, NEW t \in Ticks, Construct(e, t)
      PROVE  Pool!Next
  <2>1. prio'[e] \in Priorities /\ \A f \in scheduled \ {e} : prio'[f] = prio[f]
    BY <1>0, <1>2 DEF Construct
  <2>2. squashed' = squashed \ {e}
    BY <1>0, <1>2 DEF Construct, ScheduleAt
  <2> QED
    BY <1>0, <1>2, <2>1, <2>2, PutStep DEF Construct, ScheduleAt
<1>3. ASSUME NEW e \in Events, NEW t \in Ticks, Reschedule(e, t)
      PROVE  Pool!Next
  <2>1. scheduled' = scheduled \cup {e}
    BY <1>3 DEF Reschedule
  <2> QED
    BY <1>0, <1>3, <2>1, PutStep DEF Reschedule
<1>4. ASSUME NEW e \in Events, Deschedule(e)
      PROVE  Pool!Next
  BY <1>0, <1>4, CancelStep DEF Deschedule, InHandler
<1>5. ASSUME NEW e \in Persistent, Unserialize(e)
      PROVE  [Pool!Next]_(Pool!vars)
  BY <1>5, UnserializePutsOrCancels
<1>6. ASSUME Dispatch
      PROVE  Pool!Next
  BY <1>6, DispatchServes
<1>7. ASSUME Restart
      PROVE  Pool!Next
  <2>1. scheduled' = {} /\ curTick' = 0 /\ squashed' = {} /\ ctx' = Setup
    BY <1>7 DEF Restart
  <2>2. pending' = [e \in {} |-> 0] /\ running' = Setup
    BY <2>1 DEF pending, running
  <2>3. Pool!Reset
    BY <2>1, <2>2 DEF Pool!Reset
  <2> QED
    BY <2>3 DEF Pool!Next
<1>8. ASSUME NEW p \in Priorities, SetPriority(p)
      PROVE  UNCHANGED Pool!vars
  <2>1. running' = running
    BY <1>8 DEF SetPriority, running
  <2> QED
    BY <1>0, <1>8, <2>1, StutterStep DEF SetPriority
<1>9. ASSUME NEW e \in Events, Squash(e)
      PROVE  Pool!Next
  <2>1. pending' = pending /\ running' = running /\ running # Loop /\ DOMAIN pending = scheduled
    BY <1>9 DEF Squash, InHandler, pending, running
  <2>2. Pool!CallOff(e)
    BY <1>9, <2>1 DEF Squash, Pool!CallOff
  <2> QED
    BY <1>9, <2>1, <2>2 DEF Squash, Pool!Next
<1>10. ASSUME Return \/ EnterLoop
       PROVE  Pool!Next
  <2>1. pending' = pending /\ running # Loop /\ running' = Loop
    BY <1>10 DEF Return, EnterLoop, InHandler, pending, running
  <2>2. Pool!Done
    BY <1>10, <2>1 DEF Return, EnterLoop, Pool!Done
  <2> QED
    BY <2>2 DEF Pool!Next
<1>11. ASSUME NextRound \/ NoEvents \/ Serialize \/ UNCHANGED vars
       PROVE  UNCHANGED Pool!vars
  <2>1. running' = running
    BY <1>11 DEF NextRound, NoEvents, Serialize, vars, running
  <2> QED
    BY <1>11, <2>1, StutterStep DEF NextRound, NoEvents, Serialize, vars
<1> QED
  BY <1>0, <1>1, <1>2, <1>3, <1>4, <1>5, <1>6, <1>7, <1>8, <1>9, <1>10, <1>11
  DEF Next, NewEvent, AsyncEvent

\* The event queue and the main loop run one event at a time, always one that no
\* pending event precedes, at the time it is due, and never a squashed one; every
\* call on an event is a change of that one entry of the pool.
THEOREM ListImplementsPool == Spec => PoolSpec
<1>1. Init => Pool!Init
  <2> SUFFICES ASSUME Init PROVE Pool!Init
    OBVIOUS
  <2>1. pending = [e \in {} |-> 0] /\ running = Setup
    BY DEF Init, pending, running
  <2> QED
    BY <2>1 DEF Init, Pool!Init
<1> QED
  BY <1>1, InitEstablishes, NextPreserves, StepRefines, PTL DEF Spec, PoolSpec, Pool!Spec
=============================================================================
