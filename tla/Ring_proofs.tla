------------------------------ MODULE Ring_proofs ------------------------------
(***************************************************************************)
(* On a ring of any size, with any number of rings for requests and for    *)
(* answers, no two transfers meet on a link, no delivery finds the buffer  *)
(* of its bank full, and the ring is a channel from each processor to each *)
(* bank that loses, repeats and reorders nothing.                          *)
(***************************************************************************)
EXTENDS Ring, Selection_proofs

-----------------------------------------------------------------------------
(* The invariant, by the part of the ring it is about.                     *)

QueueInv ==
    /\ ringRequestQueue \in [Cpus -> Seq(Entry)]
    /\ blockedLocalQueues \subseteq Cpus
    /\ ringResponseQueue \in [Banks -> Seq(Response)]

\* What a transfer has reserved of the links it has not entered yet.
RequestSlot(t, i) ==
    [ring |-> t.ring, link |-> Link(t.cpu, t.bank, i), dir |-> Direction(t.cpu, t.bank),
     at |-> Ahead(i) - t.gone]
AnswerSlot(t, i) ==
    [ring |-> t.ring, link |-> LinkBack(t.cpu, t.bank, i),
     dir |-> DirectionBack(t.cpu, t.bank), at |-> Ahead(i) - t.gone]

RequestsReserved ==
    \A t \in transfers : \A i \in 1 .. Hops(t.cpu, t.bank) :
        Ahead(i) - t.gone >= 0 => RequestSlot(t, i) \in ringLinkOccupied
AnswersReserved ==
    \A t \in answers : \A i \in 1 .. Hops(t.cpu, t.bank) :
        Ahead(i) - t.gone >= 0 => AnswerSlot(t, i) \in ringLinkOccupied

LinkInv ==
    /\ ringLinkOccupied \subseteq Reservation
    /\ transfers \subseteq Transfer
    /\ answers \subseteq Answer
    /\ RequestsReserved /\ AnswersReserved
    /\ RequestsNeverMeet /\ AnswersNeverMeet

BankInv ==
    /\ inFlightRequests \in [Banks -> Nat]
    /\ blockedInterfaces \subseteq Banks
    /\ deliverBuffer \in [Banks -> Seq(Delivered)]
    /\ serving \in [Banks -> [Cpus -> Nat]]
    /\ IsFiniteSet(transfers)
    /\ RecvBufferFits

\* The transfer a processor gets in an arbitration is the only one of its own
\* that starts in this tick.
Fresh ==
    /\ phase # Off => arbEvent = Idle
    /\ arbEvent = Due => \A t \in transfers : t.gone > 0
    /\ phase = Requests => \A t \in transfers : t.gone = 0 => t.cpu \in tried

ArbInv ==
    /\ arbEvent \in {Idle, Due, Soon}
    /\ phase \in {Off, Requests, Responses}
    /\ tried \subseteq Cpus \union Banks
    /\ Fresh

IInv == QueueInv /\ LinkInv /\ BankInv /\ ArbInv

-----------------------------------------------------------------------------
(* The links of a path.                                                    *)

LEMMA Sizes ==
    /\ cpu_count \in Nat \ {0} /\ sharedCacheBankCount \in Nat \ {0}
    /\ Hop \in Nat \ {0} /\ recvBufferSize \in Nat
    /\ numberOfRequestRings \in Nat \ {0} /\ numberOfResponseRings \in Nat \ {0}
    /\ Cpus \subseteq Nat /\ Banks \subseteq Nat
BY RingAssumption DEF Cpus, Banks

LEMMA HopsIsNat ==
    ASSUME NEW c \in Cpus, NEW b \in Banks
    PROVE  Hops(c, b) \in Nat \ {0}
BY RingAssumption DEF Hops, Up, getUphops, getDownhops, Cpus, Banks

LEMMA LinkIsNat ==
    ASSUME NEW c \in Cpus, NEW b \in Banks, NEW i \in 1 .. Hops(c, b)
    PROVE  Link(c, b, i) \in Nat /\ LinkBack(c, b, i) \in Nat
<1>1. ASSUME NEW j \in 1 .. Hops(c, b) PROVE Link(c, b, j) \in Nat
  BY RingAssumption DEF Link, Hops, Up, getUphops, getDownhops, Cpus, Banks,
     TOP_LINK_ID, BOTTOM_LINK_ID
<1>2. Hops(c, b) + 1 - i \in 1 .. Hops(c, b)
  BY HopsIsNat
<1> QED
  BY <1>1, <1>2 DEF LinkBack

LEMMA AheadIsNat ==
    ASSUME NEW i \in Nat \ {0}
    PROVE  Ahead(i) \in Nat
<1>1. i - 1 \in Nat /\ Hop \in Nat
  BY Sizes
<1>2. \A m, n \in Nat : m * n \in Nat
  OBVIOUS
<1> QED
  BY <1>1, <1>2 DEF Ahead

LEMMA LinksAreReservations ==
    ASSUME NEW c \in Cpus, NEW b \in Banks
    PROVE  /\ \A r \in RequestRings : RequestLinks(r, c, b) \subseteq Reservation
           /\ \A r \in ResponseRings : ResponseLinks(r, c, b) \subseteq Reservation
<1>1. \A i \in 1 .. Hops(c, b) : /\ Ahead(i) \in Nat /\ Link(c, b, i) \in Nat
                                /\ LinkBack(c, b, i) \in Nat
  BY LinkIsNat, AheadIsNat, HopsIsNat
<1> QED
  BY <1>1 DEF RequestLinks, ResponseLinks, Reservation, Direction, DirectionBack

-----------------------------------------------------------------------------
(* Transfers and links.                                                    *)

LEMMA LinkUntouched ==
    ASSUME LinkInv, UNCHANGED linkVars
    PROVE  LinkInv'
BY DEF LinkInv, linkVars, RequestsReserved, AnswersReserved, RequestsNeverMeet,
   AnswersNeverMeet

\* Fewer transfers meet less.
LEMMA LinkFewer ==
    ASSUME LinkInv, UNCHANGED ringLinkOccupied,
           transfers' \subseteq transfers, answers' \subseteq answers
    PROVE  LinkInv'
BY DEF LinkInv, RequestsReserved, AnswersReserved, RequestsNeverMeet, AnswersNeverMeet

LEMMA HeadOfRequests ==
    ASSUME QueueInv, NEW c \in Cpus, ringRequestQueue[c] # <<>>
    PROVE  /\ Head(ringRequestQueue[c]) \in Entry
           /\ Head(ringRequestQueue[c]).bank \in Banks
           /\ Head(ringRequestQueue[c]).cmd \in {Read, Writeback}
<1>1. ringRequestQueue[c] \in Seq(Entry)
  BY DEF QueueInv
<1>2. Head(ringRequestQueue[c]) \in Entry
  BY <1>1, HeadTailProperties
<1> QED
  BY <1>2 DEF Entry

LEMMA HeadOfResponses ==
    ASSUME QueueInv, NEW b \in Banks, ringResponseQueue[b] # <<>>
    PROVE  Head(ringResponseQueue[b]).cpu \in Cpus
<1>1. ringResponseQueue[b] \in Seq(Response)
  BY DEF QueueInv
<1>2. Head(ringResponseQueue[b]) \in Response
  BY <1>1, HeadTailProperties
<1> QED
  BY <1>2 DEF Response

\* A transfer whose links were free meets none of those under way: where it is
\* going an earlier one would have had its reservation.
LEMMA NewRequestMeetsNone ==
    ASSUME LinkInv, NEW c \in Cpus, NEW b \in Banks, NEW ring \in RequestRings,
           RequestLinks(ring, c, b) \intersect ringLinkOccupied = {},
           NEW u \in transfers, u.ring = ring,
           Direction(u.cpu, u.bank) = Direction(c, b),
           NEW i \in 1 .. Hops(c, b), NEW j \in 1 .. Hops(u.cpu, u.bank),
           Link(c, b, i) = Link(u.cpu, u.bank, j)
    PROVE  Ahead(i) # Ahead(j) - u.gone
<1> SUFFICES ASSUME Ahead(i) = Ahead(j) - u.gone PROVE FALSE
  OBVIOUS
<1>1. Ahead(i) >= 0
  BY HopsIsNat, AheadIsNat
<1>2. RequestSlot(u, j) \in ringLinkOccupied
  BY <1>1 DEF LinkInv, RequestsReserved
<1>3. RequestSlot(u, j) =
          [ring |-> ring, link |-> Link(c, b, i), dir |-> Direction(c, b), at |-> Ahead(i)]
  BY DEF RequestSlot
<1>4. RequestSlot(u, j) \in RequestLinks(ring, c, b)
  BY <1>3 DEF RequestLinks
<1> QED
  BY <1>2, <1>4

LEMMA NewAnswerMeetsNone ==
    ASSUME LinkInv, NEW c \in Cpus, NEW b \in Banks, NEW ring \in ResponseRings,
           ResponseLinks(ring, c, b) \intersect ringLinkOccupied = {},
           NEW u \in answers, u.ring = ring,
           DirectionBack(u.cpu, u.bank) = DirectionBack(c, b),
           NEW i \in 1 .. Hops(c, b), NEW j \in 1 .. Hops(u.cpu, u.bank),
           LinkBack(c, b, i) = LinkBack(u.cpu, u.bank, j)
    PROVE  Ahead(i) # Ahead(j) - u.gone
<1> SUFFICES ASSUME Ahead(i) = Ahead(j) - u.gone PROVE FALSE
  OBVIOUS
<1>1. Ahead(i) >= 0
  BY HopsIsNat, AheadIsNat
<1>2. AnswerSlot(u, j) \in ringLinkOccupied
  BY <1>1 DEF LinkInv, AnswersReserved
<1>3. AnswerSlot(u, j) =
          [ring |-> ring, link |-> LinkBack(c, b, i), dir |-> DirectionBack(c, b), at |-> Ahead(i)]
  BY DEF AnswerSlot
<1>4. AnswerSlot(u, j) \in ResponseLinks(ring, c, b)
  BY <1>3 DEF ResponseLinks
<1> QED
  BY <1>2, <1>4

LEMMA GrantRequestKeepsLinks ==
    ASSUME LinkInv, QueueInv, NEW c \in Cpus, GrantRequest(c)
    PROVE  LinkInv'
<1> DEFINE b == Head(ringRequestQueue[c]).bank
           cmd == Head(ringRequestQueue[c]).cmd
<1>1. ringRequestQueue[c] # <<>>
  BY DEF GrantRequest, Turn
<1>2. b \in Banks /\ cmd \in {Read, Writeback}
  BY <1>1, HeadOfRequests
<1>3. PICK ring \in RequestRings :
          /\ First(ring, RingsFor(c))
          /\ ringLinkOccupied' = ringLinkOccupied \union RequestLinks(ring, c, b)
          /\ transfers' = transfers \union
                 {[ring |-> ring, cpu |-> c, bank |-> b, cmd |-> cmd, gone |-> 0]}
  BY DEF GrantRequest
<1>4. RequestLinks(ring, c, b) \intersect ringLinkOccupied = {}
  BY <1>3 DEF First, RingsFor
<1>5. answers' = answers
  BY DEF GrantRequest
<1> DEFINE new == [ring |-> ring, cpu |-> c, bank |-> b, cmd |-> cmd, gone |-> 0]
<1>6. /\ new \in Transfer /\ new.ring = ring /\ new.cpu = c /\ new.bank = b
      /\ new.gone = 0
  BY <1>2 DEF Transfer
<1>7. transfers' = transfers \union {new}
  BY <1>3
<1>8. \A i \in 1 .. Hops(c, b) : RequestSlot(new, i) \in RequestLinks(ring, c, b)
  <2> SUFFICES ASSUME NEW i \in 1 .. Hops(c, b)
               PROVE  RequestSlot(new, i) \in RequestLinks(ring, c, b)
    OBVIOUS
  <2>1. Ahead(i) \in Nat
    BY <1>2, HopsIsNat, AheadIsNat
  <2>2. RequestSlot(new, i) =
            [ring |-> ring, link |-> Link(c, b, i), dir |-> Direction(c, b), at |-> Ahead(i)]
    BY <1>6, <2>1 DEF RequestSlot
  <2> QED
    BY <2>2 DEF RequestLinks
<1> HIDE DEF new, b, cmd
<1>9. ringLinkOccupied' \subseteq Reservation
  BY <1>2, <1>3, LinksAreReservations DEF LinkInv
<1>10. transfers' \subseteq Transfer /\ answers' \subseteq Answer
  BY <1>5, <1>6, <1>7 DEF LinkInv
<1>11. RequestsReserved'
  <2> SUFFICES ASSUME NEW t \in transfers', NEW i \in 1 .. Hops(t.cpu, t.bank),
                      Ahead(i) - t.gone >= 0
               PROVE  RequestSlot(t, i) \in ringLinkOccupied'
    BY DEF RequestsReserved, RequestSlot
  <2>1. CASE t = new
    BY <2>1, <1>3, <1>6, <1>8
  <2>2. CASE t \in transfers
    BY <2>2, <1>3 DEF LinkInv, RequestsReserved
  <2> QED
    BY <1>7, <2>1, <2>2
<1>12. AnswersReserved'
  BY <1>3, <1>5 DEF LinkInv, AnswersReserved, AnswerSlot
<1>13. RequestsNeverMeet'
  <2> SUFFICES ASSUME NEW t \in transfers', NEW u \in transfers', t.ring = u.ring,
                      Direction(t.cpu, t.bank) = Direction(u.cpu, u.bank),
                      NEW i \in 1 .. Hops(t.cpu, t.bank),
                      NEW j \in 1 .. Hops(u.cpu, u.bank),
                      Link(t.cpu, t.bank, i) = Link(u.cpu, u.bank, j),
                      Ahead(i) - t.gone = Ahead(j) - u.gone
               PROVE  t = u
    BY DEF RequestsNeverMeet
  <2>1. CASE t \in transfers /\ u \in transfers
    BY <2>1 DEF LinkInv, RequestsNeverMeet
  <2>2. CASE t = new /\ u \in transfers
    <3>1. Ahead(i) \in Nat /\ Ahead(i) - t.gone = Ahead(i)
      BY <2>2, <1>2, <1>6, HopsIsNat, AheadIsNat
    <3> QED
      BY <2>2, <3>1, <1>2, <1>4, <1>6, NewRequestMeetsNone
  <2>3. CASE u = new /\ t \in transfers
    <3>1. Ahead(j) \in Nat /\ Ahead(j) - u.gone = Ahead(j)
      BY <2>3, <1>2, <1>6, HopsIsNat, AheadIsNat
    <3> QED
      BY <2>3, <3>1, <1>2, <1>4, <1>6, NewRequestMeetsNone
  <2> QED
    BY <1>7, <2>1, <2>2, <2>3
<1>14. AnswersNeverMeet'
  BY <1>5 DEF LinkInv, AnswersNeverMeet
<1> QED
  BY <1>9, <1>10, <1>11, <1>12, <1>13, <1>14 DEF LinkInv

LEMMA GrantResponseKeepsLinks ==
    ASSUME LinkInv, QueueInv, NEW b \in Banks, GrantResponse(b)
    PROVE  LinkInv'
<1> DEFINE c == Head(ringResponseQueue[b]).cpu
<1>1. ringResponseQueue[b] # <<>>
  BY DEF GrantResponse, Turn
<1>2. c \in Cpus
  BY <1>1, HeadOfResponses
<1>3. PICK ring \in ResponseRings :
          /\ First(ring, RingsBack(b))
          /\ ringLinkOccupied' = ringLinkOccupied \union ResponseLinks(ring, c, b)
          /\ answers' = answers \union {[ring |-> ring, cpu |-> c, bank |-> b, gone |-> 0]}
  BY DEF GrantResponse
<1>4. ResponseLinks(ring, c, b) \intersect ringLinkOccupied = {}
  BY <1>3 DEF First, RingsBack
<1>5. transfers' = transfers
  BY DEF GrantResponse
<1> DEFINE new == [ring |-> ring, cpu |-> c, bank |-> b, gone |-> 0]
<1>6. /\ new \in Answer /\ new.ring = ring /\ new.cpu = c /\ new.bank = b
      /\ new.gone = 0
  BY <1>2 DEF Answer
<1>7. answers' = answers \union {new}
  BY <1>3
<1>8. \A i \in 1 .. Hops(c, b) : AnswerSlot(new, i) \in ResponseLinks(ring, c, b)
  <2> SUFFICES ASSUME NEW i \in 1 .. Hops(c, b)
               PROVE  AnswerSlot(new, i) \in ResponseLinks(ring, c, b)
    OBVIOUS
  <2>1. Ahead(i) \in Nat
    BY <1>2, HopsIsNat, AheadIsNat
  <2>2. AnswerSlot(new, i) =
            [ring |-> ring, link |-> LinkBack(c, b, i), dir |-> DirectionBack(c, b),
             at |-> Ahead(i)]
    BY <1>6, <2>1 DEF AnswerSlot
  <2> QED
    BY <2>2 DEF ResponseLinks
<1> HIDE DEF new, c
<1>9. ringLinkOccupied' \subseteq Reservation
  BY <1>2, <1>3, LinksAreReservations DEF LinkInv
<1>10. transfers' \subseteq Transfer /\ answers' \subseteq Answer
  BY <1>5, <1>6, <1>7 DEF LinkInv
<1>11. AnswersReserved'
  <2> SUFFICES ASSUME NEW t \in answers', NEW i \in 1 .. Hops(t.cpu, t.bank),
                      Ahead(i) - t.gone >= 0
               PROVE  AnswerSlot(t, i) \in ringLinkOccupied'
    BY DEF AnswersReserved, AnswerSlot
  <2>1. CASE t = new
    BY <2>1, <1>3, <1>6, <1>8
  <2>2. CASE t \in answers
    BY <2>2, <1>3 DEF LinkInv, AnswersReserved
  <2> QED
    BY <1>7, <2>1, <2>2
<1>12. RequestsReserved'
  BY <1>3, <1>5 DEF LinkInv, RequestsReserved, RequestSlot
<1>13. AnswersNeverMeet'
  <2> SUFFICES ASSUME NEW t \in answers', NEW u \in answers', t.ring = u.ring,
                      DirectionBack(t.cpu, t.bank) = DirectionBack(u.cpu, u.bank),
                      NEW i \in 1 .. Hops(t.cpu, t.bank),
                      NEW j \in 1 .. Hops(u.cpu, u.bank),
                      LinkBack(t.cpu, t.bank, i) = LinkBack(u.cpu, u.bank, j),
                      Ahead(i) - t.gone = Ahead(j) - u.gone
               PROVE  t = u
    BY DEF AnswersNeverMeet
  <2>1. CASE t \in answers /\ u \in answers
    BY <2>1 DEF LinkInv, AnswersNeverMeet
  <2>2. CASE t = new /\ u \in answers
    <3>1. Ahead(i) \in Nat /\ Ahead(i) - t.gone = Ahead(i)
      BY <2>2, <1>2, <1>6, HopsIsNat, AheadIsNat
    <3> QED
      BY <2>2, <3>1, <1>2, <1>4, <1>6, NewAnswerMeetsNone
  <2>3. CASE u = new /\ t \in answers
    <3>1. Ahead(j) \in Nat /\ Ahead(j) - u.gone = Ahead(j)
      BY <2>3, <1>2, <1>6, HopsIsNat, AheadIsNat
    <3> QED
      BY <2>3, <3>1, <1>2, <1>4, <1>6, NewAnswerMeetsNone
  <2> QED
    BY <1>7, <2>1, <2>2, <2>3
<1>14. RequestsNeverMeet'
  BY <1>5 DEF LinkInv, RequestsNeverMeet
<1> QED
  BY <1>9, <1>10, <1>11, <1>12, <1>13, <1>14 DEF LinkInv

\* Time passes for the transfers and for their reservations alike.
LEMMA MovedRequest ==
    ASSUME NEW T \in SUBSET Transfer, NEW m \in Moved(T)
    PROVE  /\ m \in Transfer
           /\ \E t \in T : /\ m = [t EXCEPT !.gone = @ + 1] /\ m.gone = t.gone + 1
                           /\ m.ring = t.ring /\ m.cpu = t.cpu /\ m.bank = t.bank
<1>1. PICK t \in T : m = [t EXCEPT !.gone = @ + 1]
  BY DEF Moved
<1>2. /\ m \in Transfer /\ m.gone = t.gone + 1 /\ m.ring = t.ring /\ m.cpu = t.cpu
      /\ m.bank = t.bank
  BY <1>1 DEF Transfer
<1> QED
  BY <1>1, <1>2

LEMMA MovedAnswer ==
    ASSUME NEW T \in SUBSET Answer, NEW m \in Moved(T)
    PROVE  /\ m \in Answer
           /\ \E t \in T : /\ m = [t EXCEPT !.gone = @ + 1] /\ m.gone = t.gone + 1
                           /\ m.ring = t.ring /\ m.cpu = t.cpu /\ m.bank = t.bank
<1>1. PICK t \in T : m = [t EXCEPT !.gone = @ + 1]
  BY DEF Moved
<1>2. /\ m \in Answer /\ m.gone = t.gone + 1 /\ m.ring = t.ring /\ m.cpu = t.cpu
      /\ m.bank = t.bank
  BY <1>1 DEF Answer
<1> QED
  BY <1>1, <1>2

\* A reservation still ahead is kept, one tick nearer.
LEMMA NearerReservation ==
    ASSUME NEW l \in ringLinkOccupied, NEW m, NEW a \in Int, ringLinkOccupied \subseteq Reservation,
           ringLinkOccupied' =
               {[k EXCEPT !.at = @ - 1] : k \in {n \in ringLinkOccupied : n.at > 0}},
           a >= 0, NEW r, NEW d, NEW k,
           l = [ring |-> r, link |-> k, dir |-> d, at |-> a + 1],
           m = [ring |-> r, link |-> k, dir |-> d, at |-> a]
    PROVE  m \in ringLinkOccupied'
<1>1. l.at > 0 /\ m = [l EXCEPT !.at = @ - 1]
  OBVIOUS
<1> QED
  BY <1>1

LEMMA AdvanceKeepsLinks ==
    ASSUME LinkInv, Advance
    PROVE  LinkInv'
<1>1. /\ ringLinkOccupied' =
             {[l EXCEPT !.at = @ - 1] : l \in {k \in ringLinkOccupied : k.at > 0}}
      /\ transfers' = Moved(transfers) /\ answers' = Moved(answers)
  BY DEF Advance
<1>2. /\ ringLinkOccupied \subseteq Reservation /\ transfers \subseteq Transfer
      /\ answers \subseteq Answer
  BY DEF LinkInv
<1>3. ringLinkOccupied' \subseteq Reservation
  <2> SUFFICES ASSUME NEW l \in ringLinkOccupied, l.at > 0
               PROVE  [l EXCEPT !.at = @ - 1] \in Reservation
    BY <1>1
  <2>1. l \in Reservation
    BY <1>2
  <2> QED
    BY <2>1 DEF Reservation
<1>4. transfers' \subseteq Transfer /\ answers' \subseteq Answer
  BY <1>1, <1>2, MovedRequest, MovedAnswer
<1>5. RequestsReserved'
  <2> SUFFICES ASSUME NEW m \in transfers', NEW i \in 1 .. Hops(m.cpu, m.bank),
                      Ahead(i) - m.gone >= 0
               PROVE  RequestSlot(m, i) \in ringLinkOccupied'
    BY DEF RequestsReserved, RequestSlot
  <2>1. PICK t \in transfers : /\ m.gone = t.gone + 1
                               /\ m.ring = t.ring /\ m.cpu = t.cpu /\ m.bank = t.bank
    BY <1>1, <1>2, MovedRequest
  <2>2. t.gone \in Nat /\ Ahead(i) \in Nat
    <3>1. t \in Transfer
      BY <1>2
    <3> QED
      BY <3>1, <2>1, HopsIsNat, AheadIsNat DEF Transfer
  <2>3. /\ Ahead(i) - t.gone >= 0 /\ Ahead(i) - m.gone \in Int
        /\ Ahead(i) - t.gone = (Ahead(i) - m.gone) + 1
    BY <2>1, <2>2
  <2>4. RequestSlot(t, i) \in ringLinkOccupied
    BY <2>1, <2>3 DEF LinkInv, RequestsReserved
  <2> DEFINE a == Ahead(i) - m.gone
             k == Link(t.cpu, t.bank, i)
             d == Direction(t.cpu, t.bank)
  <2>5. /\ RequestSlot(t, i) = [ring |-> t.ring, link |-> k, dir |-> d, at |-> a + 1]
        /\ RequestSlot(m, i) = [ring |-> t.ring, link |-> k, dir |-> d, at |-> a]
    BY <2>1, <2>3 DEF RequestSlot
  <2>6. a \in Int /\ a >= 0
    BY <2>3
  <2> HIDE DEF a, k, d
  <2> QED
    BY <1>1, <1>2, <2>4, <2>5, <2>6, NearerReservation
<1>6. AnswersReserved'
  <2> SUFFICES ASSUME NEW m \in answers', NEW i \in 1 .. Hops(m.cpu, m.bank),
                      Ahead(i) - m.gone >= 0
               PROVE  AnswerSlot(m, i) \in ringLinkOccupied'
    BY DEF AnswersReserved, AnswerSlot
  <2>1. PICK t \in answers : /\ m.gone = t.gone + 1
                             /\ m.ring = t.ring /\ m.cpu = t.cpu /\ m.bank = t.bank
    BY <1>1, <1>2, MovedAnswer
  <2>2. t.gone \in Nat /\ Ahead(i) \in Nat
    <3>1. t \in Answer
      BY <1>2
    <3> QED
      BY <3>1, <2>1, HopsIsNat, AheadIsNat DEF Answer
  <2>3. /\ Ahead(i) - t.gone >= 0 /\ Ahead(i) - m.gone \in Int
        /\ Ahead(i) - t.gone = (Ahead(i) - m.gone) + 1
    BY <2>1, <2>2
  <2>4. AnswerSlot(t, i) \in ringLinkOccupied
    BY <2>1, <2>3 DEF LinkInv, AnswersReserved
  <2> DEFINE a == Ahead(i) - m.gone
             k == LinkBack(t.cpu, t.bank, i)
             d == DirectionBack(t.cpu, t.bank)
  <2>5. /\ AnswerSlot(t, i) = [ring |-> t.ring, link |-> k, dir |-> d, at |-> a + 1]
        /\ AnswerSlot(m, i) = [ring |-> t.ring, link |-> k, dir |-> d, at |-> a]
    BY <2>1, <2>3 DEF AnswerSlot
  <2>6. a \in Int /\ a >= 0
    BY <2>3
  <2> HIDE DEF a, k, d
  <2> QED
    BY <1>1, <1>2, <2>4, <2>5, <2>6, NearerReservation
<1>7. RequestsNeverMeet'
  <2> SUFFICES ASSUME NEW t \in transfers', NEW u \in transfers', t.ring = u.ring,
                      Direction(t.cpu, t.bank) = Direction(u.cpu, u.bank),
                      NEW i \in 1 .. Hops(t.cpu, t.bank),
                      NEW j \in 1 .. Hops(u.cpu, u.bank),
                      Link(t.cpu, t.bank, i) = Link(u.cpu, u.bank, j),
                      Ahead(i) - t.gone = Ahead(j) - u.gone
               PROVE  t = u
    BY DEF RequestsNeverMeet
  <2>1. PICK t0 \in transfers : /\ t = [t0 EXCEPT !.gone = @ + 1] /\ t.gone = t0.gone + 1
                                /\ t.ring = t0.ring /\ t.cpu = t0.cpu /\ t.bank = t0.bank
    BY <1>1, <1>2, MovedRequest
  <2>2. PICK u0 \in transfers : /\ u = [u0 EXCEPT !.gone = @ + 1] /\ u.gone = u0.gone + 1
                                /\ u.ring = u0.ring /\ u.cpu = u0.cpu /\ u.bank = u0.bank
    BY <1>1, <1>2, MovedRequest
  <2>3. t0 \in Transfer /\ u0 \in Transfer
    BY <1>2
  <2>4. t0.gone \in Nat /\ u0.gone \in Nat /\ Ahead(i) \in Nat /\ Ahead(j) \in Nat
    BY <2>1, <2>2, <2>3, HopsIsNat, AheadIsNat DEF Transfer
  <2>5. Ahead(i) - t0.gone = Ahead(j) - u0.gone
    BY <2>1, <2>2, <2>4
  <2>6. t0 = u0
    BY <2>1, <2>2, <2>5 DEF LinkInv, RequestsNeverMeet
  <2> QED
    BY <2>1, <2>2, <2>6
<1>8. AnswersNeverMeet'
  <2> SUFFICES ASSUME NEW t \in answers', NEW u \in answers', t.ring = u.ring,
                      DirectionBack(t.cpu, t.bank) = DirectionBack(u.cpu, u.bank),
                      NEW i \in 1 .. Hops(t.cpu, t.bank),
                      NEW j \in 1 .. Hops(u.cpu, u.bank),
                      LinkBack(t.cpu, t.bank, i) = LinkBack(u.cpu, u.bank, j),
                      Ahead(i) - t.gone = Ahead(j) - u.gone
               PROVE  t = u
    BY DEF AnswersNeverMeet
  <2>1. PICK t0 \in answers : /\ t = [t0 EXCEPT !.gone = @ + 1] /\ t.gone = t0.gone + 1
                              /\ t.ring = t0.ring /\ t.cpu = t0.cpu /\ t.bank = t0.bank
    BY <1>1, <1>2, MovedAnswer
  <2>2. PICK u0 \in answers : /\ u = [u0 EXCEPT !.gone = @ + 1] /\ u.gone = u0.gone + 1
                              /\ u.ring = u0.ring /\ u.cpu = u0.cpu /\ u.bank = u0.bank
    BY <1>1, <1>2, MovedAnswer
  <2>3. t0 \in Answer /\ u0 \in Answer
    BY <1>2
  <2>4. t0.gone \in Nat /\ u0.gone \in Nat /\ Ahead(i) \in Nat /\ Ahead(j) \in Nat
    BY <2>1, <2>2, <2>3, HopsIsNat, AheadIsNat DEF Answer
  <2>5. Ahead(i) - t0.gone = Ahead(j) - u0.gone
    BY <2>1, <2>2, <2>4
  <2>6. t0 = u0
    BY <2>1, <2>2, <2>5 DEF LinkInv, AnswersNeverMeet
  <2> QED
    BY <2>1, <2>2, <2>6
<1> QED
  BY <1>3, <1>4, <1>5, <1>6, <1>7, <1>8 DEF LinkInv

-----------------------------------------------------------------------------
(* The banks.                                                              *)

To(b) == {t \in transfers : t.bank = b}

\* RecvBufferFits, of one bank.
BankFits(b) ==
    /\ inFlightRequests[b] <= recvBufferSize
    /\ inFlightRequests[b] = Len(deliverBuffer[b]) + Cardinality(To(b))
    /\ b \notin blockedInterfaces => deliverBuffer[b] = <<>>

LEMMA FitsByBank == RecvBufferFits <=> \A b \in Banks : BankFits(b)
BY DEF RecvBufferFits, BankFits, To

LEMMA BankUntouched ==
    ASSUME BankInv, UNCHANGED bankVars, UNCHANGED transfers
    PROVE  BankInv'
BY DEF BankInv, bankVars, RecvBufferFits

\* A step of bank b leaves the others alone.
OnlyBank(b) ==
    /\ \A a \in Banks \ {b} :
        /\ inFlightRequests'[a] = inFlightRequests[a]
        /\ deliverBuffer'[a] = deliverBuffer[a]
        /\ To(a)' = To(a)
        /\ a \in blockedInterfaces' <=> a \in blockedInterfaces
    /\ blockedInterfaces' \subseteq Banks

LEMMA OneBankSteps ==
    ASSUME BankInv, NEW b \in Banks, OnlyBank(b), BankFits(b)',
           inFlightRequests' \in [Banks -> Nat],
           deliverBuffer' \in [Banks -> Seq(Delivered)],
           serving' \in [Banks -> [Cpus -> Nat]], IsFiniteSet(transfers')
    PROVE  BankInv'
<1>1. \A a \in Banks : BankFits(a)
  BY FitsByBank DEF BankInv
<1>2. \A a \in Banks \ {b} : BankFits(a)'
  BY <1>1 DEF OnlyBank, BankFits
<1>3. \A a \in Banks : BankFits(a)'
  BY <1>2
<1>4. RecvBufferFits'
  BY <1>3 DEF RecvBufferFits, BankFits, To
<1> QED
  BY <1>4 DEF BankInv, OnlyBank

LEMMA BankFacts ==
    ASSUME BankInv, NEW b \in Banks
    PROVE  /\ inFlightRequests[b] \in Nat
           /\ deliverBuffer[b] \in Seq(Delivered) /\ Len(deliverBuffer[b]) \in Nat
           /\ IsFiniteSet(To(b)) /\ Cardinality(To(b)) \in Nat
           /\ BankFits(b)
<1>1. To(b) \in SUBSET transfers
  BY DEF To
<1>2. IsFiniteSet(To(b))
  BY <1>1, FS_Subset DEF BankInv
<1> QED
  BY <1>2, FS_CardinalityType, LenProperties, FitsByBank DEF BankInv

\* The reads that an access leaves for a bank to answer.
LEMMA AccessedType ==
    ASSUME BankInv, NEW b \in Banks, NEW s \in Seq(Delivered), Accessed(b, s)
    PROVE  serving' \in [Banks -> [Cpus -> Nat]]
<1> DEFINE reads(c) == {n \in DOMAIN s : s[n].cpu = c /\ s[n].cmd = Read}
<1>1. DOMAIN s = 1 .. Len(s) /\ Len(s) \in Nat
  BY LenProperties
<1>2. IsFiniteSet(DOMAIN s)
  BY <1>1, FS_Interval
<1>3. \A c \in Cpus : reads(c) \in SUBSET DOMAIN s
  OBVIOUS
<1>4. \A c \in Cpus : Cardinality(reads(c)) \in Nat
  BY <1>2, <1>3, FS_Subset, FS_CardinalityType
<1> DEFINE counts == [c \in Cpus |-> serving[b][c] + Cardinality(reads(c))]
<1>5. serving' = [serving EXCEPT ![b] = counts]
  BY DEF Accessed, Times
<1> HIDE DEF reads
<1>6. counts \in [Cpus -> Nat]
  BY <1>4 DEF BankInv
<1> HIDE DEF counts
<1> QED
  BY <1>5, <1>6 DEF BankInv

\* An access or the buffer takes one transfer.
LEMMA OneFewer ==
    ASSUME BankInv, NEW t \in transfers, t.bank \in Banks, transfers' = transfers \ {t}
    PROVE  /\ IsFiniteSet(transfers')
           /\ Cardinality(To(t.bank)') = Cardinality(To(t.bank)) - 1
           /\ Cardinality(To(t.bank)) >= 1
           /\ \A a \in Banks \ {t.bank} : To(a)' = To(a)
<1>1. To(t.bank)' = To(t.bank) \ {t} /\ t \in To(t.bank)
  BY DEF To
<1>2. IsFiniteSet(To(t.bank)) /\ Cardinality(To(t.bank)) \in Nat
  BY BankFacts
<1>3. Cardinality(To(t.bank)') = Cardinality(To(t.bank)) - 1
  BY <1>1, <1>2, FS_RemoveElement
<1>4. Cardinality(To(t.bank)') \in Nat
  BY <1>1, <1>2, FS_RemoveElement, FS_CardinalityType
<1>5. IsFiniteSet(transfers')
  BY FS_RemoveElement DEF BankInv
<1>6. \A a \in Banks \ {t.bank} : To(a)' = To(a)
  BY DEF To
<1> QED
  BY <1>2, <1>3, <1>4, <1>5, <1>6

LEMMA TransferTo ==
    ASSUME LinkInv, NEW t \in transfers
    PROVE  /\ t.bank \in Banks /\ t.cpu \in Cpus /\ t.gone \in Nat
           /\ AsDelivered(t) \in Delivered
<1>1. t \in Transfer
  BY DEF LinkInv
<1> QED
  BY <1>1 DEF Transfer, AsDelivered, Delivered

LEMMA DeliverToBankKeepsBanks ==
    ASSUME LinkInv, BankInv, NEW t \in transfers, DeliverToBank(t)
    PROVE  BankInv'
<1> DEFINE b == t.bank
<1>1. b \in Banks /\ AsDelivered(t) \in Delivered
  BY TransferTo
<1>2. /\ b \notin blockedInterfaces /\ deliverBuffer[b] = <<>>
      /\ transfers' = transfers \ {t}
      /\ Accessed(b, <<AsDelivered(t)>>)
      /\ inFlightRequests' = [inFlightRequests EXCEPT ![b] = @ - 1]
      /\ blockedInterfaces' \in {blockedInterfaces, blockedInterfaces \union {b}}
      /\ deliverBuffer' = deliverBuffer
  BY DEF DeliverToBank
<1> HIDE DEF b
<1>3. serving' \in [Banks -> [Cpus -> Nat]]
  <2>1. <<AsDelivered(t)>> \in Seq(Delivered)
    BY <1>1
  <2> QED
    BY <1>1, <1>2, <2>1, AccessedType
<1>4. /\ IsFiniteSet(transfers') /\ Cardinality(To(b)') = Cardinality(To(b)) - 1
      /\ Cardinality(To(b)) >= 1 /\ \A a \in Banks \ {b} : To(a)' = To(a)
  BY <1>1, <1>2, OneFewer DEF b
<1>5. /\ inFlightRequests[b] \in Nat /\ Len(deliverBuffer[b]) \in Nat
      /\ Cardinality(To(b)) \in Nat /\ inFlightRequests[b] <= recvBufferSize
      /\ inFlightRequests[b] = Len(deliverBuffer[b]) + Cardinality(To(b))
  BY <1>1, BankFacts DEF BankFits
<1>6. /\ inFlightRequests'[b] = inFlightRequests[b] - 1 /\ inFlightRequests[b] - 1 \in Nat
      /\ inFlightRequests' \in [Banks -> Nat]
      /\ \A a \in Banks \ {b} : inFlightRequests'[a] = inFlightRequests[a]
  <2>1. inFlightRequests[b] - 1 \in Nat
    BY <1>4, <1>5
  <2> QED
    BY <1>1, <1>2, <2>1 DEF BankInv
<1>7. BankFits(b)'
  <2> DEFINE f == inFlightRequests[b]
             n == Len(deliverBuffer[b])
             k == Cardinality(To(b))
             k2 == Cardinality(To(b)')
  <2>1. f \in Nat /\ n \in Nat /\ k \in Nat /\ k2 = k - 1 /\ f = n + k /\ f <= recvBufferSize
    BY <1>4, <1>5
  <2>2. inFlightRequests'[b] = f - 1 /\ Len(deliverBuffer'[b]) = n
    BY <1>2, <1>6
  <2> HIDE DEF f, n, k, k2
  <2>3. f - 1 = n + k2 /\ f - 1 <= recvBufferSize
    BY <2>1, Sizes
  <2>4. b \notin blockedInterfaces' => deliverBuffer'[b] = <<>>
    BY <1>2
  <2> QED
    BY <2>2, <2>3, <2>4 DEF BankFits, k2
<1>8. OnlyBank(b)
  BY <1>1, <1>2, <1>4, <1>6 DEF OnlyBank, BankInv
<1>9. deliverBuffer' \in [Banks -> Seq(Delivered)]
  BY <1>2 DEF BankInv
<1> QED
  BY <1>1, <1>3, <1>4, <1>6, <1>7, <1>8, <1>9, OneBankSteps

LEMMA DeliverToBufferKeepsBanks ==
    ASSUME LinkInv, BankInv, NEW t \in transfers, DeliverToBuffer(t)
    PROVE  BankInv'
<1> DEFINE b == t.bank
<1>1. b \in Banks /\ AsDelivered(t) \in Delivered
  BY TransferTo
<1>2. /\ b \in blockedInterfaces \/ deliverBuffer[b] # <<>>
      /\ transfers' = transfers \ {t}
      /\ deliverBuffer' = [deliverBuffer EXCEPT ![b] = Append(@, AsDelivered(t))]
      /\ UNCHANGED <<inFlightRequests, blockedInterfaces, serving>>
  BY DEF DeliverToBuffer
<1> HIDE DEF b
<1>3. /\ IsFiniteSet(transfers') /\ Cardinality(To(b)') = Cardinality(To(b)) - 1
      /\ Cardinality(To(b)) >= 1 /\ \A a \in Banks \ {b} : To(a)' = To(a)
  BY <1>1, <1>2, OneFewer DEF b
<1>4. /\ inFlightRequests[b] \in Nat /\ Len(deliverBuffer[b]) \in Nat
      /\ deliverBuffer[b] \in Seq(Delivered)
      /\ Cardinality(To(b)) \in Nat /\ inFlightRequests[b] <= recvBufferSize
      /\ inFlightRequests[b] = Len(deliverBuffer[b]) + Cardinality(To(b))
      /\ b \notin blockedInterfaces => deliverBuffer[b] = <<>>
  BY <1>1, BankFacts DEF BankFits
<1>5. /\ Append(deliverBuffer[b], AsDelivered(t)) \in Seq(Delivered)
      /\ Len(Append(deliverBuffer[b], AsDelivered(t))) = Len(deliverBuffer[b]) + 1
  BY <1>1, <1>4, AppendProperties
<1>6. /\ deliverBuffer'[b] = Append(deliverBuffer[b], AsDelivered(t))
      /\ deliverBuffer' \in [Banks -> Seq(Delivered)]
      /\ \A a \in Banks \ {b} : deliverBuffer'[a] = deliverBuffer[a]
  BY <1>1, <1>2, <1>5 DEF BankInv
<1>7. BankFits(b)'
  <2> DEFINE f == inFlightRequests[b]
             n == Len(deliverBuffer[b])
             n2 == Len(deliverBuffer'[b])
             k == Cardinality(To(b))
             k2 == Cardinality(To(b)')
  <2>1. n \in Nat /\ k \in Nat /\ k2 = k - 1 /\ n2 = n + 1 /\ f = n + k
    BY <1>3, <1>4, <1>5, <1>6
  <2> HIDE DEF f, n, n2, k, k2
  <2>2. f = n2 + k2
    BY <2>1
  <2>3. inFlightRequests'[b] = f /\ inFlightRequests'[b] <= recvBufferSize
    BY <1>2, <1>4 DEF f
  <2>4. b \in blockedInterfaces'
    BY <1>2, <1>4
  <2> QED
    BY <2>2, <2>3, <2>4 DEF BankFits, k2, n2
<1>8. OnlyBank(b)
  BY <1>1, <1>2, <1>3, <1>6 DEF OnlyBank, BankInv
<1>9. inFlightRequests' \in [Banks -> Nat] /\ serving' \in [Banks -> [Cpus -> Nat]]
  BY <1>2 DEF BankInv
<1> QED
  BY <1>1, <1>3, <1>6, <1>7, <1>8, <1>9, OneBankSteps

LEMMA BankUnblocksKeepsBanks ==
    ASSUME BankInv, NEW b \in Banks, BankUnblocks(b)
    PROVE  BankInv'
<1> DEFINE s == deliverBuffer[b]
<1>1. PICK n \in 0 .. Len(s), again \in BOOLEAN :
        /\ IF again THEN n > 0 ELSE n = Len(s)
        /\ Accessed(b, SubSeq(s, 1, n))
        /\ deliverBuffer' = [deliverBuffer EXCEPT ![b] = SubSeq(@, n + 1, Len(@))]
        /\ inFlightRequests' = [inFlightRequests EXCEPT ![b] = @ - n]
        /\ blockedInterfaces' = IF again THEN blockedInterfaces
                                ELSE blockedInterfaces \ {b}
  BY DEF BankUnblocks
<1>2. b \in blockedInterfaces /\ transfers' = transfers
  BY DEF BankUnblocks, linkVars
<1> DEFINE left == SubSeq(s, n + 1, Len(s))
<1>3. /\ inFlightRequests[b] \in Nat /\ Len(s) \in Nat /\ s \in Seq(Delivered)
      /\ Cardinality(To(b)) \in Nat /\ inFlightRequests[b] <= recvBufferSize
      /\ inFlightRequests[b] = Len(s) + Cardinality(To(b))
      /\ n \in Nat /\ n <= Len(s)
  BY BankFacts DEF BankFits
<1>4. SubSeq(s, 1, n) \in Seq(Delivered)
  <2>1. \A j \in 1 .. n : s[j] \in Delivered
    BY <1>3, ElementOfSeq
  <2> QED
    BY <1>3, <2>1, SubSeqProperties
<1>5. /\ left \in Seq(Delivered) /\ Len(left) = Len(s) - n
      /\ n = Len(s) => left = <<>>
  <2>1. \A j \in n + 1 .. Len(s) : s[j] \in Delivered
    BY <1>3, ElementOfSeq
  <2>2. left \in Seq(Delivered) /\ Len(left) = IF n + 1 <= Len(s) THEN Len(s) - (n + 1) + 1 ELSE 0
    BY <1>3, <2>1, SubSeqProperties
  <2>3. Len(left) = Len(s) - n
    BY <1>3, <2>2
  <2> QED
    BY <2>2, <2>3, <1>3, EmptySeq
<1> HIDE DEF left
<1>6. serving' \in [Banks -> [Cpus -> Nat]]
  BY <1>1, <1>4, AccessedType
<1>7. /\ inFlightRequests[b] - n \in Nat /\ inFlightRequests[b] - n <= recvBufferSize
      /\ inFlightRequests[b] - n = Len(left) + Cardinality(To(b))
  <2> DEFINE f == inFlightRequests[b]
             q == Len(s)
             l == Len(left)
             k == Cardinality(To(b))
  <2>1. f \in Nat /\ q \in Nat /\ k \in Nat /\ n \in Nat /\ n <= q /\ l = q - n
        /\ f = q + k /\ f <= recvBufferSize /\ recvBufferSize \in Nat
    BY <1>3, <1>5, Sizes
  <2> HIDE DEF f, q, l, k
  <2>2. f - n \in Nat /\ f - n <= recvBufferSize /\ f - n = l + k
    BY <2>1
  <2> QED
    BY <2>2 DEF f, l, k
<1>8. /\ deliverBuffer'[b] = left /\ inFlightRequests'[b] = inFlightRequests[b] - n
      /\ \A a \in Banks \ {b} : /\ deliverBuffer'[a] = deliverBuffer[a]
                                /\ inFlightRequests'[a] = inFlightRequests[a]
      /\ deliverBuffer' \in [Banks -> Seq(Delivered)] /\ inFlightRequests' \in [Banks -> Nat]
  BY <1>1, <1>5, <1>7 DEF BankInv, left
<1>9. To(b)' = To(b) /\ \A a \in Banks : To(a)' = To(a)
  BY <1>2 DEF To
<1>10. b \notin blockedInterfaces' => deliverBuffer'[b] = <<>>
  BY <1>1, <1>2, <1>5, <1>8
<1>11. BankFits(b)'
  BY <1>7, <1>8, <1>9, <1>10 DEF BankFits
<1>12. OnlyBank(b)
  BY <1>1, <1>8, <1>9 DEF OnlyBank, BankInv
<1>13. IsFiniteSet(transfers')
  BY <1>2 DEF BankInv
<1> QED
  BY <1>6, <1>8, <1>11, <1>12, <1>13, OneBankSteps

LEMMA BankBlocksKeepsBanks ==
    ASSUME BankInv, NEW b \in Banks, BankBlocks(b)
    PROVE  BankInv'
BY DEF BankInv, BankBlocks, RecvBufferFits, linkVars

LEMMA SendResponseKeepsBanks ==
    ASSUME BankInv, NEW b \in Banks, NEW c \in Cpus, SendResponse(b, c)
    PROVE  BankInv'
<1>1. /\ serving' = [serving EXCEPT ![b][c] = @ - 1] /\ serving[b][c] > 0
      /\ UNCHANGED <<linkVars, inFlightRequests, blockedInterfaces, deliverBuffer>>
  BY DEF SendResponse
<1>2. serving' \in [Banks -> [Cpus -> Nat]]
  BY <1>1 DEF BankInv
<1> QED
  BY <1>1, <1>2 DEF BankInv, RecvBufferFits, linkVars

\* The granted transfer is a new one, and its bank had room for it.
LEMMA GrantRequestKeepsBanks ==
    ASSUME QueueInv, LinkInv, BankInv, ArbInv, NEW c \in Cpus, GrantRequest(c)
    PROVE  BankInv'
<1>1. /\ ringRequestQueue[c] # <<>> /\ phase = Requests /\ c \notin tried
  BY DEF GrantRequest, Turn
<1>2. PICK b \in Banks : b = Head(ringRequestQueue[c]).bank
  BY <1>1, HeadOfRequests
<1> DEFINE cmd == Head(ringRequestQueue[c]).cmd
<1>3. PICK ring \in RequestRings :
          /\ First(ring, RingsFor(c))
          /\ transfers' = transfers \union
                 {[ring |-> ring, cpu |-> c, bank |-> b, cmd |-> cmd, gone |-> 0]}
          /\ inFlightRequests' = [inFlightRequests EXCEPT ![b] = @ + 1]
  BY <1>2 DEF GrantRequest
<1>4. inFlightRequests[b] # recvBufferSize
  BY <1>2, <1>3 DEF First, RingsFor
<1>5. UNCHANGED <<blockedInterfaces, deliverBuffer, serving>>
  BY DEF GrantRequest
<1> DEFINE new == [ring |-> ring, cpu |-> c, bank |-> b, cmd |-> cmd, gone |-> 0]
<1>6. new.cpu = c /\ new.bank = b /\ new.gone = 0 /\ transfers' = transfers \union {new}
  BY <1>3
<1> HIDE DEF new, cmd
<1>7. new \notin transfers
  BY <1>1, <1>6 DEF ArbInv, Fresh
<1>8. To(b)' = To(b) \union {new} /\ new \notin To(b)
  BY <1>6, <1>7 DEF To
<1>9. \A a \in Banks \ {b} : To(a)' = To(a)
  BY <1>6 DEF To
<1>10. /\ inFlightRequests[b] \in Nat /\ Len(deliverBuffer[b]) \in Nat
       /\ IsFiniteSet(To(b)) /\ Cardinality(To(b)) \in Nat
       /\ inFlightRequests[b] <= recvBufferSize
       /\ inFlightRequests[b] = Len(deliverBuffer[b]) + Cardinality(To(b))
       /\ b \notin blockedInterfaces => deliverBuffer[b] = <<>>
  BY <1>2, BankFacts DEF BankFits
<1>11. Cardinality(To(b)') = Cardinality(To(b)) + 1
  BY <1>8, <1>10, FS_AddElement
<1>12. IsFiniteSet(transfers')
  BY <1>6, FS_AddElement DEF BankInv
<1>13. /\ inFlightRequests'[b] = inFlightRequests[b] + 1
       /\ inFlightRequests' \in [Banks -> Nat]
       /\ \A a \in Banks \ {b} : inFlightRequests'[a] = inFlightRequests[a]
  BY <1>2, <1>3 DEF BankInv
<1>14. BankFits(b)'
  <2> DEFINE f == inFlightRequests[b]
             n == Len(deliverBuffer[b])
             k == Cardinality(To(b))
             k2 == Cardinality(To(b)')
  <2>1. f \in Nat /\ n \in Nat /\ k \in Nat /\ k2 = k + 1 /\ f = n + k
        /\ f <= recvBufferSize /\ f # recvBufferSize
    BY <1>4, <1>10, <1>11
  <2>2. inFlightRequests'[b] = f + 1 /\ Len(deliverBuffer'[b]) = n
    BY <1>5, <1>13
  <2> HIDE DEF f, n, k, k2
  <2>3. f + 1 = n + k2 /\ f + 1 <= recvBufferSize
    BY <2>1, Sizes
  <2>4. b \notin blockedInterfaces' => deliverBuffer'[b] = <<>>
    BY <1>5, <1>10
  <2> QED
    BY <2>2, <2>3, <2>4 DEF BankFits, k2
<1>15. OnlyBank(b)
  BY <1>5, <1>9, <1>13 DEF OnlyBank, BankInv
<1>16. deliverBuffer' \in [Banks -> Seq(Delivered)] /\ serving' \in [Banks -> [Cpus -> Nat]]
  BY <1>5 DEF BankInv
<1> QED
  BY <1>2, <1>12, <1>13, <1>14, <1>15, <1>16, OneBankSteps

\* Moving on does not change how many transfers there are.
LEMMA MovedCount ==
    ASSUME NEW T \in SUBSET Transfer, IsFiniteSet(T)
    PROVE  IsFiniteSet(Moved(T)) /\ Cardinality(Moved(T)) = Cardinality(T)
<1> DEFINE f == [t \in T |-> [t EXCEPT !.gone = @ + 1]]
<1>1. f \in [T -> Moved(T)]
  BY DEF Moved
<1>2. \A m \in Moved(T) : \E t \in T : f[t] = m
  BY DEF Moved
<1>3. ASSUME NEW t \in T, NEW u \in T, f[t] = f[u] PROVE t = u
  <2>1. t \in Transfer /\ u \in Transfer
    OBVIOUS
  <2>2. [t EXCEPT !.gone = @ + 1] = [u EXCEPT !.gone = @ + 1]
    BY <1>3
  <2>3. t.ring = u.ring /\ t.cpu = u.cpu /\ t.bank = u.bank /\ t.cmd = u.cmd
        /\ t.gone + 1 = u.gone + 1 /\ t.gone \in Nat /\ u.gone \in Nat
    BY <2>1, <2>2 DEF Transfer
  <2>4. t.gone = u.gone
    BY <2>3
  <2> QED
    BY <2>1, <2>3, <2>4 DEF Transfer
<1> HIDE DEF f
<1>4. f \in Bijection(T, Moved(T))
  BY <1>1, <1>2, <1>3 DEF Bijection, Injection, Surjection, IsInjective
<1>5. ExistsBijection(T, Moved(T))
  BY <1>4 DEF ExistsBijection
<1> QED
  BY <1>5, FS_Bijection

LEMMA AdvanceKeepsBanks ==
    ASSUME LinkInv, BankInv, Advance
    PROVE  BankInv'
<1>1. transfers' = Moved(transfers) /\ UNCHANGED bankVars /\ transfers \subseteq Transfer
  BY DEF Advance, LinkInv
<1>2. IsFiniteSet(transfers')
  BY <1>1, MovedCount DEF BankInv
<1>3. ASSUME NEW b \in Banks PROVE Cardinality(To(b)') = Cardinality(To(b))
  <2>1. To(b) \in SUBSET Transfer /\ IsFiniteSet(To(b))
    BY <1>1, BankFacts DEF To
  <2>2. To(b)' \subseteq Moved(To(b))
    <3> SUFFICES ASSUME NEW m \in Moved(transfers), m.bank = b PROVE m \in Moved(To(b))
      BY <1>1 DEF To
    <3>1. PICK t \in transfers : m = [t EXCEPT !.gone = @ + 1] /\ m.bank = t.bank
      BY <1>1, MovedRequest
    <3> QED
      BY <3>1 DEF To, Moved
  <2>3. Moved(To(b)) \subseteq To(b)'
    <3> SUFFICES ASSUME NEW m \in Moved(To(b)) PROVE m \in Moved(transfers) /\ m.bank = b
      BY <1>1 DEF To
    <3>1. PICK t \in To(b) : m = [t EXCEPT !.gone = @ + 1] /\ m.bank = t.bank
      BY <2>1, MovedRequest
    <3> QED
      BY <3>1 DEF To, Moved
  <2>4. To(b)' = Moved(To(b))
    BY <2>2, <2>3
  <2> QED
    BY <2>1, <2>4, MovedCount
<1>4. \A b \in Banks : BankFits(b)'
  BY <1>1, <1>3, FitsByBank DEF BankFits, BankInv, bankVars
<1>5. RecvBufferFits'
  BY <1>4 DEF RecvBufferFits, BankFits, To
<1> QED
  BY <1>1, <1>2, <1>5 DEF BankInv, bankVars

-----------------------------------------------------------------------------
(* The queues.                                                             *)

LEMMA QueueUntouched ==
    ASSUME QueueInv, UNCHANGED queueVars
    PROVE  QueueInv'
BY DEF QueueInv, queueVars

LEMMA SendRequestKeepsQueues ==
    ASSUME QueueInv, NEW c \in Cpus, NEW b \in Banks, NEW cmd \in {Read, Writeback},
           SendRequest(c, b, cmd)
    PROVE  QueueInv'
<1> DEFINE e == [bank |-> b, cmd |-> cmd, age |-> 0]
<1>1. e \in Entry
  BY DEF Entry
<1>2. /\ ringRequestQueue' = [ringRequestQueue EXCEPT ![c] = Append(@, e)]
      /\ blockedLocalQueues' \subseteq blockedLocalQueues \union {c}
      /\ ringResponseQueue' = ringResponseQueue
  BY DEF SendRequest
<1> HIDE DEF e
<1>3. Append(ringRequestQueue[c], e) \in Seq(Entry)
  BY <1>1, AppendProperties DEF QueueInv
<1> QED
  BY <1>2, <1>3 DEF QueueInv

LEMMA SendResponseKeepsQueues ==
    ASSUME QueueInv, NEW c \in Cpus, NEW b \in Banks, SendResponse(b, c)
    PROVE  QueueInv'
<1> DEFINE r == [cpu |-> c, age |-> 0]
<1>1. r \in Response
  BY DEF Response
<1>2. /\ ringResponseQueue' = [ringResponseQueue EXCEPT ![b] = Append(@, r)]
      /\ UNCHANGED <<ringRequestQueue, blockedLocalQueues>>
  BY DEF SendResponse
<1> HIDE DEF r
<1>3. Append(ringResponseQueue[b], r) \in Seq(Response)
  BY <1>1, AppendProperties DEF QueueInv
<1> QED
  BY <1>2, <1>3 DEF QueueInv

LEMMA GrantRequestKeepsQueues ==
    ASSUME QueueInv, NEW c \in Cpus, GrantRequest(c)
    PROVE  QueueInv'
<1>1. /\ ringRequestQueue[c] # <<>>
      /\ ringRequestQueue' = [ringRequestQueue EXCEPT ![c] = Tail(@)]
      /\ UNCHANGED <<blockedLocalQueues, ringResponseQueue>>
  BY DEF GrantRequest, Turn
<1>2. Tail(ringRequestQueue[c]) \in Seq(Entry)
  BY <1>1, HeadTailProperties DEF QueueInv
<1> QED
  BY <1>1, <1>2 DEF QueueInv

LEMMA GrantResponseKeepsQueues ==
    ASSUME QueueInv, NEW b \in Banks, GrantResponse(b)
    PROVE  QueueInv'
<1>1. /\ ringResponseQueue[b] # <<>>
      /\ ringResponseQueue' = [ringResponseQueue EXCEPT ![b] = Tail(@)]
      /\ UNCHANGED <<blockedLocalQueues, ringRequestQueue>>
  BY DEF GrantResponse, Turn
<1>2. Tail(ringResponseQueue[b]) \in Seq(Response)
  BY <1>1, HeadTailProperties DEF QueueInv
<1> QED
  BY <1>1, <1>2 DEF QueueInv

\* The queues of both directions, when time passes.
Ageable(E) == \A e \in E : e.age \in Nat /\ \A n \in Nat : [e EXCEPT !.age = n] \in E

LEMMA AgeableQueues == Ageable(Entry) /\ Ageable(Response)
BY DEF Ageable, Entry, Response

LEMMA AgedKeeps ==
    ASSUME NEW E, Ageable(E), NEW Q, NEW queues \in [Q -> Seq(E)]
    PROVE  Aged(queues) \in [Q -> Seq(E)]
<1> DEFINE rank(e) == 1 + Cardinality({a \in Ages(queues) : a < e.age})
<1>1. \A q \in Q : queues[q] \in Seq(E) /\ DOMAIN queues[q] = 1 .. Len(queues[q]) /\ Len(queues[q]) \in Nat
  BY LenProperties
<1>2. \A q \in Q : \A n \in 1 .. Len(queues[q]) : queues[q][n] \in E
  BY <1>1, ElementOfSeq
<1>3. Ages(queues) \subseteq Nat
  <2>1. \A q \in Q : Range(queues[q]) \subseteq E
    BY <1>1, <1>2 DEF Range
  <2> QED
    BY <2>1 DEF Ages, Ageable
<1>4. ASSUME NEW e \in E PROVE rank(e) \in Nat
  <2> DEFINE A == {a \in Ages(queues) : a < e.age}
  <2>1. e.age \in Nat
    BY DEF Ageable
  <2>2. A \in SUBSET (0 .. e.age)
    BY <1>3, <2>1
  <2>3. IsFiniteSet(0 .. e.age)
    BY <2>1, FS_Interval
  <2> HIDE DEF A
  <2>4. Cardinality(A) \in Nat
    BY <2>2, <2>3, FS_Subset, FS_CardinalityType
  <2>5. 1 + Cardinality(A) \in Nat
    BY <2>4
  <2> QED
    BY <2>5 DEF A
<1> HIDE DEF rank
<1>5. Aged(queues) = [q \in Q |-> [n \in DOMAIN queues[q] |->
                         [queues[q][n] EXCEPT !.age = rank(queues[q][n])]]]
  BY DEF Aged, rank
<1> HIDE DEF Aged
<1>6. ASSUME NEW q \in Q PROVE Aged(queues)[q] \in Seq(E)
  <2> DEFINE s == queues[q]
             k == Len(queues[q])
  <2>1. k \in Nat /\ DOMAIN s = 1 .. k /\ \A n \in 1 .. k : s[n] \in E
    BY <1>1, <1>2
  <2>2. Aged(queues)[q] = [n \in DOMAIN s |-> [s[n] EXCEPT !.age = rank(s[n])]]
    BY <1>5
  <2> HIDE DEF s, k
  <2>3. \A n \in 1 .. k : [s[n] EXCEPT !.age = rank(s[n])] \in E
    BY <1>4, <2>1 DEF Ageable
  <2>4. Aged(queues)[q] \in [1 .. k -> E]
    BY <2>1, <2>2, <2>3
  <2> QED
    BY <2>1, <2>4
<1> QED
  BY <1>5, <1>6

LEMMA AgedKeepsQueues ==
    ASSUME QueueInv, blockedLocalQueues' = blockedLocalQueues,
           ringRequestQueue' = Aged(ringRequestQueue),
           ringResponseQueue' = Aged(ringResponseQueue)
    PROVE  QueueInv'
<1>1. ringRequestQueue' \in [Cpus -> Seq(Entry)]
  BY AgedKeeps, AgeableQueues DEF QueueInv
<1>2. ringResponseQueue' \in [Banks -> Seq(Response)]
  BY AgedKeeps, AgeableQueues DEF QueueInv
<1> QED
  BY <1>1, <1>2 DEF QueueInv

-----------------------------------------------------------------------------
(* The arbitration.                                                        *)

\* The fewer transfers, and the sooner no arbitration comes, the better.
LEMMA ArbUntouched ==
    ASSUME ArbInv, UNCHANGED arbVars, transfers' \subseteq transfers
    PROVE  ArbInv'
BY DEF ArbInv, Fresh, arbVars

LEMMA ArbScheduled ==
    ASSUME ArbInv, phase = Off, arbEvent' = WithArbEvent,
           UNCHANGED <<phase, tried, transfers>>
    PROVE  ArbInv'
BY RingAssumption DEF ArbInv, Fresh, WithArbEvent

LEMMA StartArbitrationKeepsArb ==
    ASSUME ArbInv, StartArbitration
    PROVE  ArbInv'
BY RingAssumption DEF ArbInv, Fresh, StartArbitration, linkVars

LEMMA GrantRequestKeepsArb ==
    ASSUME QueueInv, ArbInv, NEW c \in Cpus, GrantRequest(c)
    PROVE  ArbInv'
<1> DEFINE b == Head(ringRequestQueue[c]).bank
           cmd == Head(ringRequestQueue[c]).cmd
<1>1. PICK ring \in RequestRings :
          transfers' = transfers \union
                 {[ring |-> ring, cpu |-> c, bank |-> b, cmd |-> cmd, gone |-> 0]}
  BY DEF GrantRequest
<1>2. /\ phase = Requests /\ tried' = tried \union {c}
      /\ UNCHANGED <<arbEvent, phase>>
  BY DEF GrantRequest
<1> HIDE DEF b, cmd
<1>3. \A t \in transfers' : t \in transfers \/ t.cpu = c
  BY <1>1
<1>4. \A t \in transfers' : t.gone = 0 => t.cpu \in tried'
  BY <1>2, <1>3 DEF ArbInv, Fresh
<1>5. arbEvent' = Idle
  BY <1>2, RingAssumption DEF ArbInv, Fresh
<1> QED
  BY <1>2, <1>4, <1>5, RingAssumption DEF ArbInv, Fresh

LEMMA GrantResponseKeepsArb ==
    ASSUME ArbInv, NEW b \in Banks, GrantResponse(b)
    PROVE  ArbInv'
BY RingAssumption DEF ArbInv, Fresh, GrantResponse

LEMMA RequestsServedKeepsArb ==
    ASSUME ArbInv, RequestsServed
    PROVE  ArbInv'
BY RingAssumption DEF ArbInv, Fresh, RequestsServed, linkVars

LEMMA ResponsesServedKeepsArb ==
    ASSUME ArbInv, ResponsesServed
    PROVE  ArbInv'
BY RingAssumption DEF ArbInv, Fresh, ResponsesServed, WithArbEvent, linkVars

LEMMA AdvanceKeepsArb ==
    ASSUME LinkInv, ArbInv, Advance
    PROVE  ArbInv'
<1>1. /\ transfers' = Moved(transfers) /\ transfers \subseteq Transfer /\ phase = Off
      /\ arbEvent' \in {arbEvent, Due} /\ arbEvent # Due /\ UNCHANGED <<phase, tried>>
  BY DEF Advance, LinkInv, NothingDue
<1>2. \A m \in transfers' : m.gone > 0
  <2> SUFFICES ASSUME NEW m \in Moved(transfers) PROVE m.gone > 0
    BY <1>1
  <2>1. PICK t \in transfers : m.gone = t.gone + 1
    BY <1>1, MovedRequest
  <2>2. t.gone \in Nat
    BY <1>1 DEF Transfer
  <2> QED
    BY <2>1, <2>2
<1> QED
  BY <1>1, <1>2, RingAssumption DEF ArbInv, Fresh

-----------------------------------------------------------------------------
(* Every behaviour satisfies the invariant.                                *)

LEMMA InitEstablishes == Init => IInv
<1> SUFFICES ASSUME Init PROVE IInv
  OBVIOUS
<1>1. \A E : <<>> \in Seq(E)
  BY EmptySeq
<1>2. QueueInv
  BY <1>1 DEF Init, QueueInv
<1>3. LinkInv
  BY DEF Init, LinkInv, RequestsReserved, AnswersReserved, RequestsNeverMeet,
     AnswersNeverMeet
<1>4. BankInv
  <2>1. IsFiniteSet({}) /\ Cardinality({}) = 0
    BY FS_EmptySet
  <2>2. Len(<<>>) = 0
    OBVIOUS
  <2>3. \A b \in Banks : To(b) = {}
    BY DEF Init, To
  <2>4. ASSUME NEW b \in Banks PROVE BankFits(b)
    <3>1. inFlightRequests[b] = 0 /\ deliverBuffer[b] = <<>>
      BY DEF Init
    <3>2. Len(deliverBuffer[b]) = 0 /\ Cardinality(To(b)) = 0
      BY <2>1, <2>2, <2>3, <3>1
    <3> QED
      BY <3>1, <3>2, Sizes DEF BankFits
  <2> QED
    BY <1>1, <2>1, <2>4, FitsByBank DEF Init, BankInv
<1>5. ArbInv
  BY RingAssumption DEF Init, ArbInv, Fresh
<1> QED
  BY <1>2, <1>3, <1>4, <1>5 DEF IInv

LEMMA NextPreserves == IInv /\ [Next]_vars => IInv'
<1> SUFFICES ASSUME IInv, [Next]_vars PROVE IInv'
  OBVIOUS
<1> USE DEF IInv
<1>1. ASSUME NEW c \in Cpus, NEW b \in Banks, NEW cmd \in {Read, Writeback},
             SendRequest(c, b, cmd)
      PROVE  IInv'
  <2>1. phase = Off /\ arbEvent' = WithArbEvent
        /\ UNCHANGED <<linkVars, bankVars, phase, tried>>
    BY <1>1 DEF SendRequest
  <2> QED
    BY <1>1, <2>1, SendRequestKeepsQueues, LinkUntouched, BankUntouched, ArbScheduled
       DEF linkVars
<1>2. ASSUME NEW c \in Cpus, NEW b \in Banks, SendResponse(b, c)
      PROVE  IInv'
  <2>1. phase = Off /\ arbEvent' = WithArbEvent
        /\ UNCHANGED <<linkVars, phase, tried>>
    BY <1>2 DEF SendResponse
  <2> QED
    BY <1>2, <2>1, SendResponseKeepsQueues, LinkUntouched, SendResponseKeepsBanks,
       ArbScheduled DEF linkVars
<1>3. CASE StartArbitration
  <2>1. UNCHANGED <<queueVars, linkVars, bankVars>>
    BY <1>3 DEF StartArbitration
  <2> QED
    BY <1>3, <2>1, QueueUntouched, LinkUntouched, BankUntouched, StartArbitrationKeepsArb
       DEF linkVars
<1>4. CASE RequestsServed
  <2>1. UNCHANGED <<queueVars, linkVars, bankVars>>
    BY <1>4 DEF RequestsServed
  <2> QED
    BY <1>4, <2>1, QueueUntouched, LinkUntouched, BankUntouched, RequestsServedKeepsArb
       DEF linkVars
<1>5. CASE ResponsesServed
  <2>1. /\ UNCHANGED <<ringRequestQueue, ringResponseQueue, linkVars, bankVars>>
        /\ blockedLocalQueues' \subseteq blockedLocalQueues
    BY <1>5 DEF ResponsesServed
  <2>2. QueueInv'
    BY <2>1 DEF QueueInv
  <2> QED
    BY <1>5, <2>1, <2>2, LinkUntouched, BankUntouched, ResponsesServedKeepsArb
       DEF linkVars
<1>6. ASSUME NEW c \in Cpus, GrantRequest(c) PROVE IInv'
  BY <1>6, GrantRequestKeepsQueues, GrantRequestKeepsLinks, GrantRequestKeepsBanks,
     GrantRequestKeepsArb
<1>7. ASSUME NEW b \in Banks, GrantResponse(b) PROVE IInv'
  <2>1. UNCHANGED <<transfers, bankVars>>
    BY <1>7 DEF GrantResponse
  <2> QED
    BY <1>7, <2>1, GrantResponseKeepsQueues, GrantResponseKeepsLinks, BankUntouched,
       GrantResponseKeepsArb
<1>8. ASSUME NEW b \in Banks, BankUnblocks(b) PROVE IInv'
  <2>1. UNCHANGED <<queueVars, linkVars, arbVars>>
    BY <1>8 DEF BankUnblocks
  <2> QED
    BY <1>8, <2>1, QueueUntouched, LinkUntouched, BankUnblocksKeepsBanks, ArbUntouched
       DEF linkVars
<1>9. ASSUME NEW b \in Banks, BankBlocks(b) PROVE IInv'
  <2>1. UNCHANGED <<queueVars, linkVars, arbVars>>
    BY <1>9 DEF BankBlocks
  <2> QED
    BY <1>9, <2>1, QueueUntouched, LinkUntouched, BankBlocksKeepsBanks, ArbUntouched
       DEF linkVars
<1>10. ASSUME NEW t \in transfers, DeliverToBank(t) PROVE IInv'
  <2>1. /\ UNCHANGED <<queueVars, ringLinkOccupied, answers, arbVars>>
        /\ transfers' \subseteq transfers
    BY <1>10 DEF DeliverToBank
  <2> QED
    BY <1>10, <2>1, QueueUntouched, LinkFewer, DeliverToBankKeepsBanks, ArbUntouched
<1>11. ASSUME NEW t \in transfers, DeliverToBuffer(t) PROVE IInv'
  <2>1. /\ UNCHANGED <<queueVars, ringLinkOccupied, answers, arbVars>>
        /\ transfers' \subseteq transfers
    BY <1>11 DEF DeliverToBuffer
  <2> QED
    BY <1>11, <2>1, QueueUntouched, LinkFewer, DeliverToBufferKeepsBanks, ArbUntouched
<1>12. ASSUME NEW t \in answers, DeliverToCache(t) PROVE IInv'
  <2>1. /\ UNCHANGED <<queueVars, ringLinkOccupied, transfers, bankVars, arbVars>>
        /\ answers' \subseteq answers
    BY <1>12 DEF DeliverToCache
  <2> QED
    BY <2>1, QueueUntouched, LinkFewer, BankUntouched, ArbUntouched
<1>13. CASE Tick
  <2>1. /\ ringRequestQueue' = Aged(ringRequestQueue)
        /\ ringResponseQueue' = Aged(ringResponseQueue)
        /\ UNCHANGED <<blockedLocalQueues, linkVars, bankVars, arbVars>>
    BY <1>13 DEF Tick
  <2> QED
    BY <2>1, AgedKeepsQueues, LinkUntouched, BankUntouched, ArbUntouched DEF linkVars
<1>14. CASE Advance
  <2>1. /\ ringRequestQueue' = Aged(ringRequestQueue)
        /\ ringResponseQueue' = Aged(ringResponseQueue)
        /\ blockedLocalQueues' = blockedLocalQueues
    BY <1>14 DEF Advance
  <2> QED
    BY <1>14, <2>1, AgedKeepsQueues, AdvanceKeepsLinks, AdvanceKeepsBanks, AdvanceKeepsArb
<1>15. CASE UNCHANGED vars
  BY <1>15, QueueUntouched, LinkUntouched, BankUntouched, ArbUntouched DEF vars, linkVars
<1> QED
  BY <1>1, <1>2, <1>3, <1>4, <1>5, <1>6, <1>7, <1>8, <1>9, <1>10, <1>11, <1>12, <1>13,
     <1>14, <1>15 DEF Next

LEMMA Inductive == Spec => []IInv
BY InitEstablishes, NextPreserves, PTL DEF Spec

\* Every variable of the ring has its type.
THEOREM TypeCorrect == Spec => []TypeOK
<1>1. IInv => TypeOK
  BY DEF IInv, QueueInv, LinkInv, BankInv, ArbInv, TypeOK
<1> QED
  BY Inductive, <1>1, PTL

\* No two transfers enter a link of a ring in one direction at the same tick,
\* however many processors, banks and rings there are and however many
\* arbitrations it takes to pass a link: Ring::checkStateAndSend looks at the
\* reservations of the links it needs only.
THEOREM LinksSuffice == Spec => []TransfersNeverMeet
<1>1. IInv => TransfersNeverMeet
  BY DEF IInv, LinkInv, TransfersNeverMeet
<1> QED
  BY Inductive, <1>1, PTL

\* The assertion of Ring::deliver, for a buffer of any size.
THEOREM BufferSuffices == Spec => []RecvBufferFits
<1>1. IInv => RecvBufferFits
  BY DEF IInv, BankInv
<1> QED
  BY Inductive, <1>1, PTL

-----------------------------------------------------------------------------
(* What is on its way from a processor to a bank.                          *)

Buf(s, c) == Picked(s, Buffered(c))
Que(s, c, b) == Picked(s, Queued(c, b))
Fly(w) == Picked(w, Alone)

LEMMA ImagesAreMessages ==
    ASSUME NEW c \in Cpus
    PROVE  /\ Buffered(c) \in [{x \in Delivered : x.cpu = c} -> Message]
           /\ \A b : Queued(c, b) \in [{x \in Entry : x.bank = b} -> Message]
<1>1. \A d \in Delivered : Sent(c, d.cmd) \in Message
  BY DEF Delivered, Sent, Message
<1>2. \A e \in Entry : Sent(c, e.cmd) \in Message
  BY DEF Entry, Sent, Message
<1> QED
  BY <1>1, <1>2 DEF Buffered, Queued

LEMMA AloneIs ==
    /\ Alone \in [{{m} : m \in Message} -> Message]
    /\ \A m \in Message : Alone[{m}] = m
<1>1. ASSUME NEW m \in Message PROVE (CHOOSE n \in Message : {m} = {n}) = m
  <2>1. \E n \in Message : {m} = {n}
    OBVIOUS
  <2>2. {m} = {CHOOSE n \in Message : {m} = {n}}
    BY <2>1
  <2> QED
    BY <2>2
<1>2. ASSUME NEW S \in {{m} : m \in Message} PROVE (CHOOSE m \in Message : S = {m}) \in Message
  <2>1. PICK m \in Message : S = {m}
    OBVIOUS
  <2> QED
    BY <1>1, <2>1
<1>3. Alone = [S \in {{m} : m \in Message} |-> CHOOSE m \in Message : S = {m}]
  BY DEF Alone
<1>4. ASSUME NEW m \in Message PROVE Alone[{m}] = m
  <2>1. {m} \in {{n} : n \in Message}
    OBVIOUS
  <2> QED
    BY <1>1, <1>3, <2>1
<1> QED
  BY <1>2, <1>3, <1>4

LEMMA PickedType ==
    ASSUME NEW E, NEW s \in Seq(E), NEW T, NEW M, NEW f \in [T -> M]
    PROVE  Picked(s, f) \in Seq(M)
<1>1. MadeOf(Picked(s, f), Only(s, T), f, T, M)
  BY PickedIs
<1> QED
  BY <1>1 DEF MadeOf

LEMMA BufConcat ==
    ASSUME NEW c \in Cpus, NEW s \in Seq(Delivered), NEW t \in Seq(Delivered)
    PROVE  Buf(s, c) \in Seq(Message) /\ Buf(s \o t, c) = Buf(s, c) \o Buf(t, c)
<1> DEFINE T == {x \in Delivered : x.cpu = c}
           f == Buffered(c)
<1>2. f \in [T -> Message]
  BY ImagesAreMessages
<1> HIDE DEF T, f
<1>3. Picked(s, f) \in Seq(Message)
  BY <1>2, PickedType
<1>4. Picked(s \o t, f) = Picked(s, f) \o Picked(t, f)
  <2>1. PickedInParts(s, t, f)
    BY <1>2, PickedConcat
  <2> QED
    BY <2>1 DEF PickedInParts
<1> QED
  BY <1>3, <1>4 DEF Buf, f

LEMMA BufOne ==
    ASSUME NEW c \in Cpus, NEW d \in Delivered
    PROVE  /\ Buf(<<>>, c) = <<>>
           /\ Buf(<<d>>, c) = IF d.cpu = c THEN <<Sent(c, d.cmd)>> ELSE <<>>
<1> DEFINE T == {x \in Delivered : x.cpu = c}
           f == Buffered(c)
<1>2. f \in [T -> Message]
  BY ImagesAreMessages
<1>3. d \in T <=> d.cpu = c
  OBVIOUS
<1>4. d \in T => f[d] = Sent(c, d.cmd)
  BY DEF Buffered
<1> HIDE DEF T, f
<1>5. /\ d \in T => Picked(<<d>>, f) = <<f[d]>>
      /\ d \notin T => Picked(<<d>>, f) = <<>>
  BY <1>2, PickedOfOne
<1>6. Picked(<<>>, f) = <<>>
  <2>1. <<>> \in Seq(Delivered) /\ Len(<<>>) = 0
    OBVIOUS
  <2>2. \A n \in 1 .. Len(<<>>) : <<>>[n] \notin T
    BY <2>1
  <2> QED
    BY <1>2, <2>1, <2>2, PickedNone
<1> QED
  BY <1>3, <1>4, <1>5, <1>6 DEF Buf, f

LEMMA QueConcat ==
    ASSUME NEW c \in Cpus, NEW b \in Banks, NEW s \in Seq(Entry), NEW t \in Seq(Entry)
    PROVE  Que(s, c, b) \in Seq(Message) /\ Que(s \o t, c, b) = Que(s, c, b) \o Que(t, c, b)
<1> DEFINE T == {x \in Entry : x.bank = b}
           f == Queued(c, b)
<1>2. f \in [T -> Message]
  BY ImagesAreMessages
<1> HIDE DEF T, f
<1>3. Picked(s, f) \in Seq(Message)
  BY <1>2, PickedType
<1>4. Picked(s \o t, f) = Picked(s, f) \o Picked(t, f)
  <2>1. PickedInParts(s, t, f)
    BY <1>2, PickedConcat
  <2> QED
    BY <2>1 DEF PickedInParts
<1> QED
  BY <1>3, <1>4 DEF Que, f

LEMMA QueOne ==
    ASSUME NEW c \in Cpus, NEW b \in Banks, NEW e \in Entry
    PROVE  /\ Que(<<>>, c, b) = <<>>
           /\ Que(<<e>>, c, b) = IF e.bank = b THEN <<Sent(c, e.cmd)>> ELSE <<>>
<1> DEFINE T == {x \in Entry : x.bank = b}
           f == Queued(c, b)
<1>2. f \in [T -> Message]
  BY ImagesAreMessages
<1>3. e \in T <=> e.bank = b
  OBVIOUS
<1>4. e \in T => f[e] = Sent(c, e.cmd)
  BY DEF Queued
<1> HIDE DEF T, f
<1>5. /\ e \in T => Picked(<<e>>, f) = <<f[e]>>
      /\ e \notin T => Picked(<<e>>, f) = <<>>
  BY <1>2, PickedOfOne
<1>6. Picked(<<>>, f) = <<>>
  <2>1. <<>> \in Seq(Entry) /\ Len(<<>>) = 0
    OBVIOUS
  <2>2. \A n \in 1 .. Len(<<>>) : <<>>[n] \notin T
    BY <2>1
  <2> QED
    BY <1>2, <2>1, <2>2, PickedNone
<1> QED
  BY <1>3, <1>4, <1>5, <1>6 DEF Que, f

LEMMA FlyConcat ==
    ASSUME NEW v \in Seq(SUBSET Message), NEW w \in Seq(SUBSET Message)
    PROVE  Fly(v) \in Seq(Message) /\ Fly(v \o w) = Fly(v) \o Fly(w)
<1> DEFINE T == {{m} : m \in Message}
<1>1. Alone \in [T -> Message]
  BY AloneIs
<1> HIDE DEF T
<1>2. Picked(v, Alone) \in Seq(Message)
  BY <1>1, PickedType
<1>3. Picked(v \o w, Alone) = Picked(v, Alone) \o Picked(w, Alone)
  <2>1. PickedInParts(v, w, Alone)
    BY <1>1, PickedConcat
  <2> QED
    BY <2>1 DEF PickedInParts
<1> QED
  BY <1>2, <1>3 DEF Fly

LEMMA FlyOne ==
    /\ Fly(<<{}>>) = <<>>
    /\ \A m \in Message : Fly(<<{m}>>) = <<m>>
<1> DEFINE T == {{m} : m \in Message}
<1>1. Alone \in [T -> Message] /\ \A m \in Message : Alone[{m}] = m
  BY AloneIs
<1>2. {} \notin T /\ \A m \in Message : {m} \in T
  OBVIOUS
<1> HIDE DEF T
<1>3. ASSUME NEW S \in SUBSET Message
      PROVE  /\ S \in T => Picked(<<S>>, Alone) = <<Alone[S]>>
             /\ S \notin T => Picked(<<S>>, Alone) = <<>>
  BY <1>1, PickedOfOne
<1>4. Picked(<<{}>>, Alone) = <<>>
  BY <1>2, <1>3
<1>5. ASSUME NEW m \in Message PROVE Picked(<<{m}>>, Alone) = <<m>>
  <2>1. {m} \in SUBSET Message
    OBVIOUS
  <2> QED
    BY <1>1, <1>2, <1>3, <2>1
<1> QED
  BY <1>4, <1>5 DEF Fly

\* The ticks a request of processor c to bank b is in flight.
Flight(c, b) == Hop * Hops(c, b)

LEMMA FlightIsNat ==
    ASSUME NEW c \in Cpus, NEW b \in Banks
    PROVE  Flight(c, b) \in Nat \ {0}
<1>1. Hop \in Nat \ {0} /\ Hops(c, b) \in Nat \ {0}
  BY Sizes, HopsIsNat
<1>2. \A m, n \in Nat \ {0} : m * n \in Nat \ {0}
  OBVIOUS
<1> QED
  BY <1>1, <1>2 DEF Flight

LEMMA GoneIsMessages ==
    ASSUME NEW ts \in SUBSET Transfer, NEW c \in Cpus, NEW b, NEW n
    PROVE  Gone(ts, c, b, n) \in SUBSET Message
<1>1. \A t \in ts : Sent(c, t.cmd) \in Message
  BY DEF Transfer, Sent, Message
<1> QED
  BY <1>1 DEF Gone

\* The way without what was granted last, and without what arrives first.
Older(ts, c, b) == [n \in 1 .. Flight(c, b) |-> Gone(ts, c, b, Flight(c, b) + 1 - n)]
Later(ts, c, b) == [n \in 1 .. Flight(c, b) |-> Gone(ts, c, b, Flight(c, b) - n)]

LEMMA WayInTwo ==
    ASSUME NEW ts \in SUBSET Transfer, NEW c \in Cpus, NEW b \in Banks
    PROVE  /\ Older(ts, c, b) \in Seq(SUBSET Message) /\ Later(ts, c, b) \in Seq(SUBSET Message)
           /\ Way(ts, c, b) \in Seq(SUBSET Message)
           /\ Way(ts, c, b) = Older(ts, c, b) \o <<Gone(ts, c, b, 0)>>
           /\ Way(ts, c, b) = <<Gone(ts, c, b, Flight(c, b))>> \o Later(ts, c, b)
<1> DEFINE l == Flight(c, b)
           S == SUBSET Message
           w == Way(ts, c, b)
           o == Older(ts, c, b)
           r == Later(ts, c, b)
           g(n) == Gone(ts, c, b, n)
<1>1. l \in Nat \ {0}
  BY FlightIsNat
<1>2. \A n : g(n) \in S
  BY GoneIsMessages
<1>3. /\ w = [n \in 1 .. l + 1 |-> g(l + 1 - n)]
      /\ o = [n \in 1 .. l |-> g(l + 1 - n)]
      /\ r = [n \in 1 .. l |-> g(l - n)]
  BY DEF Way, Flight, Older, Later
<1> HIDE DEF l, S, w, o, r, g
<1>4. w \in [1 .. l + 1 -> S] /\ o \in [1 .. l -> S] /\ r \in [1 .. l -> S]
  BY <1>2, <1>3
<1>5. /\ w \in Seq(S) /\ Len(w) = l + 1
      /\ o \in Seq(S) /\ Len(o) = l
      /\ r \in Seq(S) /\ Len(r) = l
  BY <1>1, <1>4
<1> DEFINE x == <<g(0)>>
           y == <<g(l)>>
<1>6. x \in Seq(S) /\ Len(x) = 1 /\ x[1] = g(0) /\ y \in Seq(S) /\ Len(y) = 1 /\ y[1] = g(l)
  BY <1>2
<1> HIDE DEF x, y
<1>7. w = o \o x
  <2>1. /\ o \o x \in Seq(S) /\ Len(o \o x) = l + 1
        /\ \A n \in 1 .. l : (o \o x)[n] = o[n]
        /\ (o \o x)[l + 1] = x[1]
    <3>1. /\ o \o x \in Seq(S) /\ Len(o \o x) = Len(o) + Len(x)
          /\ \A n \in 1 .. Len(o) + Len(x) : (o \o x)[n] = IF n <= Len(o) THEN o[n] ELSE x[n - Len(o)]
      BY <1>5, <1>6, ConcatProperties
    <3>2. l + 1 \in 1 .. l + 1 /\ ~(l + 1 <= l) /\ l + 1 - l = 1
      BY <1>1
    <3> QED
      BY <1>1, <1>5, <1>6, <3>1, <3>2
  <2>2. ASSUME NEW n \in 1 .. l + 1 PROVE w[n] = (o \o x)[n]
    <3>1. w[n] = g(l + 1 - n)
      BY <1>3
    <3>2. CASE n \in 1 .. l
      BY <1>3, <2>1, <3>1, <3>2
    <3>3. CASE n = l + 1
      <4>1. l + 1 - n = 0
        BY <1>1, <3>3
      <4> QED
        BY <1>6, <2>1, <3>1, <3>3, <4>1
    <3>4. n \in 1 .. l \/ n = l + 1
      BY <1>1
    <3> QED
      BY <3>2, <3>3, <3>4
  <2> QED
    BY <1>5, <2>1, <2>2, SeqEqual
<1>8. w = y \o r
  <2>1. /\ y \o r \in Seq(S) /\ Len(y \o r) = l + 1
        /\ (y \o r)[1] = y[1]
        /\ \A n \in 2 .. l + 1 : (y \o r)[n] = r[n - 1]
    <3>1. /\ y \o r \in Seq(S) /\ Len(y \o r) = Len(y) + Len(r)
          /\ \A n \in 1 .. Len(y) + Len(r) : (y \o r)[n] = IF n <= Len(y) THEN y[n] ELSE r[n - Len(y)]
      BY <1>5, <1>6, ConcatProperties
    <3>2. /\ 1 \in 1 .. 1 + l /\ 1 + l = l + 1
          /\ \A n \in 2 .. l + 1 : n \in 1 .. 1 + l /\ ~(n <= 1)
      BY <1>1
    <3> QED
      BY <1>5, <1>6, <3>1, <3>2
  <2>2. ASSUME NEW n \in 1 .. l + 1 PROVE w[n] = (y \o r)[n]
    <3>1. w[n] = g(l + 1 - n)
      BY <1>3
    <3>2. CASE n = 1
      <4>1. l + 1 - n = l
        BY <1>1, <3>2
      <4> QED
        BY <1>6, <2>1, <3>1, <3>2, <4>1
    <3>3. CASE n \in 2 .. l + 1
      <4>1. n - 1 \in 1 .. l /\ l - (n - 1) = l + 1 - n
        BY <1>1, <3>3
      <4>2. r[n - 1] = g(l - (n - 1))
        BY <1>3, <4>1
      <4> QED
        BY <2>1, <3>1, <3>3, <4>1, <4>2
    <3>4. n = 1 \/ n \in 2 .. l + 1
      BY <1>1
    <3> QED
      BY <3>2, <3>3, <3>4
  <2> QED
    BY <1>5, <2>1, <2>2, SeqEqual
<1> QED
  BY <1>5, <1>7, <1>8 DEF l, S, w, o, r, g, x, y

\* What is in flight, with what was granted last and with what arrives first.
LEMMA FlyInTwo ==
    ASSUME NEW ts \in SUBSET Transfer, NEW c \in Cpus, NEW b \in Banks
    PROVE  /\ Fly(Older(ts, c, b)) \in Seq(Message) /\ Fly(Later(ts, c, b)) \in Seq(Message)
           /\ Fly(Way(ts, c, b)) \in Seq(Message)
           /\ Fly(Way(ts, c, b)) = Fly(Older(ts, c, b)) \o Fly(<<Gone(ts, c, b, 0)>>)
           /\ Fly(Way(ts, c, b)) = Fly(<<Gone(ts, c, b, Flight(c, b))>>) \o Fly(Later(ts, c, b))
<1>1. /\ Older(ts, c, b) \in Seq(SUBSET Message) /\ Later(ts, c, b) \in Seq(SUBSET Message)
      /\ Way(ts, c, b) \in Seq(SUBSET Message)
      /\ Way(ts, c, b) = Older(ts, c, b) \o <<Gone(ts, c, b, 0)>>
      /\ Way(ts, c, b) = <<Gone(ts, c, b, Flight(c, b))>> \o Later(ts, c, b)
  BY WayInTwo
<1>2. \A n : <<Gone(ts, c, b, n)>> \in Seq(SUBSET Message)
  <2>1. \A n : Gone(ts, c, b, n) \in SUBSET Message
    BY GoneIsMessages
  <2> QED
    BY <2>1
<1>3. \A v, w \in Seq(SUBSET Message) : Fly(v \o w) = Fly(v) \o Fly(w)
  BY FlyConcat
<1>4. \A v \in Seq(SUBSET Message) : Fly(v) \in Seq(Message)
  BY FlyConcat
<1> QED
  BY <1>1, <1>2, <1>3, <1>4, ZenonT(30)

\* ts before a step, us after it.
LEMMA SameWay ==
    ASSUME NEW ts, NEW us, NEW c, NEW b, \A n \in Nat : Gone(us, c, b, n) = Gone(ts, c, b, n),
           Flight(c, b) \in Nat
    PROVE  Way(us, c, b) = Way(ts, c, b)
<1>1. \A n \in 1 .. Flight(c, b) + 1 : Flight(c, b) + 1 - n \in Nat
  OBVIOUS
<1> QED
  BY <1>1 DEF Way, Flight

Enters(ts, us, c, b, m) ==
    /\ Gone(ts, c, b, 0) = {} /\ Gone(us, c, b, 0) = {m}
    /\ \A n \in Nat \ {0} : Gone(us, c, b, n) = Gone(ts, c, b, n)

LEMMA GrantedWay ==
    ASSUME NEW ts \in SUBSET Transfer, NEW us \in SUBSET Transfer, NEW c \in Cpus, NEW b \in Banks,
           NEW m \in Message, Enters(ts, us, c, b, m)
    PROVE  Fly(Way(us, c, b)) = Fly(Way(ts, c, b)) \o <<m>>
<1>1. Flight(c, b) \in Nat \ {0}
  BY FlightIsNat
<1>2. \A n \in 1 .. Flight(c, b) : Flight(c, b) + 1 - n \in Nat \ {0}
  BY <1>1
<1>3. Older(us, c, b) = Older(ts, c, b)
  BY <1>2 DEF Older, Enters
<1>4. /\ Fly(Older(ts, c, b)) \in Seq(Message)
      /\ Fly(Way(ts, c, b)) = Fly(Older(ts, c, b)) \o Fly(<<Gone(ts, c, b, 0)>>)
      /\ Fly(Way(us, c, b)) = Fly(Older(us, c, b)) \o Fly(<<Gone(us, c, b, 0)>>)
  BY FlyInTwo
<1>5. Fly(<<Gone(ts, c, b, 0)>>) = <<>> /\ Fly(<<Gone(us, c, b, 0)>>) = <<m>>
  BY FlyOne DEF Enters
<1>6. Fly(Way(ts, c, b)) = Fly(Older(ts, c, b))
  BY <1>4, <1>5, ConcatEmptySeq
<1> QED
  BY <1>3, <1>4, <1>5, <1>6

Leaves(ts, us, c, b, m) ==
    /\ Gone(ts, c, b, Flight(c, b)) = {m} /\ Gone(us, c, b, Flight(c, b)) = {}
    /\ \A n \in Nat \ {Flight(c, b)} : Gone(us, c, b, n) = Gone(ts, c, b, n)

LEMMA ArrivedWay ==
    ASSUME NEW ts \in SUBSET Transfer, NEW us \in SUBSET Transfer, NEW c \in Cpus, NEW b \in Banks,
           NEW m \in Message, Leaves(ts, us, c, b, m)
    PROVE  Fly(Way(ts, c, b)) = <<m>> \o Fly(Way(us, c, b))
<1>1. Flight(c, b) \in Nat \ {0}
  BY FlightIsNat
<1>2. \A n \in 1 .. Flight(c, b) : Flight(c, b) - n \in Nat \ {Flight(c, b)}
  BY <1>1
<1>3. Later(us, c, b) = Later(ts, c, b)
  BY <1>2 DEF Later, Leaves
<1>4. /\ Fly(Later(us, c, b)) \in Seq(Message)
      /\ Fly(Way(ts, c, b)) = Fly(<<Gone(ts, c, b, Flight(c, b))>>) \o Fly(Later(ts, c, b))
      /\ Fly(Way(us, c, b)) = Fly(<<Gone(us, c, b, Flight(c, b))>>) \o Fly(Later(us, c, b))
  BY FlyInTwo
<1>5. /\ Fly(<<Gone(us, c, b, Flight(c, b))>>) = <<>>
      /\ Fly(<<Gone(ts, c, b, Flight(c, b))>>) = <<m>>
  BY FlyOne DEF Leaves
<1>6. Fly(Way(us, c, b)) = Fly(Later(us, c, b))
  BY <1>4, <1>5, ConcatEmptySeq
<1> QED
  BY <1>3, <1>4, <1>5, <1>6

Shifts(ts, us, c, b) ==
    /\ Gone(ts, c, b, Flight(c, b)) = {} /\ Gone(us, c, b, 0) = {}
    /\ \A n \in Nat : Gone(us, c, b, n + 1) = Gone(ts, c, b, n)

LEMMA AdvancedWay ==
    ASSUME NEW ts \in SUBSET Transfer, NEW us \in SUBSET Transfer, NEW c \in Cpus, NEW b \in Banks,
           Shifts(ts, us, c, b)
    PROVE  Fly(Way(us, c, b)) = Fly(Way(ts, c, b))
<1>1. Flight(c, b) \in Nat \ {0}
  BY FlightIsNat
<1>2. \A n \in 1 .. Flight(c, b) :
         Flight(c, b) - n \in Nat /\ (Flight(c, b) - n) + 1 = Flight(c, b) + 1 - n
  BY <1>1
<1>3. Older(us, c, b) = Later(ts, c, b)
  BY <1>2 DEF Older, Later, Shifts
<1>4. /\ Fly(Later(ts, c, b)) \in Seq(Message)
      /\ Fly(Way(ts, c, b)) = Fly(<<Gone(ts, c, b, Flight(c, b))>>) \o Fly(Later(ts, c, b))
      /\ Fly(Way(us, c, b)) = Fly(Older(us, c, b)) \o Fly(<<Gone(us, c, b, 0)>>)
  BY FlyInTwo
<1>5. /\ Fly(<<Gone(ts, c, b, Flight(c, b))>>) = <<>>
      /\ Fly(<<Gone(us, c, b, 0)>>) = <<>>
  BY FlyOne DEF Shifts
<1>6. Fly(Later(ts, c, b)) \o <<>> = Fly(Later(ts, c, b)) /\ <<>> \o Fly(Later(ts, c, b)) = Fly(Later(ts, c, b))
  BY <1>4, ConcatEmptySeq
<1> QED
  BY <1>3, <1>4, <1>5, <1>6

-----------------------------------------------------------------------------
(* Of one processor no two requests start in one tick.                     *)

Apart == \A t, u \in transfers : t.cpu = u.cpu /\ t.gone = u.gone => t = u

WayInv == Apart /\ IsFiniteSet(answers)

LEMMA GrantRequestKeepsApart ==
    ASSUME IInv, Apart, NEW c \in Cpus, GrantRequest(c)
    PROVE  Apart'
<1> DEFINE b == Head(ringRequestQueue[c]).bank
           cmd == Head(ringRequestQueue[c]).cmd
<1>1. PICK ring \in RequestRings :
          transfers' = transfers \union
                 {[ring |-> ring, cpu |-> c, bank |-> b, cmd |-> cmd, gone |-> 0]}
  BY DEF GrantRequest
<1> DEFINE new == [ring |-> ring, cpu |-> c, bank |-> b, cmd |-> cmd, gone |-> 0]
<1>2. new.cpu = c /\ new.gone = 0 /\ transfers' = transfers \union {new}
  BY <1>1
<1> HIDE DEF b, cmd, new
<1>3. \A t \in transfers : ~(t.cpu = c /\ t.gone = 0)
  BY DEF GrantRequest, Turn, IInv, ArbInv, Fresh
<1> QED
  BY <1>2, <1>3 DEF Apart

LEMMA AdvanceKeepsApart ==
    ASSUME IInv, Apart, Advance
    PROVE  Apart'
<1>1. transfers' = Moved(transfers) /\ transfers \in SUBSET Transfer
  BY DEF Advance, IInv, LinkInv
<1>2. ASSUME NEW m \in Moved(transfers), NEW n \in Moved(transfers), m.cpu = n.cpu, m.gone = n.gone
      PROVE  m = n
  <2>1. PICK t \in transfers : m = [t EXCEPT !.gone = @ + 1] /\ m.gone = t.gone + 1 /\ m.cpu = t.cpu
    BY <1>1, MovedRequest
  <2>2. PICK u \in transfers : n = [u EXCEPT !.gone = @ + 1] /\ n.gone = u.gone + 1 /\ n.cpu = u.cpu
    BY <1>1, MovedRequest
  <2>3. t.gone \in Nat /\ u.gone \in Nat
    BY <1>1 DEF Transfer
  <2>4. t.gone = u.gone
    BY <1>2, <2>1, <2>2, <2>3
  <2>5. t = u
    BY <1>2, <2>1, <2>2, <2>4 DEF Apart
  <2> QED
    BY <2>1, <2>2, <2>5
<1> QED
  BY <1>1, <1>2 DEF Apart

LEMMA MovedIsFinite ==
    ASSUME NEW T, IsFiniteSet(T)
    PROVE  IsFiniteSet(Moved(T))
<1> DEFINE f == [t \in T |-> [t EXCEPT !.gone = @ + 1]]
<1>1. f \in Surjection(T, Moved(T))
  BY DEF Surjection, Moved
<1> HIDE DEF f
<1> QED
  BY <1>1, FS_Surjection

LEMMA WayInvHolds == Spec => []WayInv
<1>1. Init => WayInv
  BY FS_EmptySet DEF Init, WayInv, Apart
<1>2. IInv /\ WayInv /\ [Next]_vars => WayInv'
  <2> SUFFICES ASSUME IInv, WayInv, [Next]_vars PROVE WayInv'
    OBVIOUS
  <2>1. ASSUME transfers' \subseteq transfers, answers' \subseteq answers PROVE WayInv'
    BY <2>1, FS_Subset DEF WayInv, Apart
  <2>2. ASSUME NEW c \in Cpus, GrantRequest(c) PROVE WayInv'
    <3>1. answers' = answers
      BY <2>2 DEF GrantRequest
    <3> QED
      BY <2>2, <3>1, GrantRequestKeepsApart DEF WayInv
  <2>3. ASSUME NEW b \in Banks, GrantResponse(b) PROVE WayInv'
    <3>1. \E new : answers' = answers \union {new}
      BY <2>3 DEF GrantResponse
    <3>2. transfers' = transfers
      BY <2>3 DEF GrantResponse
    <3>3. IsFiniteSet(answers')
      BY <3>1, FS_AddElement DEF WayInv
    <3> QED
      BY <3>2, <3>3 DEF WayInv, Apart
  <2>4. CASE Advance
    <3>1. answers' = Moved(answers)
      BY <2>4 DEF Advance
    <3> QED
      BY <2>4, <3>1, AdvanceKeepsApart, MovedIsFinite DEF WayInv
  <2>5. ASSUME NEW c \in Cpus, NEW b \in Banks, NEW cmd \in {Read, Writeback},
               SendRequest(c, b, cmd) \/ SendResponse(b, c)
        PROVE  WayInv'
    BY <2>1, <2>5 DEF SendRequest, SendResponse, linkVars
  <2>6. CASE StartArbitration \/ RequestsServed \/ ResponsesServed \/ Tick
    BY <2>1, <2>6 DEF StartArbitration, RequestsServed, ResponsesServed, Tick, linkVars
  <2>7. ASSUME NEW b \in Banks, BankUnblocks(b) \/ BankBlocks(b) PROVE WayInv'
    BY <2>1, <2>7 DEF BankUnblocks, BankBlocks, linkVars
  <2>8. ASSUME NEW t \in transfers, DeliverToBank(t) \/ DeliverToBuffer(t) PROVE WayInv'
    BY <2>1, <2>8 DEF DeliverToBank, DeliverToBuffer
  <2>9. ASSUME NEW t \in answers, DeliverToCache(t) PROVE WayInv'
    BY <2>1, <2>9 DEF DeliverToCache
  <2>10. CASE UNCHANGED vars
    BY <2>1, <2>10 DEF vars, linkVars
  <2> QED
    BY <2>2, <2>3, <2>4, <2>5, <2>6, <2>7, <2>8, <2>9, <2>10 DEF Next
<1> QED
  BY Inductive, <1>1, <1>2, PTL DEF Spec

-----------------------------------------------------------------------------
(* The steps of the channel.                                               *)

LEMMA PathsAre ==
    ASSUME NEW c \in Cpus, NEW b \in Banks
    PROVE  /\ Paths[c][b] = (Buf(deliverBuffer[b], c) \o Fly(Way(transfers, c, b)))
                               \o Que(ringRequestQueue[c], c, b)
           /\ Paths'[c][b] = (Buf(deliverBuffer'[b], c) \o Fly(Way(transfers', c, b)))
                               \o Que(ringRequestQueue'[c], c, b)
BY DEF Paths, Path, Buf, Fly, Que

LEMMA PathsType ==
    ASSUME IInv, NEW c \in Cpus, NEW b \in Banks
    PROVE  /\ Buf(deliverBuffer[b], c) \in Seq(Message)
           /\ Fly(Way(transfers, c, b)) \in Seq(Message)
           /\ Que(ringRequestQueue[c], c, b) \in Seq(Message)
           /\ Paths[c][b] \in Seq(Message)
<1>1. /\ Buf(deliverBuffer[b], c) \in Seq(Message)
      /\ Que(ringRequestQueue[c], c, b) \in Seq(Message)
  <2>1. deliverBuffer[b] \in Seq(Delivered) /\ ringRequestQueue[c] \in Seq(Entry)
    BY DEF IInv, BankInv, QueueInv
  <2> QED
    BY <2>1, BufConcat, QueConcat
<1>2. Fly(Way(transfers, c, b)) \in Seq(Message)
  BY FlyInTwo DEF IInv, LinkInv
<1>3. (Buf(deliverBuffer[b], c) \o Fly(Way(transfers, c, b))) \o Que(ringRequestQueue[c], c, b)
         \in Seq(Message)
  <2>1. \A u, v \in Seq(Message) : u \o v \in Seq(Message)
    BY ConcatProperties
  <2> QED
    BY <1>1, <1>2, <2>1
<1> QED
  BY <1>1, <1>2, <1>3, PathsAre

LEMMA KeptPaths ==
    ASSUME UNCHANGED <<deliverBuffer, transfers, ringRequestQueue>> PROVE Paths' = Paths
BY DEF Paths, Path

LEMMA KeptReturning ==
    ASSUME UNCHANGED <<ringResponseQueue, answers>> PROVE Returning' = Returning
BY DEF Returning, AnswersTo

LEMMA StutterStep ==
    ASSUME Paths' = Paths, Returning' = Returning, serving' = serving
    PROVE  UNCHANGED Channel!vars
BY DEF Channel!vars

LEMMA SendStep ==
    ASSUME IInv,
           \A c \in Cpus, b \in Banks : \E t \in Seq(Message) : Paths'[c][b] = Paths[c][b] \o t,
           UNCHANGED <<serving, Returning>>
    PROVE  Channel!Send
<1>1. ASSUME NEW c \in Cpus, NEW b \in Banks PROVE Channel!IsPrefix(Paths[c][b], Paths'[c][b])
  <2>1. PICK t \in Seq(Message) : Paths'[c][b] = Paths[c][b] \o t
    OBVIOUS
  <2>2. Paths[c][b] \in Seq(Message)
    BY PathsType
  <2> QED
    BY <2>1, <2>2, PrefixOfConcat DEF Channel!IsPrefix, IsPrefix
<1> QED
  BY <1>1 DEF Channel!Send

LEMMA SameCardinality ==
    ASSUME NEW S
    PROVE  Channel!Cardinality(S) = Cardinality(S)
BY DEF Channel!Cardinality, Cardinality, Channel!IsFiniteSet, IsFiniteSet

ReadsOf(s, c) == Cardinality({n \in DOMAIN s : s[n].cpu = c /\ s[n].cmd = Read})

LEMMA ReadsOfCpu ==
    ASSUME NEW s \in Seq(Delivered), NEW c \in Cpus
    PROVE  Channel!Reads(Buf(s, c), c) = ReadsOf(s, c)
<1> DEFINE T == {x \in Delivered : x.cpu = c}
           f == Buffered(c)
           W == {m \in Message : m.from = c /\ m.cmd = Read}
           R == {d \in Delivered : d.cpu = c /\ d.cmd = Read}
           p == Picked(s, f)
<1>1. f \in [T -> Message]
  BY ImagesAreMessages
<1>2. {x \in T : f[x] \in W} = R
  <2>1. \A x \in T : f[x] = Sent(c, x.cmd) /\ Sent(c, x.cmd) \in Message
    BY DEF Buffered, Delivered, Sent, Message
  <2>2. ASSUME NEW x \in T PROVE f[x] \in W <=> x.cmd = Read
    <3> HIDE DEF f
    <3>1. f[x] = Sent(c, x.cmd) /\ Sent(c, x.cmd) \in Message
      BY <2>1
    <3>2. Sent(c, x.cmd).from = c /\ Sent(c, x.cmd).cmd = x.cmd
      BY DEF Sent
    <3>3. f[x] \in Message /\ f[x].from = c /\ f[x].cmd = x.cmd
      BY <3>1, <3>2
    <3> QED
      BY <3>3
  <2> QED
    BY <2>2
<1> HIDE DEF T, f, W, p
<1>3. Count(p, W) = Count(s, {x \in T : f[x] \in W})
  <2>1. PickedCounted(s, f, T, W)
    BY <1>1, PickedCounts
  <2> QED
    BY <2>1 DEF PickedCounted, p
<1>4. p \in Seq(Message)
  BY <1>1, PickedType DEF p
<1>5. \A n \in DOMAIN p : p[n] \in Message
  BY <1>4, ElementOfSeq, LenProperties
<1>6. \A n \in DOMAIN s : s[n] \in Delivered
  BY ElementOfSeq, LenProperties
<1>7. {n \in DOMAIN p : p[n].from = c /\ p[n].cmd = Read} = Places(p, W)
  BY <1>5 DEF Places, W
<1>8. {n \in DOMAIN s : s[n].cpu = c /\ s[n].cmd = Read} = Places(s, R)
  BY <1>6 DEF Places
<1>9. Channel!Reads(p, c) = Count(p, W)
  BY <1>7, SameCardinality DEF Channel!Reads, Count
<1>10. ReadsOf(s, c) = Count(s, R)
  BY <1>8 DEF ReadsOf, Count
<1> QED
  BY <1>2, <1>3, <1>9, <1>10 DEF p, f, Buf

\* What bank b takes of its channels is what of done comes from each processor.
LEMMA TakeStep ==
    ASSUME IInv, NEW b \in Banks, NEW done \in Seq(Delivered), Accessed(b, done),
           \A c \in Cpus : /\ Paths'[c][b] \in Seq(Message)
                           /\ Paths[c][b] = Buf(done, c) \o Paths'[c][b]
                           /\ \A a \in Banks \ {b} : Paths'[c][a] = Paths[c][a],
           Returning' = Returning
    PROVE  Channel!Take(b)
<1> DEFINE taken == [c \in Cpus |-> Len(Paths[c][b]) - Len(Paths'[c][b])]
<1>1. ASSUME NEW c \in Cpus
      PROVE  /\ taken[c] >= 0
             /\ Paths'[c][b] = SubSeq(Paths[c][b], taken[c] + 1, Len(Paths[c][b]))
             /\ SubSeq(Paths[c][b], 1, taken[c]) = Buf(done, c)
             /\ \A a \in Banks \ {b} : Paths'[c][a] = Paths[c][a]
  <2> DEFINE f == Buf(done, c)
             r == Paths'[c][b]
             w == Paths[c][b]
  <2>1. f \in Seq(Message) /\ r \in Seq(Message) /\ w = f \o r
    BY BufConcat
  <2>2. taken[c] = Len(w) - Len(r)
    OBVIOUS
  <2>3. \A a \in Banks \ {b} : Paths'[c][a] = Paths[c][a]
    OBVIOUS
  <2> HIDE DEF f, r, w, taken
  <2>4. Len(f) \in Nat /\ Len(r) \in Nat /\ Len(w) = Len(f) + Len(r)
    BY <2>1, ConcatProperties, LenProperties
  <2>5. taken[c] = Len(f) /\ Len(f) >= 0
    BY <2>2, <2>4
  <2>6. SubSeq(f \o r, 1, Len(f)) = f /\ SubSeq(f \o r, Len(f) + 1, Len(f \o r)) = r
    BY <2>1, PartsOfConcat
  <2>7. SubSeq(w, 1, taken[c]) = f /\ r = SubSeq(w, taken[c] + 1, Len(w))
    BY <2>1, <2>5, <2>6, ZenonT(30)
  <2> QED
    BY <2>3, <2>5, <2>7 DEF f, r, w
<1> HIDE DEF taken
<1>2. Paths' = [c \in Cpus |-> [Paths[c] EXCEPT ![b] = SubSeq(@, taken[c] + 1, Len(@))]]
  <2>1. /\ Paths = [c \in Cpus |-> [a \in Banks |-> Paths[c][a]]]
        /\ Paths' = [c \in Cpus |-> [a \in Banks |-> Paths'[c][a]]]
    BY DEF Paths
  <2>2. ASSUME NEW c \in Cpus
        PROVE  Paths'[c] = [Paths[c] EXCEPT ![b] = SubSeq(@, taken[c] + 1, Len(@))]
    <3>1. /\ Paths[c] = [a \in Banks |-> Paths[c][a]]
          /\ Paths'[c] = [a \in Banks |-> Paths'[c][a]]
      BY <2>1
    <3> QED
      BY <1>1, <3>1
  <2> QED
    BY <2>1, <2>2
<1> DEFINE own == [c \in Cpus |-> c]
<1>3. serving' = [serving EXCEPT ![b] = [i \in Cpus |->
                    @[i] + Channel!Reads(SubSeq(Paths[own[i]][b], 1, taken[own[i]]), i)]]
  <2>1. serving' = [serving EXCEPT ![b] = [i \in Cpus |-> serving[b][i] + ReadsOf(done, i)]]
    BY DEF Accessed, Times, ReadsOf, IInv, BankInv
  <2>2. \A i \in Cpus :
            ReadsOf(done, i) = Channel!Reads(SubSeq(Paths[own[i]][b], 1, taken[own[i]]), i)
    BY <1>1, ReadsOfCpu
  <2> HIDE DEF own
  <2> QED
    BY <2>1, <2>2
<1> QED
  BY <1>1, <1>2, <1>3 DEF Channel!Take, taken

LEMMA SendRequestSends ==
    ASSUME IInv, NEW c \in Cpus, NEW b \in Banks, NEW cmd \in {Read, Writeback},
           SendRequest(c, b, cmd)
    PROVE  Channel!Send
<1> DEFINE e == [bank |-> b, cmd |-> cmd, age |-> 0]
<1>1. e \in Entry /\ <<e>> \in Seq(Entry)
  BY DEF Entry
<1>2. ringRequestQueue' = [ringRequestQueue EXCEPT ![c] = Append(@, e)]
  BY DEF SendRequest
<1>3. UNCHANGED <<deliverBuffer, transfers, serving, ringResponseQueue, answers>>
  BY DEF SendRequest, linkVars, bankVars
<1> HIDE DEF e
<1>4. /\ ringRequestQueue'[c] = Append(ringRequestQueue[c], e)
      /\ \A d \in Cpus \ {c} : ringRequestQueue'[d] = ringRequestQueue[d]
  BY <1>2 DEF IInv, QueueInv
<1>5. ASSUME NEW d \in Cpus, NEW a \in Banks
      PROVE  \E t \in Seq(Message) : Paths'[d][a] = Paths[d][a] \o t
  <2> DEFINE f == Buf(deliverBuffer[a], d) \o Fly(Way(transfers, d, a))
             q == ringRequestQueue[d]
  <2>1. /\ Paths[d][a] = f \o Que(q, d, a) /\ Paths'[d][a] = f \o Que(ringRequestQueue'[d], d, a)
        /\ q \in Seq(Entry) /\ Que(q, d, a) \in Seq(Message) /\ Paths[d][a] \in Seq(Message)
    BY <1>3, PathsAre, PathsType DEF IInv, QueueInv
  <2>2. f \in Seq(Message)
    BY PathsType, ConcatProperties
  <2> HIDE DEF f
  <2>3. CASE d = c
    <3>1. ringRequestQueue'[d] = q \o <<e>>
      BY <1>1, <1>4, <2>1, <2>3, AppendIsConcat
    <3>2. Que(q \o <<e>>, d, a) = Que(q, d, a) \o Que(<<e>>, d, a) /\ Que(<<e>>, d, a) \in Seq(Message)
      BY <1>1, <2>1, QueConcat
    <3>3. \A u, v, w \in Seq(Message) : u \o (v \o w) = (u \o v) \o w
      BY ConcatAssociative
    <3>4. f \o (Que(q, d, a) \o Que(<<e>>, d, a)) = (f \o Que(q, d, a)) \o Que(<<e>>, d, a)
      BY <2>1, <2>2, <3>2, <3>3, ZenonT(30)
    <3>5. Paths'[d][a] = Paths[d][a] \o Que(<<e>>, d, a)
      BY <2>1, <3>1, <3>2, <3>4, ZenonT(30)
    <3> QED
      BY <3>2, <3>5
  <2>4. CASE d # c
    <3>1. Paths'[d][a] = Paths[d][a]
      BY <1>4, <2>1, <2>4
    <3>2. Paths[d][a] \o <<>> = Paths[d][a]
      BY <2>1, ConcatEmptySeq
    <3>3. <<>> \in Seq(Message)
      OBVIOUS
    <3> QED
      BY <3>1, <3>2, <3>3
  <2> QED
    BY <2>3, <2>4
<1>6. Returning' = Returning
  BY <1>3, KeptReturning
<1> QED
  BY <1>3, <1>5, <1>6, SendStep

\* A request moves from the head of its queue to the end of its way.
LEMMA MovedAlong ==
    ASSUME NEW x \in Seq(Message), NEW y \in Seq(Message), NEW z \in Seq(Message), NEW m \in Message
    PROVE  (x \o (y \o <<m>>)) \o z = (x \o y) \o (<<m>> \o z)
<1> DEFINE n == <<m>>
<1>1. n \in Seq(Message)
  OBVIOUS
<1> HIDE DEF n
<1>2. \A u, v, w \in Seq(Message) : (u \o v) \o w = u \o (v \o w)
  BY ConcatAssociative
<1>3. \A u, v \in Seq(Message) : u \o v \in Seq(Message)
  BY ConcatProperties
<1>4. x \o (y \o n) = (x \o y) \o n
  BY <1>1, <1>2, ZenonT(30)
<1> DEFINE w == x \o y
<1>5. w \in Seq(Message)
  BY <1>3
<1> HIDE DEF w
<1>6. (w \o n) \o z = w \o (n \o z)
  BY <1>1, <1>2, <1>5, ZenonT(30)
<1> QED
  BY <1>4, <1>6 DEF n, w

LEMMA GrantRequestKeepsPaths ==
    ASSUME IInv, NEW c \in Cpus, GrantRequest(c)
    PROVE  Paths' = Paths
<1> DEFINE q == ringRequestQueue[c]
           e == Head(q)
           b == e.bank
           m == Sent(c, e.cmd)
<1>1. q # <<>> /\ q \in Seq(Entry) /\ c \notin tried /\ phase = Requests
  BY DEF GrantRequest, Turn, IInv, QueueInv
<1>2. e \in Entry /\ <<e>> \in Seq(Entry) /\ Tail(q) \in Seq(Entry) /\ q = <<e>> \o Tail(q)
  BY <1>1, HeadTailProperties
<1>3. b \in Banks /\ m \in Message
  BY <1>2 DEF Entry, Sent, Message
<1>4. PICK ring \in RequestRings :
          transfers' = transfers \union
              {[ring |-> ring, cpu |-> c, bank |-> b, cmd |-> e.cmd, gone |-> 0]}
  BY DEF GrantRequest
<1> DEFINE new == [ring |-> ring, cpu |-> c, bank |-> b, cmd |-> e.cmd, gone |-> 0]
<1>5. /\ transfers' = transfers \union {new} /\ new.cpu = c /\ new.bank = b /\ new.gone = 0
      /\ Sent(c, new.cmd) = m
  BY <1>4
<1>6. /\ ringRequestQueue' = [ringRequestQueue EXCEPT ![c] = Tail(@)]
      /\ UNCHANGED deliverBuffer
  BY DEF GrantRequest
<1>7. ringRequestQueue'[c] = Tail(q) /\ \A d \in Cpus \ {c} : ringRequestQueue'[d] = ringRequestQueue[d]
  BY <1>6 DEF IInv, QueueInv
<1>8. transfers \in SUBSET Transfer /\ transfers' \in SUBSET Transfer
  BY GrantRequestKeepsLinks DEF IInv, LinkInv
<1>9. \A t \in transfers : ~(t.cpu = c /\ t.gone = 0)
  BY <1>1 DEF IInv, ArbInv, Fresh
<1> HIDE DEF q, e, b, m, new
<1>10. ASSUME NEW d \in Cpus, NEW a \in Banks, NEW n, ~(d = c /\ a = b /\ n = 0)
       PROVE  Gone(transfers', d, a, n) = Gone(transfers, d, a, n)
  BY <1>5, <1>10 DEF Gone
<1>11. Gone(transfers, c, b, 0) = {} /\ Gone(transfers', c, b, 0) = {m}
  BY <1>5, <1>9 DEF Gone
<1>12. ASSUME NEW d \in Cpus, NEW a \in Banks PROVE Paths'[d][a] = Paths[d][a]
  <2> DEFINE x == Buf(deliverBuffer[a], d)
             y == Fly(Way(transfers, d, a))
             z == Que(ringRequestQueue'[d], d, a)
  <2>1. /\ Paths[d][a] = (x \o y) \o Que(ringRequestQueue[d], d, a)
        /\ Paths'[d][a] = (x \o Fly(Way(transfers', d, a))) \o z
    BY <1>6, PathsAre
  <2>2. x \in Seq(Message) /\ y \in Seq(Message)
    BY PathsType
  <2>3. CASE d = c /\ a = b
    <3>1. Fly(Way(transfers', d, a)) = y \o <<m>>
      <4>1. Enters(transfers, transfers', d, a, m)
        <5>1. \A n \in Nat \ {0} : Gone(transfers', d, a, n) = Gone(transfers, d, a, n)
          BY <1>10
        <5> QED
          BY <1>11, <2>3, <5>1 DEF Enters
      <4> QED
        BY <1>3, <1>8, <4>1, GrantedWay
    <3>2. z \in Seq(Message) /\ Que(ringRequestQueue[d], d, a) = <<m>> \o z
      <4>1. Que(<<e>> \o Tail(q), d, a) = Que(<<e>>, d, a) \o Que(Tail(q), d, a)
            /\ Que(Tail(q), d, a) \in Seq(Message)
        BY <1>2, QueConcat
      <4>2. Que(<<e>>, d, a) = <<m>>
        BY <1>2, <2>3, QueOne DEF b, m
      <4> QED
        BY <1>2, <1>7, <2>3, <4>1, <4>2 DEF q
    <3> HIDE DEF x, y, z
    <3>3. (x \o (y \o <<m>>)) \o z = (x \o y) \o (<<m>> \o z)
      BY <1>3, <2>2, <3>2, MovedAlong
    <3> QED
      BY <2>1, <3>1, <3>2, <3>3
  <2>4. CASE ~(d = c /\ a = b)
    <3>1. Way(transfers', d, a) = Way(transfers, d, a)
      <4>1. \A n \in Nat : Gone(transfers', d, a, n) = Gone(transfers, d, a, n)
        BY <1>10, <2>4
      <4>2. Flight(d, a) \in Nat
        BY FlightIsNat
      <4> QED
        BY <4>1, <4>2, SameWay
    <3>2. CASE d # c
      BY <1>7, <2>1, <3>1, <3>2
    <3>3. CASE d = c /\ a # b
      <4>1. Que(<<e>> \o Tail(q), d, a) = Que(<<e>>, d, a) \o Que(Tail(q), d, a)
            /\ Que(Tail(q), d, a) \in Seq(Message)
        BY <1>2, QueConcat
      <4>2. Que(<<e>>, d, a) = <<>>
        BY <1>2, <3>3, QueOne DEF b
      <4>3. Que(q, d, a) = Que(Tail(q), d, a)
        BY <1>2, <4>1, <4>2, ConcatEmptySeq
      <4> QED
        BY <1>7, <2>1, <3>1, <3>3, <4>3 DEF q
    <3> QED
      BY <2>4, <3>2, <3>3
  <2> QED
    BY <2>3, <2>4
<1> QED
  BY <1>12 DEF Paths

\* Where the transfer t, which has arrived, was the first of its way, and the only
\* one that has: the others keep their ways.
LEMMA LeavingWay ==
    ASSUME IInv, Apart, NEW t \in transfers, Arrived(t), transfers' = transfers \ {t}
    PROVE  /\ Fly(Way(transfers, t.cpu, t.bank))
                 = <<Sent(t.cpu, t.cmd)>> \o Fly(Way(transfers', t.cpu, t.bank))
           /\ \A d \in Cpus, a \in Banks : ~(d = t.cpu /\ a = t.bank) =>
                 Way(transfers', d, a) = Way(transfers, d, a)
<1> DEFINE c == t.cpu
           b == t.bank
           m == Sent(c, t.cmd)
<1>1. transfers \in SUBSET Transfer /\ transfers' \in SUBSET Transfer
  BY DEF IInv, LinkInv
<1>2. c \in Cpus /\ b \in Banks /\ m \in Message /\ t.gone = Flight(c, b)
  BY <1>1 DEF Transfer, Sent, Message, Arrived, Flight
<1>3. \A u \in transfers : u.cpu = c /\ u.gone = Flight(c, b) => u = t
  BY <1>2 DEF Apart
<1>4. {u \in transfers : u.cpu = c /\ u.bank = b /\ u.gone = Flight(c, b)} = {t}
  BY <1>2, <1>3
<1>5. {u \in transfers' : u.cpu = c /\ u.bank = b /\ u.gone = Flight(c, b)} = {}
  BY <1>3
<1>6. Leaves(transfers, transfers', c, b, m)
  <2>1. Gone(transfers, c, b, Flight(c, b)) = {m}
    BY <1>4 DEF Gone
  <2>2. Gone(transfers', c, b, Flight(c, b)) = {}
    BY <1>5 DEF Gone
  <2>3. ASSUME NEW n \in Nat \ {Flight(c, b)}
        PROVE  Gone(transfers', c, b, n) = Gone(transfers, c, b, n)
    BY <1>2, <2>3 DEF Gone
  <2> QED
    BY <2>1, <2>2, <2>3 DEF Leaves
<1> HIDE DEF c, b, m
<1>7. Fly(Way(transfers, c, b)) = <<m>> \o Fly(Way(transfers', c, b))
  BY <1>1, <1>2, <1>6, ArrivedWay
<1>8. ASSUME NEW d \in Cpus, NEW a \in Banks, ~(d = c /\ a = b)
      PROVE  Way(transfers', d, a) = Way(transfers, d, a)
  <2>1. \A n \in Nat : Gone(transfers', d, a, n) = Gone(transfers, d, a, n)
    BY <1>8 DEF Gone, c, b
  <2>2. Flight(d, a) \in Nat
    BY FlightIsNat
  <2> QED
    BY <2>1, <2>2, SameWay
<1> QED
  BY <1>7, <1>8 DEF c, b, m

LEMMA DeliverToBufferKeepsPaths ==
    ASSUME IInv, Apart, NEW t \in transfers, DeliverToBuffer(t)
    PROVE  Paths' = Paths
<1> DEFINE c == t.cpu
           b == t.bank
           d == AsDelivered(t)
           m == Sent(c, t.cmd)
<1>1. /\ transfers' = transfers \ {t} /\ Arrived(t)
      /\ deliverBuffer' = [deliverBuffer EXCEPT ![b] = Append(@, d)]
      /\ UNCHANGED ringRequestQueue
  BY DEF DeliverToBuffer, queueVars
<1>2. /\ c \in Cpus /\ b \in Banks /\ d \in Delivered /\ <<d>> \in Seq(Delivered)
      /\ d.cpu = c /\ Sent(c, d.cmd) = m /\ m \in Message
  <2>1. t \in Transfer
    BY DEF IInv, LinkInv
  <2> QED
    BY <2>1 DEF Transfer, AsDelivered, Delivered, Sent, Message
<1>3. /\ Fly(Way(transfers, c, b)) = <<m>> \o Fly(Way(transfers', c, b))
      /\ \A x \in Cpus, a \in Banks : ~(x = c /\ a = b) =>
            Way(transfers', x, a) = Way(transfers, x, a)
  BY <1>1, LeavingWay
<1>4. /\ deliverBuffer[b] \in Seq(Delivered) /\ deliverBuffer'[b] = Append(deliverBuffer[b], d)
      /\ \A a \in Banks \ {b} : deliverBuffer'[a] = deliverBuffer[a]
  BY <1>1, <1>2 DEF IInv, BankInv
<1>5. transfers' \in SUBSET Transfer
  BY <1>1 DEF IInv, LinkInv
<1> HIDE DEF c, b, d, m
<1>6. deliverBuffer'[b] = deliverBuffer[b] \o <<d>>
  BY <1>2, <1>4, AppendIsConcat
<1>7. ASSUME NEW x \in Cpus
      PROVE  Buf(deliverBuffer'[b], x) = Buf(deliverBuffer[b], x) \o Buf(<<d>>, x)
  <2>1. \A s, r \in Seq(Delivered) : Buf(s \o r, x) = Buf(s, x) \o Buf(r, x)
    BY BufConcat
  <2> QED
    BY <1>2, <1>4, <1>6, <2>1, ZenonT(30)
<1>8. ASSUME NEW x \in Cpus, NEW a \in Banks PROVE Paths'[x][a] = Paths[x][a]
  <2> DEFINE f == Buf(deliverBuffer[a], x)
             g == Fly(Way(transfers', x, a))
             q == Que(ringRequestQueue[x], x, a)
  <2>1. /\ Paths[x][a] = (f \o Fly(Way(transfers, x, a))) \o q
        /\ Paths'[x][a] = (Buf(deliverBuffer'[a], x) \o g) \o q
    BY <1>1, PathsAre
  <2>2. f \in Seq(Message) /\ g \in Seq(Message)
    BY <1>5, PathsType, FlyInTwo
  <2>3. CASE x = c /\ a = b
    <3>1. Buf(deliverBuffer'[a], x) = f \o <<m>>
      <4>1. Buf(<<d>>, x) = <<m>>
        BY <1>2, <2>3, BufOne
      <4> QED
        BY <1>7, <2>3, <4>1
    <3>2. Fly(Way(transfers, x, a)) = <<m>> \o g
      BY <1>3, <2>3
    <3> HIDE DEF f, g, q
    <3>3. (f \o <<m>>) \o g = f \o (<<m>> \o g)
      <4>1. <<m>> \in Seq(Message)
        BY <1>2
      <4>2. \A u, v, w \in Seq(Message) : (u \o v) \o w = u \o (v \o w)
        BY ConcatAssociative
      <4> QED
        BY <2>2, <4>1, <4>2, ZenonT(30)
    <3> QED
      BY <2>1, <3>1, <3>2, <3>3
  <2>4. CASE x # c /\ a = b
    <3>1. Buf(<<d>>, x) = <<>>
      BY <1>2, <2>4, BufOne
    <3>2. Buf(deliverBuffer'[a], x) = f \o <<>>
      BY <1>7, <2>4, <3>1
    <3>3. f \o <<>> = f
      BY <2>2, ConcatEmptySeq
    <3>4. Way(transfers', x, a) = Way(transfers, x, a)
      BY <1>3, <2>4
    <3> QED
      BY <2>1, <3>2, <3>3, <3>4
  <2>5. CASE a # b
    <3>1. Way(transfers', x, a) = Way(transfers, x, a)
      BY <1>3, <2>5
    <3> QED
      BY <1>4, <2>1, <2>5, <3>1
  <2> QED
    BY <2>3, <2>4, <2>5
<1> QED
  BY <1>8 DEF Paths

LEMMA DeliverToBankTakes ==
    ASSUME IInv, Apart, NEW t \in transfers, DeliverToBank(t)
    PROVE  Channel!Take(t.bank)
<1> DEFINE c == t.cpu
           b == t.bank
           d == AsDelivered(t)
           m == Sent(c, t.cmd)
<1>1. /\ transfers' = transfers \ {t} /\ Arrived(t) /\ deliverBuffer[b] = <<>>
      /\ Accessed(b, <<d>>)
      /\ UNCHANGED <<ringRequestQueue, ringResponseQueue, answers, deliverBuffer>>
  BY DEF DeliverToBank, queueVars
<1>2. /\ c \in Cpus /\ b \in Banks /\ d \in Delivered /\ <<d>> \in Seq(Delivered)
      /\ d.cpu = c /\ Sent(c, d.cmd) = m /\ m \in Message
  <2>1. t \in Transfer
    BY DEF IInv, LinkInv
  <2> QED
    BY <2>1 DEF Transfer, AsDelivered, Delivered, Sent, Message
<1>3. /\ Fly(Way(transfers, c, b)) = <<m>> \o Fly(Way(transfers', c, b))
      /\ \A x \in Cpus, a \in Banks : ~(x = c /\ a = b) =>
            Way(transfers', x, a) = Way(transfers, x, a)
  BY <1>1, LeavingWay
<1>4. transfers' \in SUBSET Transfer
  BY <1>1 DEF IInv, LinkInv
<1> HIDE DEF c, b, d, m
<1>5. ASSUME NEW x \in Cpus
      PROVE  /\ Paths'[x][b] \in Seq(Message)
             /\ Paths[x][b] = Buf(<<d>>, x) \o Paths'[x][b]
             /\ \A a \in Banks \ {b} : Paths'[x][a] = Paths[x][a]
  <2> DEFINE g == Fly(Way(transfers', x, b))
             q == Que(ringRequestQueue[x], x, b)
  <2>1. /\ Paths[x][b] = (Buf(<<>>, x) \o Fly(Way(transfers, x, b))) \o q
        /\ Paths'[x][b] = (Buf(<<>>, x) \o g) \o q
    BY <1>1, <1>2, PathsAre
  <2>2. g \in Seq(Message) /\ q \in Seq(Message) /\ Fly(Way(transfers, x, b)) \in Seq(Message)
    BY <1>2, <1>4, PathsType, FlyInTwo
  <2>3. Buf(<<>>, x) = <<>>
    BY <1>2, BufOne
  <2>4. Paths[x][b] = Fly(Way(transfers, x, b)) \o q /\ Paths'[x][b] = g \o q
    <3>1. \A v \in Seq(Message) : <<>> \o v = v
      BY ConcatEmptySeq
    <3> QED
      BY <2>1, <2>2, <2>3, <3>1
  <2>5. Paths'[x][b] \in Seq(Message)
    <3>1. \A v, w \in Seq(Message) : v \o w \in Seq(Message)
      BY ConcatProperties
    <3> HIDE DEF g, q
    <3> QED
      BY <2>2, <2>4, <3>1
  <2>6. Paths[x][b] = Buf(<<d>>, x) \o Paths'[x][b]
    <3>1. CASE x = c
      <4>1. Buf(<<d>>, x) = <<m>> /\ Fly(Way(transfers, x, b)) = <<m>> \o g
        BY <1>2, <1>3, <3>1, BufOne
      <4> HIDE DEF g, q
      <4>2. (<<m>> \o g) \o q = <<m>> \o (g \o q)
        <5>1. <<m>> \in Seq(Message)
          BY <1>2
        <5>2. \A u, v, w \in Seq(Message) : (u \o v) \o w = u \o (v \o w)
          BY ConcatAssociative
        <5> QED
          BY <2>2, <5>1, <5>2, ZenonT(30)
      <4> QED
        BY <2>4, <4>1, <4>2
    <3>2. CASE x # c
      <4>1. Buf(<<d>>, x) = <<>>
        BY <1>2, <3>2, BufOne
      <4>2. Paths'[x][b] = Paths[x][b]
        BY <1>2, <1>3, <2>4, <3>2
      <4>3. <<>> \o Paths'[x][b] = Paths'[x][b]
        BY <2>5, ConcatEmptySeq
      <4> QED
        BY <4>1, <4>2, <4>3
    <3> QED
      BY <3>1, <3>2
  <2>7. ASSUME NEW a \in Banks \ {b} PROVE Paths'[x][a] = Paths[x][a]
    <3>1. Way(transfers', x, a) = Way(transfers, x, a)
      BY <1>3, <2>7
    <3>2. /\ Paths[x][a] = (Buf(deliverBuffer[a], x) \o Fly(Way(transfers, x, a)))
                              \o Que(ringRequestQueue[x], x, a)
          /\ Paths'[x][a] = (Buf(deliverBuffer'[a], x) \o Fly(Way(transfers', x, a)))
                               \o Que(ringRequestQueue'[x], x, a)
      <4>1. a \in Banks
        OBVIOUS
      <4> QED
        BY <4>1, PathsAre
    <3> QED
      BY <1>1, <3>1, <3>2
  <2> QED
    BY <2>5, <2>6, <2>7
<1>6. Returning' = Returning
  BY <1>1, KeptReturning
<1>7. Channel!Take(b)
  BY <1>1, <1>2, <1>5, <1>6, TakeStep
<1> QED
  BY <1>7 DEF b

LEMMA BankUnblocksTakes ==
    ASSUME IInv, NEW b \in Banks, BankUnblocks(b)
    PROVE  Channel!Take(b)
<1> DEFINE s == deliverBuffer[b]
<1>1. PICK n \in 0 .. Len(s) :
        /\ Accessed(b, SubSeq(s, 1, n))
        /\ deliverBuffer' = [deliverBuffer EXCEPT ![b] = SubSeq(@, n + 1, Len(@))]
  BY DEF BankUnblocks
<1>2. UNCHANGED <<transfers, ringRequestQueue, ringResponseQueue, answers>>
  BY DEF BankUnblocks, queueVars, linkVars
<1> DEFINE front == SubSeq(s, 1, n)
           left == SubSeq(s, n + 1, Len(s))
<1>3. s \in Seq(Delivered) /\ Len(s) \in Nat /\ n \in Nat /\ n <= Len(s)
  BY LenProperties DEF IInv, BankInv
<1>4. front \in Seq(Delivered) /\ left \in Seq(Delivered) /\ s = front \o left
  <2>1. \A j \in 1 .. Len(s) : s[j] \in Delivered
    BY <1>3, ElementOfSeq
  <2>2. front \in Seq(Delivered) /\ left \in Seq(Delivered)
    BY <1>3, <2>1, SubSeqProperties
  <2>3. s = front \o left
    <3>1. 1 \in 1 .. Len(s) + 1 /\ n \in 1 - 1 .. Len(s) /\ Len(s) \in n .. Len(s)
      BY <1>3
    <3>2. SubSeq(s, 1, n) \o SubSeq(s, n + 1, Len(s)) = SubSeq(s, 1, Len(s))
      BY <1>3, <3>1, ConcatAdjacentSubSeq, ZenonT(30)
    <3>3. SubSeq(s, 1, Len(s)) = s
      BY <1>3, SubSeqFull
    <3> QED
      BY <3>2, <3>3
  <2> QED
    BY <2>2, <2>3
<1>5. deliverBuffer'[b] = left /\ \A a \in Banks \ {b} : deliverBuffer'[a] = deliverBuffer[a]
  BY <1>1 DEF IInv, BankInv
<1>6. Accessed(b, front)
  BY <1>1
<1> HIDE DEF s, front, left
<1>7. ASSUME NEW x \in Cpus
      PROVE  /\ Paths'[x][b] \in Seq(Message)
             /\ Paths[x][b] = Buf(front, x) \o Paths'[x][b]
             /\ \A a \in Banks \ {b} : Paths'[x][a] = Paths[x][a]
  <2> DEFINE g == Fly(Way(transfers, x, b))
             q == Que(ringRequestQueue[x], x, b)
             u == Buf(front, x)
             v == Buf(left, x)
  <2>1. /\ Paths[x][b] = (Buf(s, x) \o g) \o q /\ Paths'[x][b] = (v \o g) \o q
    BY <1>2, <1>5, PathsAre DEF s
  <2>2. /\ g \in Seq(Message) /\ q \in Seq(Message) /\ u \in Seq(Message) /\ v \in Seq(Message)
    BY <1>4, PathsType, BufConcat
  <2>3. Buf(s, x) = u \o v
    BY <1>4, BufConcat
  <2> HIDE DEF g, q, u, v
  <2>4. \A i, j, k \in Seq(Message) : (i \o j) \o k = i \o (j \o k)
    BY ConcatAssociative
  <2>5. \A i, j \in Seq(Message) : i \o j \in Seq(Message)
    BY ConcatProperties
  <2>6. v \o g \in Seq(Message) /\ (v \o g) \o q \in Seq(Message)
    BY <2>2, <2>5
  <2>7. (u \o v) \o g = u \o (v \o g)
    BY <2>2, <2>4, ZenonT(30)
  <2> DEFINE w == v \o g
  <2>8. w \in Seq(Message)
    BY <2>6
  <2> HIDE DEF w
  <2>9. (u \o w) \o q = u \o (w \o q)
    BY <2>2, <2>4, <2>8, ZenonT(30)
  <2>10. Paths[x][b] = u \o Paths'[x][b]
    BY <2>1, <2>3, <2>7, <2>9 DEF w
  <2>11. ASSUME NEW a \in Banks \ {b} PROVE Paths'[x][a] = Paths[x][a]
    <3>1. /\ Paths[x][a] = (Buf(deliverBuffer[a], x) \o Fly(Way(transfers, x, a)))
                              \o Que(ringRequestQueue[x], x, a)
          /\ Paths'[x][a] = (Buf(deliverBuffer'[a], x) \o Fly(Way(transfers', x, a)))
                               \o Que(ringRequestQueue'[x], x, a)
      <4>1. a \in Banks
        OBVIOUS
      <4> QED
        BY <4>1, PathsAre
    <3> QED
      BY <1>2, <1>5, <3>1
  <2> QED
    BY <2>1, <2>6, <2>10, <2>11 DEF u
<1>8. Returning' = Returning
  BY <1>2, KeptReturning
<1> QED
  BY <1>4, <1>6, <1>7, <1>8, TakeStep

-----------------------------------------------------------------------------
(* Time.                                                                   *)

\* What ageing keeps of the entries of a queue.
AgedAlike(s, aged) == \A n \in DOMAIN s : \E a : aged[n] = [s[n] EXCEPT !.age = a]

LEMMA AgedOnlyAges ==
    ASSUME NEW queues, NEW q \in DOMAIN queues
    PROVE  DOMAIN Aged(queues)[q] = DOMAIN queues[q] /\ AgedAlike(queues[q], Aged(queues)[q])
<1> DEFINE rank(e) == 1 + Cardinality({a \in Ages(queues) : a < e.age})
<1>1. Aged(queues)[q] = [n \in DOMAIN queues[q] |->
                            [queues[q][n] EXCEPT !.age = rank(queues[q][n])]]
  BY DEF Aged
<1> HIDE DEF rank
<1> QED
  BY <1>1 DEF AgedAlike

\* Requests that only their ages tell apart make the same path.
LEMMA QueuedAlike ==
    ASSUME NEW c \in Cpus, NEW b \in Banks, NEW s \in Seq(Entry), NEW r \in Seq(Entry),
           DOMAIN r = DOMAIN s, AgedAlike(s, r)
    PROVE  Que(r, c, b) = Que(s, c, b)
<1> DEFINE T == {x \in Entry : x.bank = b}
           f == Queued(c, b)
<1>1. f \in [T -> Message]
  BY ImagesAreMessages
<1>2. \A n \in DOMAIN s : s[n] \in Entry /\ r[n] \in Entry
  BY ElementOfSeq, LenProperties
<1>3. ASSUME NEW n \in DOMAIN s PROVE r[n].bank = s[n].bank /\ r[n].cmd = s[n].cmd
  <2>1. PICK a : r[n] = [s[n] EXCEPT !.age = a]
    BY DEF AgedAlike
  <2> QED
    BY <1>2, <2>1 DEF Entry
<1>4. Places(r, T) = Places(s, T)
  BY <1>2, <1>3 DEF Places
<1>5. ASSUME NEW n \in Places(r, T) PROVE f[r[n]] = f[s[n]]
  <2>1. n \in DOMAIN s /\ r[n] \in T /\ s[n] \in T
    BY <1>4 DEF Places
  <2>2. \A x \in T : f[x] = Sent(c, x.cmd)
    BY DEF Queued
  <2> HIDE DEF T, f
  <2> QED
    BY <1>3, <2>1, <2>2
<1> HIDE DEF T, f
<1>6. Picked(r, f) = Picked(s, f)
  BY <1>1, <1>4, <1>5, PickedAlike
<1> QED
  BY <1>6 DEF Que, f

LEMMA AgedKeepsQue ==
    ASSUME QueueInv, NEW c \in Cpus, NEW b \in Banks
    PROVE  Que(Aged(ringRequestQueue)[c], c, b) = Que(ringRequestQueue[c], c, b)
<1>1. /\ Aged(ringRequestQueue) \in [Cpus -> Seq(Entry)]
      /\ ringRequestQueue \in [Cpus -> Seq(Entry)]
  BY AgedKeeps, AgeableQueues DEF QueueInv
<1>2. c \in DOMAIN ringRequestQueue
  BY <1>1
<1>3. /\ DOMAIN Aged(ringRequestQueue)[c] = DOMAIN ringRequestQueue[c]
      /\ AgedAlike(ringRequestQueue[c], Aged(ringRequestQueue)[c])
  BY <1>2, AgedOnlyAges
<1>4. Aged(ringRequestQueue)[c] \in Seq(Entry) /\ ringRequestQueue[c] \in Seq(Entry)
  BY <1>1
<1> QED
  BY <1>3, <1>4, QueuedAlike

LEMMA AgedKeepsCount ==
    ASSUME QueueInv, NEW c \in Cpus
    PROVE  CountIn(Aged(ringResponseQueue), AnswersTo(c)) = CountIn(ringResponseQueue, AnswersTo(c))
<1> DEFINE V == AnswersTo(c)
           aged == Aged(ringResponseQueue)
<1>1. ringResponseQueue \in [Banks -> Seq(Response)] /\ aged \in [Banks -> Seq(Response)]
  BY AgedKeeps, AgeableQueues DEF QueueInv
<1>2. ASSUME NEW b \in Banks PROVE Places(aged[b], V) = Places(ringResponseQueue[b], V)
  <2> DEFINE s == ringResponseQueue[b]
             r == aged[b]
  <2>1. DOMAIN r = DOMAIN s /\ AgedAlike(s, r)
    <3>1. b \in DOMAIN ringResponseQueue
      BY <1>1
    <3> QED
      BY <3>1, AgedOnlyAges
  <2>2. s \in Seq(Response) /\ r \in Seq(Response)
    BY <1>1
  <2> HIDE DEF s, r
  <2>3. \A n \in DOMAIN s : s[n] \in Response /\ r[n] \in Response
    BY <2>1, <2>2, ElementOfSeq, LenProperties
  <2>4. ASSUME NEW n \in DOMAIN s PROVE r[n].cpu = s[n].cpu
    <3>1. PICK a : r[n] = [s[n] EXCEPT !.age = a]
      BY <2>1 DEF AgedAlike
    <3> QED
      BY <2>3, <3>1 DEF Response
  <2>5. Places(r, V) = Places(s, V)
    BY <2>1, <2>3, <2>4 DEF Places, AnswersTo
  <2> QED
    BY <2>5 DEF s, r
<1>3. DOMAIN ringResponseQueue = Banks /\ DOMAIN aged = Banks
  BY <1>1
<1> HIDE DEF V, aged
<1>4. CountIn(aged, V) = CountIn(ringResponseQueue, V)
  BY <1>2, <1>3, CountInAlike
<1> QED
  BY <1>4 DEF V, aged

\* The transfers of processor c to bank b after a tick.
LEMMA ShiftedWay ==
    ASSUME NEW ts \in SUBSET Transfer, NEW c \in Cpus, NEW b \in Banks,
           \A t \in ts : ~Arrived(t)
    PROVE  Shifts(ts, Moved(ts), c, b)
<1>1. Gone(ts, c, b, Flight(c, b)) = {}
  BY DEF Gone, Arrived, Flight
<1>2. \A t \in ts : t.gone \in Nat
  BY DEF Transfer
<1>3. Gone(Moved(ts), c, b, 0) = {}
  <2>1. \A m \in Moved(ts) : m.gone # 0
    <3> SUFFICES ASSUME NEW m \in Moved(ts) PROVE m.gone # 0
      OBVIOUS
    <3>1. PICK t \in ts : m.gone = t.gone + 1
      BY MovedRequest
    <3> QED
      BY <1>2, <3>1
  <2> QED
    BY <2>1 DEF Gone
<1>4. ASSUME NEW n \in Nat PROVE Gone(Moved(ts), c, b, n + 1) = Gone(ts, c, b, n)
  <2>1. ASSUME NEW x \in Gone(Moved(ts), c, b, n + 1) PROVE x \in Gone(ts, c, b, n)
    <3>1. PICK m \in Moved(ts) : x = Sent(c, m.cmd) /\ m.cpu = c /\ m.bank = b /\ m.gone = n + 1
      BY DEF Gone
    <3>2. PICK t \in ts : m = [t EXCEPT !.gone = @ + 1] /\ m.gone = t.gone + 1
                          /\ m.cpu = t.cpu /\ m.bank = t.bank
      BY MovedRequest
    <3>3. t.gone = n
      BY <1>2, <3>1, <3>2
    <3>4. m.cmd = t.cmd
      BY <3>2 DEF Transfer
    <3> QED
      BY <3>1, <3>2, <3>3, <3>4 DEF Gone
  <2>2. ASSUME NEW x \in Gone(ts, c, b, n) PROVE x \in Gone(Moved(ts), c, b, n + 1)
    <3>1. PICK t \in ts : x = Sent(c, t.cmd) /\ t.cpu = c /\ t.bank = b /\ t.gone = n
      BY DEF Gone
    <3> DEFINE m == [t EXCEPT !.gone = @ + 1]
    <3>2. m \in Moved(ts)
      BY DEF Moved
    <3>3. m.cmd = t.cmd /\ m.cpu = c /\ m.bank = b /\ m.gone = n + 1
      BY <3>1 DEF Transfer
    <3> HIDE DEF m
    <3> QED
      BY <3>1, <3>2, <3>3 DEF Gone
  <2> QED
    BY <2>1, <2>2
<1> QED
  BY <1>1, <1>3, <1>4 DEF Shifts

LEMMA MovedType ==
    ASSUME NEW ts \in SUBSET Transfer
    PROVE  Moved(ts) \in SUBSET Transfer
<1>1. \A m \in Moved(ts) : m \in Transfer
  BY MovedRequest
<1> QED
  BY <1>1

\* The answers on their way to processor c.
GoingTo(as, c) == {t \in as : t.cpu = c}

LEMMA MovedAnswersCount ==
    ASSUME NEW as \in SUBSET Answer, IsFiniteSet(as), NEW c
    PROVE  Cardinality(GoingTo(Moved(as), c)) = Cardinality(GoingTo(as, c))
<1> DEFINE A == GoingTo(as, c)
           B == GoingTo(Moved(as), c)
           f == [t \in A |-> [t EXCEPT !.gone = @ + 1]]
<1>1. \A t \in A : t \in as /\ t \in Answer /\ t.cpu = c
  BY DEF GoingTo
<1>2. ASSUME NEW t \in A PROVE f[t] \in B
  <2>1. [t EXCEPT !.gone = @ + 1] \in Moved(as)
    BY <1>1 DEF Moved
  <2>2. [t EXCEPT !.gone = @ + 1].cpu = c
    BY <1>1 DEF Answer
  <2> QED
    BY <2>1, <2>2 DEF GoingTo
<1>3. ASSUME NEW m \in B PROVE \E t \in A : f[t] = m
  <2>1. m \in Moved(as) /\ m.cpu = c
    BY DEF GoingTo
  <2>2. PICK t \in as : m = [t EXCEPT !.gone = @ + 1] /\ m.cpu = t.cpu
    <3>1. PICK t \in as : m = [t EXCEPT !.gone = @ + 1]
      BY <2>1 DEF Moved
    <3> QED
      BY <3>1 DEF Answer
  <2>3. t \in A
    BY <2>1, <2>2 DEF GoingTo
  <2> QED
    BY <2>2, <2>3
<1>4. ASSUME NEW t \in A, NEW u \in A, f[t] = f[u] PROVE t = u
  <2>1. t \in Answer /\ u \in Answer
    BY <1>1
  <2>2. [t EXCEPT !.gone = @ + 1] = [u EXCEPT !.gone = @ + 1]
    BY <1>4
  <2>3. t.ring = u.ring /\ t.cpu = u.cpu /\ t.bank = u.bank
        /\ t.gone + 1 = u.gone + 1 /\ t.gone \in Nat /\ u.gone \in Nat
    BY <2>1, <2>2 DEF Answer
  <2>4. t.gone = u.gone
    BY <2>3
  <2> QED
    BY <2>1, <2>3, <2>4 DEF Answer
<1>5. f \in [A -> B]
  BY <1>2
<1>6. IsFiniteSet(A)
  <2>1. A \subseteq as
    BY <1>1
  <2> HIDE DEF A
  <2> QED
    BY <2>1, FS_Subset
<1> HIDE DEF A, B, f
<1>7. Cardinality(B) = Cardinality(A)
  BY <1>3, <1>4, <1>5, <1>6, BijectionCounts
<1> QED
  BY <1>7 DEF A, B

LEMMA AgedPaths ==
    ASSUME IInv, ringRequestQueue' = Aged(ringRequestQueue), UNCHANGED deliverBuffer,
           \/ transfers' = transfers
           \/ transfers' = Moved(transfers) /\ \A t \in transfers : ~Arrived(t)
    PROVE  Paths' = Paths
<1>1. ASSUME NEW c \in Cpus, NEW b \in Banks PROVE Paths'[c][b] = Paths[c][b]
  <2>1. Que(ringRequestQueue'[c], c, b) = Que(ringRequestQueue[c], c, b)
    BY AgedKeepsQue DEF IInv
  <2>2. Fly(Way(transfers', c, b)) = Fly(Way(transfers, c, b))
    <3>1. CASE transfers' = transfers
      BY <3>1
    <3>2. CASE transfers' = Moved(transfers) /\ \A t \in transfers : ~Arrived(t)
      <4>1. transfers \in SUBSET Transfer
        BY DEF IInv, LinkInv
      <4>2. transfers' \in SUBSET Transfer /\ Shifts(transfers, transfers', c, b)
        BY <3>2, <4>1, MovedType, ShiftedWay
      <4> QED
        BY <4>1, <4>2, AdvancedWay
    <3> QED
      BY <3>1, <3>2
  <2> QED
    BY <2>1, <2>2, PathsAre
<1> QED
  BY <1>1 DEF Paths

LEMMA TickStutters ==
    ASSUME IInv, Tick
    PROVE  UNCHANGED Channel!vars
<1>1. /\ ringRequestQueue' = Aged(ringRequestQueue)
      /\ ringResponseQueue' = Aged(ringResponseQueue)
      /\ UNCHANGED <<deliverBuffer, serving, transfers, answers>>
  BY DEF Tick, linkVars, bankVars
<1>2. Paths' = Paths
  BY <1>1, AgedPaths
<1>3. Returning' = Returning
  <2>1. \A c \in Cpus : CountIn(ringResponseQueue', AnswersTo(c))
                           = CountIn(ringResponseQueue, AnswersTo(c))
    BY <1>1, AgedKeepsCount DEF IInv
  <2> QED
    BY <1>1, <2>1 DEF Returning, AnswersTo
<1> QED
  BY <1>1, <1>2, <1>3, StutterStep

LEMMA AdvanceStutters ==
    ASSUME IInv, WayInv, Advance
    PROVE  UNCHANGED Channel!vars
<1>1. /\ ringRequestQueue' = Aged(ringRequestQueue)
      /\ ringResponseQueue' = Aged(ringResponseQueue)
      /\ transfers' = Moved(transfers) /\ answers' = Moved(answers)
      /\ UNCHANGED <<deliverBuffer, serving>>
      /\ \A t \in transfers : ~Arrived(t)
  BY DEF Advance, NothingDue, bankVars
<1>2. Paths' = Paths
  BY <1>1, AgedPaths
<1>3. Returning' = Returning
  <2>1. \A c \in Cpus : CountIn(ringResponseQueue', AnswersTo(c))
                           = CountIn(ringResponseQueue, AnswersTo(c))
    BY <1>1, AgedKeepsCount DEF IInv
  <2>2. \A c \in Cpus : Cardinality(GoingTo(answers', c)) = Cardinality(GoingTo(answers, c))
    BY <1>1, MovedAnswersCount DEF IInv, LinkInv, WayInv
  <2> QED
    BY <2>1, <2>2 DEF Returning, AnswersTo, GoingTo
<1> QED
  BY <1>1, <1>2, <1>3, StutterStep

-----------------------------------------------------------------------------
(* The answers.                                                            *)

\* What a processor will still get, of the queues and of what is under way.
Waits(queues, c) == CountIn(queues, AnswersTo(c))

LEMMA WaitsAre ==
    ASSUME NEW queues \in [Banks -> Seq(Response)], NEW c
    PROVE  Waits(queues, c) \in Nat
<1>1. IsFiniteSet(Banks)
  BY FS_Interval, RingAssumption DEF Banks
<1> QED
  BY <1>1, PlacesInAre DEF Waits

LEMMA GoingIsNat ==
    ASSUME NEW as, IsFiniteSet(as), NEW c
    PROVE  IsFiniteSet(GoingTo(as, c)) /\ Cardinality(GoingTo(as, c)) \in Nat
<1>1. GoingTo(as, c) \subseteq as
  BY DEF GoingTo
<1> QED
  BY <1>1, FS_Subset, FS_CardinalityType

LEMMA ReturningIs ==
    /\ Returning = [c \in Cpus |-> Waits(ringResponseQueue, c) + Cardinality(GoingTo(answers, c))]
    /\ Returning' = [c \in Cpus |-> Waits(ringResponseQueue', c) + Cardinality(GoingTo(answers', c))]
BY DEF Returning, Waits, GoingTo, AnswersTo

LEMMA ReturningType ==
    ASSUME QueueInv, IsFiniteSet(answers)
    PROVE  /\ Returning \in [Cpus -> Nat]
           /\ \A c \in Cpus : /\ Waits(ringResponseQueue, c) \in Nat
                              /\ Cardinality(GoingTo(answers, c)) \in Nat
<1>1. ASSUME NEW c \in Cpus
      PROVE  Waits(ringResponseQueue, c) \in Nat /\ Cardinality(GoingTo(answers, c)) \in Nat
  BY WaitsAre, GoingIsNat DEF QueueInv
<1>2. \A c \in Cpus : Waits(ringResponseQueue, c) + Cardinality(GoingTo(answers, c)) \in Nat
  BY <1>1
<1> QED
  BY <1>1, <1>2, ReturningIs

LEMMA SendResponseAnswers ==
    ASSUME IInv, WayInv, NEW b \in Banks, NEW c \in Cpus, SendResponse(b, c)
    PROVE  Channel!Answer(b, c)
<1> DEFINE r == [cpu |-> c, age |-> 0]
<1>1. /\ serving[b][c] > 0 /\ serving' = [serving EXCEPT ![b][c] = @ - 1]
      /\ ringResponseQueue' = [ringResponseQueue EXCEPT ![b] = Append(@, r)]
      /\ UNCHANGED <<deliverBuffer, transfers, ringRequestQueue, answers>>
  BY DEF SendResponse, linkVars
<1>2. r \in Response /\ r.cpu = c /\ ringResponseQueue \in [Banks -> Seq(Response)]
  BY DEF IInv, QueueInv, Response
<1>3. IsFiniteSet(Banks)
  BY FS_Interval, RingAssumption DEF Banks
<1> HIDE DEF r
<1>4. ASSUME NEW d \in Cpus
      PROVE  Waits(ringResponseQueue', d) = Waits(ringResponseQueue, d) + IF d = c THEN 1 ELSE 0
  <2>1. CountIn(WithLast(ringResponseQueue, b, r), AnswersTo(d))
           = CountIn(ringResponseQueue, AnswersTo(d)) + IF r \in AnswersTo(d) THEN 1 ELSE 0
    BY <1>2, <1>3, CountInAppend
  <2>2. r \in AnswersTo(d) <=> d = c
    BY <1>2 DEF AnswersTo
  <2> QED
    BY <1>1, <2>1, <2>2 DEF WithLast, Waits
<1>5. Returning' = [Returning EXCEPT ![c] = @ + 1]
  <2>1. Returning \in [Cpus -> Nat] /\ \A d \in Cpus : /\ Waits(ringResponseQueue, d) \in Nat
                                                      /\ Cardinality(GoingTo(answers, d)) \in Nat
    BY ReturningType DEF IInv, WayInv
  <2>2. ASSUME NEW d \in Cpus PROVE Returning'[d] = Returning[d] + IF d = c THEN 1 ELSE 0
    <3> DEFINE x == Waits(ringResponseQueue, d)
               y == Cardinality(GoingTo(answers, d))
               z == Waits(ringResponseQueue', d)
    <3>1. /\ x \in Nat /\ y \in Nat /\ z = x + (IF d = c THEN 1 ELSE 0)
          /\ Returning[d] = x + y /\ Returning'[d] = z + y
      BY <1>1, <1>4, <2>1, ReturningIs
    <3> HIDE DEF x, y, z
    <3> QED
      BY <3>1
  <2>3. DOMAIN Returning = Cpus /\ DOMAIN Returning' = Cpus
        /\ Returning' = [d \in Cpus |-> Returning'[d]]
    BY ReturningIs
  <2> QED
    BY <2>1, <2>2, <2>3
<1>6. Paths' = Paths
  BY <1>1, KeptPaths
<1> QED
  BY <1>1, <1>5, <1>6 DEF Channel!Answer

\* The answer that is granted is one that was not under way: its links were free.
LEMMA GrantedIsNew ==
    ASSUME IInv, NEW c \in Cpus, NEW b \in Banks, NEW ring \in ResponseRings,
           ResponseLinks(ring, c, b) \intersect ringLinkOccupied = {}
    PROVE  [ring |-> ring, cpu |-> c, bank |-> b, gone |-> 0] \notin answers
<1> DEFINE u == [ring |-> ring, cpu |-> c, bank |-> b, gone |-> 0]
<1>1. u.ring = ring /\ u.cpu = c /\ u.bank = b /\ u.gone = 0
  OBVIOUS
<1> HIDE DEF u
<1> SUFFICES ASSUME u \in answers PROVE FALSE
  BY DEF u
<1>2. 1 \in 1 .. Hops(c, b) /\ Ahead(1) \in Nat
  BY HopsIsNat, AheadIsNat
<1>3. Ahead(1) # Ahead(1) - u.gone
  BY <1>1, <1>2, NewAnswerMeetsNone DEF IInv
<1> QED
  BY <1>1, <1>2, <1>3

LEMMA GrantResponseStutters ==
    ASSUME IInv, WayInv, NEW b \in Banks, GrantResponse(b)
    PROVE  UNCHANGED Channel!vars
<1> DEFINE q == ringResponseQueue[b]
           c == Head(q).cpu
<1>1. q # <<>> /\ ringResponseQueue' = [ringResponseQueue EXCEPT ![b] = Tail(@)]
      /\ UNCHANGED <<deliverBuffer, transfers, ringRequestQueue, serving>>
  BY DEF GrantResponse, Turn, bankVars
<1>2. PICK ring \in ResponseRings :
         /\ ResponseLinks(ring, c, b) \intersect ringLinkOccupied = {}
         /\ answers' = answers \union {[ring |-> ring, cpu |-> c, bank |-> b, gone |-> 0]}
  BY DEF GrantResponse, First, RingsBack
<1> DEFINE new == [ring |-> ring, cpu |-> c, bank |-> b, gone |-> 0]
<1>3. c \in Cpus /\ Head(q) \in Response
  <2>1. q \in Seq(Response)
    BY DEF IInv, QueueInv
  <2>2. Head(q) \in Response
    BY <1>1, <2>1, HeadTailProperties
  <2> QED
    BY <2>2 DEF Response
<1>4. answers' = answers \union {new} /\ new \notin answers /\ new.cpu = c
  BY <1>2, <1>3, GrantedIsNew
<1> HIDE DEF new
<1>5. ringResponseQueue \in [Banks -> Seq(Response)] /\ IsFiniteSet(Banks)
  BY FS_Interval, RingAssumption DEF IInv, QueueInv, Banks
<1>6. ASSUME NEW d \in Cpus
      PROVE  /\ Waits(ringResponseQueue, d) = Waits(ringResponseQueue', d) + IF d = c THEN 1 ELSE 0
             /\ Waits(ringResponseQueue', d) \in Nat
  <2> DEFINE V == AnswersTo(d)
             G == {b}
             left == WithoutHeads(ringResponseQueue, Banks, G)
  <2>1. left = ringResponseQueue'
    BY <1>1, <1>5 DEF WithoutHeads
  <2>2. (\E a \in G : Head(ringResponseQueue[a]) \in V) <=> d = c
    BY <1>3 DEF AnswersTo
  <2>3. /\ G \in SUBSET Banks /\ \A a \in G : ringResponseQueue[a] # <<>>
        /\ \A a, e \in G : Head(ringResponseQueue[a]) \in V /\ Head(ringResponseQueue[e]) \in V => a = e
    BY <1>1
  <2> HIDE DEF V, G, left
  <2>4. /\ CountIn(ringResponseQueue, V)
               = CountIn(WithoutHeads(ringResponseQueue, Banks, G), V)
                    + IF \E a \in G : Head(ringResponseQueue[a]) \in V THEN 1 ELSE 0
        /\ CountIn(WithoutHeads(ringResponseQueue, Banks, G), V) \in Nat
    BY <1>5, <2>3, CountInTails
  <2> HIDE DEF c
  <2> QED
    BY <2>1, <2>2, <2>4 DEF left, V, Waits
<1>7. ASSUME NEW d \in Cpus
      PROVE  /\ Cardinality(GoingTo(answers', d))
                   = Cardinality(GoingTo(answers, d)) + IF d = c THEN 1 ELSE 0
             /\ Cardinality(GoingTo(answers, d)) \in Nat
  <2>1. IsFiniteSet(GoingTo(answers, d)) /\ Cardinality(GoingTo(answers, d)) \in Nat
    BY GoingIsNat DEF WayInv
  <2>2. CASE d = c
    <3>1. GoingTo(answers', d) = GoingTo(answers, d) \union {new} /\ new \notin GoingTo(answers, d)
      BY <1>4, <2>2 DEF GoingTo
    <3> QED
      BY <2>1, <2>2, <3>1, FS_AddElement
  <2>3. CASE d # c
    <3>1. GoingTo(answers', d) = GoingTo(answers, d)
      BY <1>4, <2>3 DEF GoingTo
    <3> QED
      BY <2>1, <2>3, <3>1
  <2> QED
    BY <2>2, <2>3
<1>8. Returning' = Returning
  <2>1. ASSUME NEW d \in Cpus
        PROVE  Waits(ringResponseQueue', d) + Cardinality(GoingTo(answers', d))
                  = Waits(ringResponseQueue, d) + Cardinality(GoingTo(answers, d))
    <3> DEFINE x == Waits(ringResponseQueue, d)
               y == Cardinality(GoingTo(answers, d))
               v == Waits(ringResponseQueue', d)
               w == Cardinality(GoingTo(answers', d))
               k == IF d = c THEN 1 ELSE 0
    <3>1. x = v + k /\ w = y + k /\ v \in Nat /\ y \in Nat /\ k \in Nat
      BY <1>6, <1>7
    <3> HIDE DEF x, y, v, w, k
    <3>2. v + w = x + y
      BY <3>1
    <3> QED
      BY <3>2 DEF x, y, v, w
  <2> QED
    BY <2>1, ReturningIs
<1>9. Paths' = Paths
  BY <1>1, KeptPaths
<1> QED
  BY <1>1, <1>8, <1>9, StutterStep

LEMMA DeliverToCacheReceives ==
    ASSUME IInv, WayInv, NEW t \in answers, DeliverToCache(t)
    PROVE  t.cpu \in Cpus /\ Channel!Receive(t.cpu)
<1> DEFINE c == t.cpu
<1>1. /\ answers' = answers \ {t}
      /\ UNCHANGED <<deliverBuffer, transfers, ringRequestQueue, serving, ringResponseQueue>>
  BY DEF DeliverToCache, queueVars, bankVars
<1>2. c \in Cpus
  BY DEF IInv, LinkInv, Answer
<1>3. ASSUME NEW d \in Cpus
      PROVE  /\ Cardinality(GoingTo(answers, d))
                   = Cardinality(GoingTo(answers', d)) + IF d = c THEN 1 ELSE 0
             /\ Cardinality(GoingTo(answers', d)) \in Nat
             /\ Waits(ringResponseQueue, d) \in Nat
  <2>1. /\ IsFiniteSet(GoingTo(answers, d)) /\ Cardinality(GoingTo(answers, d)) \in Nat
        /\ Waits(ringResponseQueue, d) \in Nat
    BY GoingIsNat, WaitsAre DEF WayInv, IInv, QueueInv
  <2>2. CASE d = c
    <3>1. GoingTo(answers', d) = GoingTo(answers, d) \ {t} /\ t \in GoingTo(answers, d)
      BY <1>1, <2>2 DEF GoingTo
    <3>2. IsFiniteSet(GoingTo(answers', d))
          /\ Cardinality(GoingTo(answers', d)) = Cardinality(GoingTo(answers, d)) - 1
      BY <2>1, <3>1, FS_RemoveElement
    <3>3. Cardinality(GoingTo(answers', d)) \in Nat
      BY <3>2, FS_CardinalityType
    <3> QED
      BY <2>1, <2>2, <3>2, <3>3
  <2>3. CASE d # c
    <3>1. GoingTo(answers', d) = GoingTo(answers, d)
      BY <1>1, <2>3 DEF GoingTo
    <3> QED
      BY <2>1, <2>3, <3>1
  <2> QED
    BY <2>2, <2>3
<1> HIDE DEF c
<1>4. ASSUME NEW d \in Cpus
      PROVE  Returning[d] = Returning'[d] + (IF d = c THEN 1 ELSE 0) /\ Returning'[d] \in Nat
  <2> DEFINE x == Waits(ringResponseQueue, d)
             y == Cardinality(GoingTo(answers, d))
             w == Cardinality(GoingTo(answers', d))
  <2>1. /\ x \in Nat /\ w \in Nat /\ y = w + (IF d = c THEN 1 ELSE 0)
        /\ Returning[d] = x + y /\ Returning'[d] = x + w
    BY <1>1, <1>3, ReturningIs
  <2> HIDE DEF x, y, w
  <2> QED
    BY <2>1
<1>5. Returning[c] > 0 /\ Returning' = [Returning EXCEPT ![c] = @ - 1]
  <2>1. /\ Returning = [d \in Cpus |-> Returning[d]]
        /\ Returning' = [d \in Cpus |-> Returning'[d]]
    BY ReturningIs
  <2>2. Returning[c] = Returning'[c] + 1 /\ Returning'[c] \in Nat
    BY <1>2, <1>4
  <2>3. \A d \in Cpus \ {c} : Returning'[d] = Returning[d]
    BY <1>4
  <2>4. Returning'[c] = Returning[c] - 1 /\ Returning[c] > 0
    BY <2>2
  <2> QED
    BY <1>2, <2>1, <2>3, <2>4
<1>6. Paths' = Paths
  BY <1>1, KeptPaths
<1>7. Channel!Receive(c)
  BY <1>1, <1>5, <1>6 DEF Channel!Receive
<1> QED
  BY <1>2, <1>7 DEF c

-----------------------------------------------------------------------------
(* The refinement.                                                         *)

LEMMA InitRefines == Init => Channel!Init
<1> SUFFICES ASSUME Init PROVE Channel!Init
  OBVIOUS
<1>1. ASSUME NEW c \in Cpus, NEW b \in Banks PROVE Paths[c][b] = <<>>
  <2>1. deliverBuffer[b] = <<>> /\ transfers = {} /\ ringRequestQueue[c] = <<>>
    BY DEF Init
  <2>2. Buf(<<>>, c) = <<>>
    <3>1. \E d \in Delivered : TRUE
      <4>1. [cpu |-> c, cmd |-> Read] \in Delivered
        BY DEF Delivered
      <4> QED
        BY <4>1
    <3> QED
      BY <3>1, BufOne
  <2>3. Que(<<>>, c, b) = <<>>
    <3>1. \E e \in Entry : TRUE
      <4>1. [bank |-> b, cmd |-> Read, age |-> 0] \in Entry
        BY DEF Entry
      <4> QED
        BY <4>1
    <3> QED
      BY <3>1, QueOne
  <2>4. Fly(Way({}, c, b)) = <<>>
    <3>1. \A n \in 1 .. Len(Way({}, c, b)) : Way({}, c, b)[n] \notin {{m} : m \in Message}
      <4>1. \A n : Gone({}, c, b, n) = {}
        BY DEF Gone
      <4>2. Hop * Hops(c, b) + 1 \in Nat
        BY FlightIsNat DEF Flight
      <4>3. Way({}, c, b) = [n \in 1 .. Hop * Hops(c, b) + 1 |-> {}]
        BY <4>1 DEF Way
      <4>4. Len(Way({}, c, b)) = Hop * Hops(c, b) + 1
        BY <4>2, <4>3
      <4>5. \A n \in 1 .. Len(Way({}, c, b)) : Way({}, c, b)[n] = {}
        BY <4>3, <4>4
      <4>6. \A m : {m} # {}
        OBVIOUS
      <4> QED
        BY <4>5, <4>6
    <3>2. Way({}, c, b) \in Seq(SUBSET Message)
      BY WayInTwo
    <3> DEFINE T == {{m} : m \in Message}
    <3>3. Alone \in [T -> Message]
      BY AloneIs
    <3> HIDE DEF T
    <3> QED
      BY <3>1, <3>2, <3>3, PickedNone DEF Fly, T
  <2>5. <<>> \o <<>> = <<>>
    OBVIOUS
  <2> QED
    BY <2>1, <2>2, <2>3, <2>4, <2>5, PathsAre
<1>2. ASSUME NEW c \in Cpus PROVE Returning[c] = 0
  <2>1. Waits(ringResponseQueue, c) = 0
    <3>1. \A q \in DOMAIN ringResponseQueue : ringResponseQueue[q] = <<>>
      BY DEF Init
    <3> QED
      BY <3>1, CountInOfEmpty DEF Waits
  <2>2. Cardinality(GoingTo(answers, c)) = 0
    <3>1. GoingTo(answers, c) = {}
      BY DEF Init, GoingTo
    <3> QED
      BY <3>1, FS_EmptySet
  <2>3. Returning[c] = Waits(ringResponseQueue, c) + Cardinality(GoingTo(answers, c))
    BY ReturningIs
  <2> QED
    BY <2>1, <2>2, <2>3
<1>3. Paths = [c \in Cpus |-> [b \in Banks |-> <<>>]]
  <2>1. Paths = [c \in Cpus |-> [b \in Banks |-> Paths[c][b]]]
    BY DEF Paths
  <2> QED
    BY <1>1, <2>1
<1>4. Returning = [c \in Cpus |-> 0]
  BY <1>2, ReturningIs
<1> QED
  BY <1>3, <1>4 DEF Init, Channel!Init

LEMMA StepRefines == IInv /\ WayInv /\ [Next]_vars => [Channel!Next]_(Channel!vars)
<1> SUFFICES ASSUME IInv, WayInv, [Next]_vars PROVE [Channel!Next]_(Channel!vars)
  OBVIOUS
<1>1. ASSUME NEW c \in Cpus, NEW b \in Banks, NEW cmd \in {Read, Writeback},
             SendRequest(c, b, cmd)
      PROVE  Channel!Next
  BY <1>1, SendRequestSends DEF Channel!Next
<1>2. ASSUME NEW c \in Cpus, NEW b \in Banks, SendResponse(b, c) PROVE Channel!Next
  BY <1>2, SendResponseAnswers DEF Channel!Next
<1>3. ASSUME StartArbitration \/ RequestsServed \/ ResponsesServed
      PROVE  UNCHANGED Channel!vars
  BY <1>3, KeptPaths, KeptReturning, StutterStep
     DEF StartArbitration, RequestsServed, ResponsesServed, queueVars, linkVars, bankVars
<1>4. ASSUME NEW c \in Cpus, GrantRequest(c) PROVE UNCHANGED Channel!vars
  <2>1. UNCHANGED <<serving, ringResponseQueue, answers>>
    BY <1>4 DEF GrantRequest
  <2> QED
    BY <1>4, <2>1, GrantRequestKeepsPaths, KeptReturning, StutterStep
<1>5. ASSUME NEW b \in Banks, GrantResponse(b) PROVE UNCHANGED Channel!vars
  BY <1>5, GrantResponseStutters
<1>6. ASSUME NEW b \in Banks, BankUnblocks(b) PROVE Channel!Next
  BY <1>6, BankUnblocksTakes DEF Channel!Next
<1>7. ASSUME NEW b \in Banks, BankBlocks(b) PROVE UNCHANGED Channel!vars
  BY <1>7, KeptPaths, KeptReturning, StutterStep DEF BankBlocks, queueVars, linkVars
<1>8. ASSUME NEW t \in transfers, DeliverToBank(t) PROVE Channel!Next
  <2>1. t.bank \in Banks
    BY TransferTo DEF IInv
  <2> QED
    BY <1>8, <2>1, DeliverToBankTakes DEF Channel!Next, WayInv
<1>9. ASSUME NEW t \in transfers, DeliverToBuffer(t) PROVE UNCHANGED Channel!vars
  <2>1. UNCHANGED <<serving, ringResponseQueue, answers>>
    BY <1>9 DEF DeliverToBuffer, queueVars
  <2> QED
    BY <1>9, <2>1, DeliverToBufferKeepsPaths, KeptReturning, StutterStep DEF WayInv
<1>10. ASSUME NEW t \in answers, DeliverToCache(t) PROVE Channel!Next
  BY <1>10, DeliverToCacheReceives DEF Channel!Next
<1>11. ASSUME UNCHANGED vars PROVE UNCHANGED Channel!vars
  BY <1>11, KeptPaths, KeptReturning, StutterStep DEF vars, queueVars, linkVars, bankVars
<1> QED
  BY <1>1, <1>2, <1>3, <1>4, <1>5, <1>6, <1>7, <1>8, <1>9, <1>10, <1>11,
     TickStutters, AdvanceStutters DEF Next

\* The ring implements the channel: with unequal ways and several rings each bank
\* gets what a processor sends it in the order it was sent, each request once, and
\* each read is answered once.
THEOREM RingIsAChannel == Spec => ChannelSpec
<1>1. Spec => [](IInv /\ WayInv)
  BY Inductive, WayInvHolds, PTL
<1> QED
  BY <1>1, InitRefines, StepRefines, PTL DEF Spec, ChannelSpec, Channel!Spec
=============================================================================
