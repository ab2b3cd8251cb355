-------------------------------- MODULE Ring --------------------------------
(***************************************************************************)
(* The ring between the private caches of the processors and the banks of  *)
(* the shared cache, class Ring.                                           *)
(*                                                                         *)
(* The processors lie on one side of the ring, the banks on the other; a   *)
(* request takes the shorter way round, an answer the same way back.  When *)
(* a transfer is granted every link of its path is reserved for the tick   *)
(* in which it will get there.  The arbitration serves the queues oldest   *)
(* head first and stops at the first it cannot serve.                      *)
(*                                                                         *)
(* The unit of time is arbitrationDelay: Advance leads to the next tick in *)
(* which an arbitration may be scheduled, Tick to a later one before that. *)
(* An arbitration is one event; its loop over the queues is a sequence of  *)
(* steps here, between which nothing else happens (phase).  How requests   *)
(* are retrieved from the caches is what Crossbar models, of the class     *)
(* both derive from.  This is the detailed mode without the                *)
(* fixedRoundtripLat option; interference estimates are left out.          *)
(***************************************************************************)
EXTENDS Integers, FiniteSets, SequencesExt, FiniteSetsExt, Selection

CONSTANTS
    cpu_count,
    sharedCacheBankCount,
    Hop,                  \* transferDelay / arbitrationDelay
    numberOfRequestRings, numberOfResponseRings,
    queueSize,
    recvBufferSize,
    Traffic,              \* what the caches send: processor, bank, command
    Outstanding,          \* the bound on the requests a processor has under way
    Read, Writeback,
    Clockwise, Counterclockwise,
    Idle, Due, Soon,      \* arbEvent: not scheduled, for now, for the next time
    Off, Requests, Responses  \* what is being arbitrated

Cpus == 0 .. (cpu_count - 1)
Banks == 0 .. (sharedCacheBankCount - 1)
RequestRings == 0 .. (numberOfRequestRings - 1)
ResponseRings ==
    numberOfRequestRings .. (numberOfRequestRings + numberOfResponseRings - 1)

TOP_LINK_ID == 2000
BOTTOM_LINK_ID == 3000

ASSUME RingAssumption ==
    /\ cpu_count \in Nat \ {0} /\ sharedCacheBankCount \in Nat \ {0}
    /\ cpu_count + sharedCacheBankCount < TOP_LINK_ID
    /\ Hop \in Nat \ {0}
    /\ numberOfRequestRings \in Nat \ {0} /\ numberOfResponseRings \in Nat \ {0}
    /\ queueSize \in Nat \ {0} /\ recvBufferSize \in Nat \ {0}
    /\ Traffic \subseteq (Cpus \X Banks \X {Read, Writeback})
    /\ Outstanding \in [Cpus -> Nat]
    /\ Read # Writeback /\ Clockwise # Counterclockwise
    /\ Idle # Due /\ Idle # Soon /\ Due # Soon
    /\ Off # Requests /\ Off # Responses /\ Requests # Responses

VARIABLES
    ringRequestQueue,    \* of a processor
    blockedLocalQueues,  \* the processors whose queue is full
    ringResponseQueue,   \* of a bank
    ringLinkOccupied,    \* the reservations of the links
    transfers,           \* the deliver events of the requests
    answers,             \* the deliver events of the answers
    inFlightRequests,    \* of a bank: granted to it, not yet accessed
    blockedInterfaces,   \* the banks that are blocked
    deliverBuffer,       \* of a bank
    serving,             \* the reads a bank has to answer, for each processor
    arbEvent,
    phase, tried         \* the arbitration under way, the queues it has served

queueVars == <<ringRequestQueue, blockedLocalQueues, ringResponseQueue>>
linkVars == <<ringLinkOccupied, transfers, answers>>
bankVars == <<inFlightRequests, blockedInterfaces, deliverBuffer, serving>>
arbVars == <<arbEvent, phase, tried>>
vars == <<queueVars, linkVars, bankVars, arbVars>>

(***************************************************************************)
(* findMasterPath, findSlavePath: links 0 .. cpu_count - 2 between the     *)
(* processors, then those between the banks, and one at either end.        *)
(***************************************************************************)
getUphops(c, b) == c + b + 1
getDownhops(c, b) == (cpu_count - (c + 1)) + (sharedCacheBankCount - (b + 1)) + 1
Up(c, b) == getUphops(c, b) <= getDownhops(c, b)
Hops(c, b) == IF Up(c, b) THEN getUphops(c, b) ELSE getDownhops(c, b)

\* The i-th link on the way of a request of processor c to bank b.
Link(c, b, i) ==
    IF Up(c, b)
    THEN IF i <= c THEN c - i
         ELSE IF i = c + 1 THEN TOP_LINK_ID ELSE cpu_count + i - c - 2
    ELSE IF i < cpu_count - c THEN c + i - 1
         ELSE IF i = cpu_count - c THEN BOTTOM_LINK_ID
         ELSE cpu_count + sharedCacheBankCount - 1 - (i - (cpu_count - c))

\* An answer takes the links of the request backwards, in the other direction.
LinkBack(c, b, i) == Link(c, b, Hops(c, b) + 1 - i)
Direction(c, b) == IF Up(c, b) THEN Clockwise ELSE Counterclockwise
DirectionBack(c, b) == IF Up(c, b) THEN Counterclockwise ELSE Clockwise

\* When a transfer granted now enters the i-th link of its path.
Ahead(i) == (i - 1) * Hop

\* Mutant: every link is reserved for the tick of the grant.
RequestLinksAtOnce(ring, c, b) ==
    {[ring |-> ring, link |-> Link(c, b, i), dir |-> Direction(c, b),
      at |-> 0] : i \in 1 .. Hops(c, b)}

\* The reservations of a transfer granted now.
RequestLinks(ring, c, b) ==
    {[ring |-> ring, link |-> Link(c, b, i), dir |-> Direction(c, b),
      at |-> Ahead(i)] : i \in 1 .. Hops(c, b)}
ResponseLinks(ring, c, b) ==
    {[ring |-> ring, link |-> LinkBack(c, b, i), dir |-> DirectionBack(c, b),
      at |-> Ahead(i)] : i \in 1 .. Hops(c, b)}

Init ==
    /\ ringRequestQueue = [c \in Cpus |-> <<>>]
    /\ blockedLocalQueues = {}
    /\ ringResponseQueue = [b \in Banks |-> <<>>]
    /\ ringLinkOccupied = {}
    /\ transfers = {}
    /\ answers = {}
    /\ inFlightRequests = [b \in Banks |-> 0]
    /\ blockedInterfaces = {}
    /\ deliverBuffer = [b \in Banks |-> <<>>]
    /\ serving = [b \in Banks |-> [c \in Cpus |-> 0]]
    /\ arbEvent = Idle
    /\ phase = Off
    /\ tried = {}

\* age stands for enteredAt: 0 in the tick of the insertion, then the rank of
\* that tick among those of the entries still queued; gone is the time since
\* the grant.
Entry == [bank : Banks, cmd : {Read, Writeback}, age : Nat]
Response == [cpu : Cpus, age : Nat]
Transfer == [ring : RequestRings, cpu : Cpus, bank : Banks,
             cmd : {Read, Writeback}, gone : Nat]
Answer == [ring : ResponseRings, cpu : Cpus, bank : Banks, gone : Nat]
Delivered == [cpu : Cpus, cmd : {Read, Writeback}]
Reservation == [ring : RequestRings \union ResponseRings, link : Nat,
                dir : {Clockwise, Counterclockwise}, at : Nat]

TypeOK ==
    /\ ringRequestQueue \in [Cpus -> Seq(Entry)]
    /\ blockedLocalQueues \subseteq Cpus
    /\ ringResponseQueue \in [Banks -> Seq(Response)]
    /\ ringLinkOccupied \subseteq Reservation
    /\ transfers \subseteq Transfer
    /\ answers \subseteq Answer
    /\ inFlightRequests \in [Banks -> Nat]
    /\ blockedInterfaces \subseteq Banks
    /\ deliverBuffer \in [Banks -> Seq(Delivered)]
    /\ serving \in [Banks -> [Cpus -> Nat]]
    /\ arbEvent \in {Idle, Due, Soon}
    /\ phase \in {Off, Requests, Responses}
    /\ tried \subseteq Cpus \union Banks

(***************************************************************************)
(* Ring::send.                                                             *)
(***************************************************************************)
Times(s, Test(_)) == Cardinality({n \in DOMAIN s : Test(s[n])})

UnderWay(c) ==
    Len(ringRequestQueue[c])
    + Cardinality({t \in transfers : t.cpu = c})
    + Cardinality({t \in answers : t.cpu = c})
    + MapThenSumSet(LAMBDA b : Times(deliverBuffer[b], LAMBDA d : d.cpu = c)
                               + serving[b][c]
                               + Times(ringResponseQueue[b], LAMBDA r : r.cpu = c), Banks)

\* attemptToScheduleArbEvent
WithArbEvent == IF arbEvent = Idle THEN Soon ELSE arbEvent

\* From a cache, which retrieves nothing while its processor's queue is full.
SendRequest(c, b, cmd) ==
    /\ <<c, b, cmd>> \in Traffic
    /\ phase = Off /\ c \notin blockedLocalQueues
    /\ UnderWay(c) < Outstanding[c]
    /\ ringRequestQueue' = [ringRequestQueue EXCEPT ![c] =
                                Append(@, [bank |-> b, cmd |-> cmd, age |-> 0])]
    /\ blockedLocalQueues' = IF Len(ringRequestQueue'[c]) = queueSize
                             THEN blockedLocalQueues \union {c}
                             ELSE blockedLocalQueues
    /\ arbEvent' = WithArbEvent
    /\ UNCHANGED <<ringResponseQueue, linkVars, bankVars, phase, tried>>

\* From a bank.
SendResponse(b, c) ==
    /\ phase = Off /\ serving[b][c] > 0
    /\ serving' = [serving EXCEPT ![b][c] = @ - 1]
    /\ ringResponseQueue' = [ringResponseQueue EXCEPT ![b] =
                                 Append(@, [cpu |-> c, age |-> 0])]
    /\ arbEvent' = WithArbEvent
    /\ UNCHANGED <<ringRequestQueue, blockedLocalQueues, linkVars,
                   inFlightRequests, blockedInterfaces, deliverBuffer, phase, tried>>

(***************************************************************************)
(* Ring::arbitrate and arbitrateRing.                                      *)
(***************************************************************************)
Arrived(t) == t.gone = Hop * Hops(t.cpu, t.bank)

\* The deliver events of the tick come first.
StartArbitration ==
    /\ phase = Off /\ arbEvent = Due
    /\ \A t \in transfers \union answers : ~Arrived(t)
    /\ arbEvent' = Idle
    /\ phase' = Requests
    /\ tried' = {}
    /\ UNCHANGED <<queueVars, linkVars, bankVars>>

\* Mutant: the lowest number first.
BeforeByNumber(queues, p, q) == queues[p] # <<>> /\ queues[q] # <<>> /\ p < q

\* findServiceOrder: the oldest head first, of one tick the lowest number.
Before(queues, p, q) ==
    /\ queues[p] # <<>> /\ queues[q] # <<>>
    /\ \/ Head(queues[p]).age > Head(queues[q]).age
       \/ Head(queues[p]).age = Head(queues[q]).age /\ p < q

\* The queue served next: the first of those not served yet.
Turn(queues, q) ==
    /\ q \notin tried /\ queues[q] # <<>>
    /\ \A p \in DOMAIN queues \ tried : ~Before(queues, p, q)

\* checkStateAndSend: the rings that processor c can send its next request on,
\* where no link of the path is taken in the tick it is needed.
RingsFor(c) ==
    LET b == Head(ringRequestQueue[c]).bank
    IN  {r \in RequestRings : /\ inFlightRequests[b] # recvBufferSize
                              /\ RequestLinks(r, c, b) \intersect ringLinkOccupied = {}}

RingsBack(b) ==
    LET c == Head(ringResponseQueue[b]).cpu
    IN  {r \in ResponseRings : ResponseLinks(r, c, b) \intersect ringLinkOccupied = {}}

\* The first ring that is free.
First(ring, rings) == ring \in rings /\ \A r \in rings : ring <= r

GrantRequest(c) ==
    /\ phase = Requests /\ Turn(ringRequestQueue, c)
    /\ \E ring \in RequestRings :
        /\ First(ring, RingsFor(c))
        /\ LET e == Head(ringRequestQueue[c])
           IN  /\ ringLinkOccupied' =
                      ringLinkOccupied \union RequestLinks(ring, c, e.bank)
               /\ transfers' = transfers \union
                      {[ring |-> ring, cpu |-> c, bank |-> e.bank, cmd |-> e.cmd,
                        gone |-> 0]}
               /\ inFlightRequests' = [inFlightRequests EXCEPT ![e.bank] = @ + 1]
    /\ ringRequestQueue' = [ringRequestQueue EXCEPT ![c] = Tail(@)]
    /\ tried' = tried \union {c}
    /\ UNCHANGED <<blockedLocalQueues, ringResponseQueue, answers, blockedInterfaces,
                   deliverBuffer, serving, arbEvent, phase>>

\* The first that cannot be sent ends the loop.
RequestsServed ==
    /\ phase = Requests
    /\ \A c \in Cpus : Turn(ringRequestQueue, c) => RingsFor(c) = {}
    /\ phase' = Responses
    /\ tried' = {}
    /\ UNCHANGED <<queueVars, linkVars, bankVars, arbEvent>>

GrantResponse(b) ==
    /\ phase = Responses /\ Turn(ringResponseQueue, b)
    /\ \E ring \in ResponseRings :
        /\ First(ring, RingsBack(b))
        /\ LET c == Head(ringResponseQueue[b]).cpu
           IN  /\ ringLinkOccupied' = ringLinkOccupied \union ResponseLinks(ring, c, b)
               /\ answers' = answers \union
                      {[ring |-> ring, cpu |-> c, bank |-> b, gone |-> 0]}
    /\ ringResponseQueue' = [ringResponseQueue EXCEPT ![b] = Tail(@)]
    /\ tried' = tried \union {b}
    /\ UNCHANGED <<ringRequestQueue, blockedLocalQueues, transfers, bankVars,
                   arbEvent, phase>>

hasWaitingRequests ==
    \/ \E c \in Cpus : ringRequestQueue[c] # <<>>
    \/ \E b \in Banks : ringResponseQueue[b] # <<>>

\* The end of arbitrate; the caches retrieve more requests by SendRequest.
ResponsesServed ==
    /\ phase = Responses
    /\ \A b \in Banks : Turn(ringResponseQueue, b) => RingsBack(b) = {}
    /\ blockedLocalQueues' =
           {c \in blockedLocalQueues : Len(ringRequestQueue[c]) >= queueSize}
    /\ arbEvent' = IF hasWaitingRequests THEN WithArbEvent ELSE arbEvent
    /\ phase' = Off
    /\ tried' = {}
    /\ UNCHANGED <<ringRequestQueue, ringResponseQueue, linkVars, bankVars>>

(***************************************************************************)
(* Ring::deliver and Ring::clearBlocked.  An access leaves a bank a read   *)
(* to answer and may make it block.                                        *)
(***************************************************************************)
Accessed(b, done) ==
    serving' = [serving EXCEPT ![b] = [c \in Cpus |->
                   @[c] + Times(done, LAMBDA d : d.cpu = c /\ d.cmd = Read)]]

AsDelivered(t) == [cpu |-> t.cpu, cmd |-> t.cmd]

DeliverToBank(t) ==
    /\ phase = Off /\ Arrived(t)
    /\ t.bank \notin blockedInterfaces /\ deliverBuffer[t.bank] = <<>>
    /\ transfers' = transfers \ {t}
    /\ Accessed(t.bank, <<AsDelivered(t)>>)
    /\ inFlightRequests' = [inFlightRequests EXCEPT ![t.bank] = @ - 1]
    /\ blockedInterfaces' \in {blockedInterfaces, blockedInterfaces \union {t.bank}}
    /\ UNCHANGED <<queueVars, ringLinkOccupied, answers, deliverBuffer, arbVars>>

\* Mutant: the newest delivery goes first.
DeliverToBufferFront(t) ==
    /\ phase = Off /\ Arrived(t)
    /\ t.bank \in blockedInterfaces \/ deliverBuffer[t.bank] # <<>>
    /\ transfers' = transfers \ {t}
    /\ deliverBuffer' = [deliverBuffer EXCEPT ![t.bank] = <<AsDelivered(t)>> \o @]
    /\ UNCHANGED <<queueVars, ringLinkOccupied, answers, inFlightRequests,
                   blockedInterfaces, serving, arbVars>>

\* Mutant: what waits in the buffer is not counted.
DeliverToBufferUncounted(t) ==
    /\ phase = Off /\ Arrived(t)
    /\ t.bank \in blockedInterfaces \/ deliverBuffer[t.bank] # <<>>
    /\ transfers' = transfers \ {t}
    /\ deliverBuffer' = [deliverBuffer EXCEPT ![t.bank] = Append(@, AsDelivered(t))]
    /\ inFlightRequests' = [inFlightRequests EXCEPT ![t.bank] = @ - 1]
    /\ UNCHANGED <<queueVars, ringLinkOccupied, answers, blockedInterfaces,
                   serving, arbVars>>

DeliverToBuffer(t) ==
    /\ phase = Off /\ Arrived(t)
    /\ t.bank \in blockedInterfaces \/ deliverBuffer[t.bank] # <<>>
    /\ transfers' = transfers \ {t}
    /\ deliverBuffer' = [deliverBuffer EXCEPT ![t.bank] = Append(@, AsDelivered(t))]
    /\ UNCHANGED <<queueVars, ringLinkOccupied, answers, inFlightRequests,
                   blockedInterfaces, serving, arbVars>>

DeliverToCache(t) ==
    /\ phase = Off /\ Arrived(t)
    /\ answers' = answers \ {t}
    /\ UNCHANGED <<queueVars, ringLinkOccupied, transfers, bankVars, arbVars>>

\* The buffer is emptied until the bank blocks again, after the n-th access.
BankUnblocks(b) ==
    /\ phase = Off /\ b \in blockedInterfaces
    /\ \E n \in 0 .. Len(deliverBuffer[b]), again \in BOOLEAN :
        /\ IF again THEN n > 0 ELSE n = Len(deliverBuffer[b])
        /\ Accessed(b, SubSeq(deliverBuffer[b], 1, n))
        /\ deliverBuffer' = [deliverBuffer EXCEPT ![b] = SubSeq(@, n + 1, Len(@))]
        /\ inFlightRequests' = [inFlightRequests EXCEPT ![b] = @ - n]
        /\ blockedInterfaces' = IF again THEN blockedInterfaces
                                ELSE blockedInterfaces \ {b}
    /\ UNCHANGED <<queueVars, linkVars, arbVars>>

\* For the writeback of a block that a fill evicts.
BankBlocks(b) ==
    /\ phase = Off /\ b \notin blockedInterfaces
    /\ blockedInterfaces' = blockedInterfaces \union {b}
    /\ UNCHANGED <<queueVars, linkVars, inFlightRequests, deliverBuffer, serving,
                   arbVars>>

(***************************************************************************)
(* curTick moves on.                                                       *)
(***************************************************************************)
Ages(queues) == {e.age : e \in UNION {Range(queues[q]) : q \in DOMAIN queues}}

Aged(queues) ==
    [q \in DOMAIN queues |-> [n \in DOMAIN queues[q] |->
        [queues[q][n] EXCEPT !.age = 1 + Cardinality({a \in Ages(queues) : a < @})]]]

NothingDue ==
    /\ phase = Off /\ arbEvent # Due
    /\ \A t \in transfers \union answers : ~Arrived(t)

Tick ==
    /\ NothingDue
    /\ ringRequestQueue' = Aged(ringRequestQueue)
    /\ ringResponseQueue' = Aged(ringResponseQueue)
    /\ <<ringRequestQueue, ringResponseQueue>>' # <<ringRequestQueue, ringResponseQueue>>
    /\ UNCHANGED <<blockedLocalQueues, linkVars, bankVars, arbVars>>

Moved(ts) == {[t EXCEPT !.gone = @ + 1] : t \in ts}

\* removeOldEntries is part of the step: what has expired is not looked at
\* before the next arbitration, which removes it.
Advance ==
    /\ NothingDue
    /\ arbEvent = Soon \/ transfers # {} \/ answers # {}
    /\ ringRequestQueue' = Aged(ringRequestQueue)
    /\ ringResponseQueue' = Aged(ringResponseQueue)
    /\ ringLinkOccupied' =
           {[l EXCEPT !.at = @ - 1] : l \in {k \in ringLinkOccupied : k.at > 0}}
    /\ transfers' = Moved(transfers)
    /\ answers' = Moved(answers)
    /\ arbEvent' = IF arbEvent = Soon THEN Due ELSE arbEvent
    /\ UNCHANGED <<blockedLocalQueues, bankVars, phase, tried>>

Next ==
    \/ \E c \in Cpus, b \in Banks :
        \/ \E cmd \in {Read, Writeback} : SendRequest(c, b, cmd)
        \/ SendResponse(b, c)
    \/ StartArbitration \/ RequestsServed \/ ResponsesServed
    \/ \E c \in Cpus : GrantRequest(c)
    \/ \E b \in Banks : GrantResponse(b) \/ BankUnblocks(b) \/ BankBlocks(b)
    \/ \E t \in transfers : DeliverToBank(t) \/ DeliverToBuffer(t)
    \/ \E t \in answers : DeliverToCache(t)
    \/ Tick \/ Advance

Spec == Init /\ [][Next]_vars

Arbitrate ==
    \/ StartArbitration \/ RequestsServed \/ ResponsesServed
    \/ \E c \in Cpus : GrantRequest(c)
    \/ \E b \in Banks : GrantResponse(b)

Deliver ==
    \/ \E t \in transfers : DeliverToBank(t) \/ DeliverToBuffer(t)
    \/ \E t \in answers : DeliverToCache(t)

\* Events fire and time passes; a bank unblocks in the end, as the miss handling of
\* a cache does (WakesUp of MissQueue).  That is a strong fairness, since the steps
\* of an arbitration, one event of the code, interrupt it.
Fairness ==
    /\ WF_vars(Arbitrate) /\ WF_vars(Deliver) /\ WF_vars(Advance)
    /\ \A b \in Banks : SF_vars(BankUnblocks(b))

FairSpec == Spec /\ Fairness

(***************************************************************************)
(* Properties                                                              *)
(***************************************************************************)
\* Two transfers in flight never enter one link of a ring in one direction at
\* the same tick, now or later on their ways: what checkStateAndSend reserves
\* hop by hop for later ticks, and removeOldEntries forgets, is enough.
RequestsNeverMeet ==
    \A t, u \in transfers :
        t.ring = u.ring /\ Direction(t.cpu, t.bank) = Direction(u.cpu, u.bank) =>
            \A i \in 1 .. Hops(t.cpu, t.bank), j \in 1 .. Hops(u.cpu, u.bank) :
                /\ Link(t.cpu, t.bank, i) = Link(u.cpu, u.bank, j)
                /\ Ahead(i) - t.gone = Ahead(j) - u.gone
                => t = u

AnswersNeverMeet ==
    \A t, u \in answers :
        t.ring = u.ring /\ DirectionBack(t.cpu, t.bank) = DirectionBack(u.cpu, u.bank) =>
            \A i \in 1 .. Hops(t.cpu, t.bank), j \in 1 .. Hops(u.cpu, u.bank) :
                /\ LinkBack(t.cpu, t.bank, i) = LinkBack(u.cpu, u.bank, j)
                /\ Ahead(i) - t.gone = Ahead(j) - u.gone
                => t = u

TransfersNeverMeet == RequestsNeverMeet /\ AnswersNeverMeet

\* assert(deliverBuffer[toSlaveID].size() <= recvBufferSize): what is in flight
\* to a bank and what waits before it are counted together, so that there is
\* room for whatever still arrives after the bank has blocked.
RecvBufferFits ==
    \A b \in Banks :
        /\ inFlightRequests[b] <= recvBufferSize
        /\ inFlightRequests[b] = Len(deliverBuffer[b])
                                 + Cardinality({t \in transfers : t.bank = b})
        /\ b \notin blockedInterfaces => deliverBuffer[b] = <<>>

\* What is on its way from processor c to bank b, in the order it was sent: in
\* the buffer of the bank, in flight, place by place from the bank on, and queued.
Message == [from : Cpus, cmd : {Read, Writeback}]
Sent(c, cmd) == [from |-> c, cmd |-> cmd]

Buffered(c) == [d \in {x \in Delivered : x.cpu = c} |-> Sent(c, d.cmd)]
Queued(c, b) == [e \in {x \in Entry : x.bank = b} |-> Sent(c, e.cmd)]

Gone(ts, c, b, time) ==
    {Sent(c, t.cmd) : t \in {u \in ts : u.cpu = c /\ u.bank = b /\ u.gone = time}}
Way(ts, c, b) ==
    LET last == Hop * Hops(c, b) IN [n \in 1 .. last + 1 |-> Gone(ts, c, b, last + 1 - n)]
Alone == [S \in {{m} : m \in Message} |-> CHOOSE m \in Message : S = {m}]

Path(c, b) ==
    Picked(deliverBuffer[b], Buffered(c))
    \o Picked(Way(transfers, c, b), Alone)
    \o Picked(ringRequestQueue[c], Queued(c, b))

AnswersTo(c) == {r \in Response : r.cpu = c}

Paths == [c \in Cpus |-> [b \in Banks |-> Path(c, b)]]
Returning ==
    [c \in Cpus |-> CountIn(ringResponseQueue, AnswersTo(c))
                    + Cardinality({t \in answers : t.cpu = c})]

Channel == INSTANCE Channels WITH
    Interfaces <- Cpus,
    CpuOf <- [c \in Cpus |-> c],
    channel <- Paths,
    returning <- Returning

\* The ring is the same channel from each processor to each bank that the
\* crossbar is: with several rings and unequal ways nothing is lost, repeated or
\* overtaken, and no read is answered twice.
ChannelSpec == Channel!Spec

\* Although the arbitration stops at the first queue it cannot serve, a processor
\* that has requests queued again and again has one granted again and again, and
\* so has a bank its answers.
NoStarvation ==
    /\ \A c \in Cpus :
        \/ []<>(ringRequestQueue[c] = <<>>) \/ []<><<GrantRequest(c)>>_vars
    /\ \A b \in Banks :
        \/ []<>(ringResponseQueue[b] = <<>>) \/ []<><<GrantResponse(b)>>_vars
=============================================================================
