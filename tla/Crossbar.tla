------------------------------ MODULE Crossbar ------------------------------
(***************************************************************************)
(* The crossbar between the private caches of the processors and the banks *)
(* of the shared cache: class Crossbar, the AddressDependentIC it derives  *)
(* from, and the interfaces through which the caches reach it.             *)
(*                                                                         *)
(* An action is the handler of one event: a retrieve event takes a request *)
(* from a cache into the queue of its processor, the arbitration event     *)
(* moves the oldest of the queues into the pipelines, a deliver event ends *)
(* a transfer.  A bank that blocks leaves what still arrives in a delivery *)
(* buffer, which is as long as its pipeline.  The caches at both ends are  *)
(* external: which bank a request is for, when a bank blocks, unblocks or  *)
(* answers.  Latencies are left open, but not the order they give: a       *)
(* pipeline delivers in the order of the grants, since a transfer always   *)
(* takes crossbarTransferDelay ticks and a bank gets one grant in a tick.  *)
(*                                                                         *)
(* This is the detailed mode (curTick >= detailedSimStartTick) without the *)
(* fixedRoundtripLat option.                                               *)
(***************************************************************************)
EXTENDS SequencesExt, FiniteSetsExt, Selection

CONSTANTS
    Cpus,          \* the numbers of the processors
    Banks,         \* the numbers of the banks of the shared cache
    Interfaces,    \* of the private caches: instruction and data
    CpuOf,         \* interconnectIDToProcessorIDMap
    QueueSize,     \* perEndPointQueueSize
    Stages,        \* crossbarTransferDelay / requestOccupancyTicks
    Outstanding,   \* the bound on the requests an interface has under way
    Squashing,     \* the interfaces whose cache withdraws requests
    Read, Writeback

\* With a queue of one or two a grant could empty the queue of a processor whose
\* cache waits for it, and the same tick could see a second arbitration.
ASSUME CrossbarAssumption ==
    /\ Cpus \subseteq Nat /\ IsFiniteSet(Cpus)
    /\ Banks \subseteq Nat /\ IsFiniteSet(Banks)
    /\ IsFiniteSet(Interfaces)
    /\ CpuOf \in [Interfaces -> Cpus]
    /\ QueueSize \in Nat /\ QueueSize > 2
    /\ Stages \in Nat \ {0}
    /\ Outstanding \in [Interfaces -> Nat]
    /\ Squashing \subseteq Interfaces
    /\ Read # Writeback

VARIABLES
    wants,          \* requests pending in the cache of an interface
    events,         \* retrieve events scheduled for an interface
    notRetrieved,   \* notRetrievedRequests: retrieve events put off
    requests,       \* crossbarRequests, for each processor
    blockedLocal,   \* blockedLocalQueues: the processors whose queue is full
    arbScheduled,   \* is crossbarArbEvent scheduled?
    pipe,           \* the transfers to a bank under way
    inProgress,     \* requestsInProgress of a bank
    blockedBanks,   \* blockedInterfaces
    buffer,         \* slaveDeliveryBuffer of a bank
    serving,        \* reads a bank has to answer, for each interface
    responses,      \* crossbarResponses, for each bank
    back            \* the transfers to a processor under way

cacheVars == <<wants, events, notRetrieved>>
queueVars == <<requests, blockedLocal, arbScheduled>>
bankVars == <<pipe, inProgress, blockedBanks, buffer, serving>>
backVars == <<responses, back>>
vars == <<cacheVars, queueVars, bankVars, backVars>>

\* age stands for inserted_into_crossbar: 0 in the tick of the insertion, then
\* the rank of that tick among those of the entries still queued.
Request == [from : Interfaces, bank : Banks, cmd : {Read, Writeback}, age : Nat]
Response == [to : Interfaces, age : Nat]
Transfer == [from : Interfaces, cmd : {Read, Writeback}]

TypeOK ==
    /\ wants \in [Interfaces -> Nat]
    /\ events \in [Interfaces -> Nat]
    /\ notRetrieved \in [Interfaces -> Nat]
    /\ requests \in [Cpus -> Seq(Request)]
    /\ blockedLocal \subseteq Cpus
    /\ arbScheduled \in BOOLEAN
    /\ pipe \in [Banks -> Seq(Transfer)]
    /\ inProgress \in [Banks -> Nat]
    /\ blockedBanks \subseteq Banks
    /\ buffer \in [Banks -> Seq(Transfer)]
    /\ serving \in [Banks -> [Interfaces -> Nat]]
    /\ responses \in [Banks -> Seq(Response)]
    /\ back \in [Cpus -> Seq(Interfaces)]

Init ==
    /\ wants = [i \in Interfaces |-> 0]
    /\ events = [i \in Interfaces |-> 0]
    /\ notRetrieved = [i \in Interfaces |-> 0]
    /\ requests = [c \in Cpus |-> <<>>]
    /\ blockedLocal = {}
    /\ arbScheduled = FALSE
    /\ pipe = [b \in Banks |-> <<>>]
    /\ inProgress = [b \in Banks |-> 0]
    /\ blockedBanks = {}
    /\ buffer = [b \in Banks |-> <<>>]
    /\ serving = [b \in Banks |-> [i \in Interfaces |-> 0]]
    /\ responses = [b \in Banks |-> <<>>]
    /\ back = [c \in Cpus |-> <<>>]

InterfacesOf(c) == {i \in Interfaces : CpuOf[i] = c}

Times(s, Test(_)) == Cardinality({n \in DOMAIN s : Test(s[n])})

From(s, i) == Times(s, LAMBDA e : e.from = i)
ReadsFrom(s, i) == Times(s, LAMBDA e : e.from = i /\ e.cmd = Read)

\* The requests of i anywhere between its cache and the answer.
UnderWay(i) ==
    events[i] + notRetrieved[i] + From(requests[CpuOf[i]], i)
    + MapThenSumSet(LAMBDA b : From(pipe[b] \o buffer[b], i) + serving[b][i]
                                + Times(responses[b], LAMBDA r : r.to = i), Banks)
    + Times(back[CpuOf[i]], LAMBDA j : j = i)

(***************************************************************************)
(* The private caches: every setMasterRequest of a cache (a miss, a        *)
(* writeback) schedules a retrieve event; a squash takes the request back  *)
(* but not the event.                                                      *)
(***************************************************************************)
CacheRequests(i) ==
    /\ UnderWay(i) < Outstanding[i]
    /\ wants' = [wants EXCEPT ![i] = @ + 1]
    /\ events' = [events EXCEPT ![i] = @ + 1]
    /\ UNCHANGED <<notRetrieved, queueVars, bankVars, backVars>>

CacheSquashes(i) ==
    /\ i \in Squashing /\ wants[i] > 0
    /\ wants' = [wants EXCEPT ![i] = @ - 1]
    /\ UNCHANGED <<events, notRetrieved, queueVars, bankVars, backVars>>

(***************************************************************************)
(* Crossbar::send from a cache, and the retrieve event that leads to it.   *)
(***************************************************************************)
\* The processors whose queue a send has filled.
Filled(queues) == {c \in Cpus : Len(queues[c]) >= QueueSize}

\* Mutant: the event is not counted.
RetrieveLaterForgets(i) ==
    /\ events[i] > 0 /\ CpuOf[i] \in blockedLocal
    /\ events' = [events EXCEPT ![i] = @ - 1]
    /\ UNCHANGED <<wants, notRetrieved, queueVars, bankVars, backVars>>

RetrieveLater(i) ==
    /\ events[i] > 0 /\ CpuOf[i] \in blockedLocal
    /\ events' = [events EXCEPT ![i] = @ - 1]
    /\ notRetrieved' = [notRetrieved EXCEPT ![i] = @ + 1]
    /\ UNCHANGED <<wants, queueVars, bankVars, backVars>>

\* getMemReq has nothing to send any more: a null request.
RetrieveNothing(i) ==
    /\ events[i] > 0 /\ CpuOf[i] \notin blockedLocal /\ wants[i] = 0
    /\ events' = [events EXCEPT ![i] = @ - 1]
    /\ UNCHANGED <<wants, notRetrieved, queueVars, bankVars, backVars>>

RetrieveRequest(i) ==
    /\ events[i] > 0 /\ CpuOf[i] \notin blockedLocal /\ wants[i] > 0
    /\ events' = [events EXCEPT ![i] = @ - 1]
    /\ wants' = [wants EXCEPT ![i] = @ - 1]
    /\ \E b \in Banks, cmd \in {Read, Writeback} :
        requests' = [requests EXCEPT ![CpuOf[i]] =
            Append(@, [from |-> i, bank |-> b, cmd |-> cmd, age |-> 0])]
    /\ blockedLocal' = blockedLocal \cup Filled(requests')
    /\ arbScheduled' = TRUE
    /\ UNCHANGED <<notRetrieved, bankVars, backVars>>

\* AddressDependentIC::retriveRequest of a master interface.
Retrieve(i) == RetrieveLater(i) \/ RetrieveNothing(i) \/ RetrieveRequest(i)

\* Mutant: the lowest number first.
BeforeByNumber(queues, p, q) == queues[p] # <<>> /\ queues[q] # <<>> /\ p < q

(***************************************************************************)
(* Crossbar::arbitrate.                                                    *)
(***************************************************************************)
\* findServiceOrder: the oldest head first, of one tick the lowest number.
Before(queues, p, q) ==
    /\ queues[p] # <<>> /\ queues[q] # <<>>
    /\ \/ Head(queues[p]).age > Head(queues[q]).age
       \/ Head(queues[p]).age = Head(queues[q]).age /\ p < q

\* Mutant: the room in the pipeline is not looked at.
RequestGrantedWhenFull ==
    {c \in Cpus :
        /\ requests[c] # <<>>
        /\ \A d \in Cpus : Before(requests, d, c) =>
                Head(requests[d]).bank # Head(requests[c]).bank}

\* attemptDelivery to a bank: its pipeline has room, which counts what waits in
\* the delivery buffer, and no processor served earlier wants the bank.
RequestGranted ==
    {c \in Cpus :
        /\ requests[c] # <<>>
        /\ inProgress[Head(requests[c]).bank] < Stages
        /\ \A d \in Cpus : Before(requests, d, c) =>
                Head(requests[d]).bank # Head(requests[c]).bank}

\* attemptDelivery to a processor, which takes one response at a time.
Receiver(b) == CpuOf[Head(responses[b]).to]

ResponseGranted ==
    {b \in Banks :
        /\ responses[b] # <<>>
        /\ \A a \in Banks : Before(responses, a, b) => Receiver(a) # Receiver(b)}

Popped(queues, granted) ==
    [q \in DOMAIN queues |-> IF q \in granted THEN Tail(queues[q]) ELSE queues[q]]

\* The test is made before the request leaves its queue, and a second time when
\* a response goes to the processor in the same arbitration.
Unblocked(left) ==
    {c \in blockedLocal :
        \/ c \in RequestGranted /\ Len(requests[c]) < QueueSize
        \/ Len(left[c]) < QueueSize /\ \E b \in ResponseGranted : Receiver(b) = c}

\* retrieveAdditionalRequests for processor c, whose queue has room for so many:
\* it grants its interfaces (either one, when both wait) until the queue is full
\* again or nothing waits.  sent is what they send, kept what still waits then.
Retrieves(c, room, sent, kept) ==
    LET granted(i) == notRetrieved[i] - kept[i]
    IN  /\ \A i \in InterfacesOf(c) :
            /\ kept[i] <= notRetrieved[i]
            /\ From(sent, i) = Min({granted(i), wants[i]})
        /\ IF Len(sent) = room
           THEN granted(Last(sent).from) = From(sent, Last(sent).from)
           ELSE \A i \in InterfacesOf(c) : kept[i] = 0

RetrievableBy(c, room) ==
    SeqOf([from : InterfacesOf(c), bank : Banks, cmd : {Read, Writeback}, age : {0}], room)

\* The granted requests enter the pipelines, at most one for a bank, the granted
\* responses theirs, at most one for a processor.
Transmit ==
    /\ pipe' = [b \in Banks |->
        IF \E c \in RequestGranted : Head(requests[c]).bank = b
        THEN LET r == Head(requests[CHOOSE c \in RequestGranted : Head(requests[c]).bank = b])
             IN  Append(pipe[b], [from |-> r.from, cmd |-> r.cmd])
        ELSE pipe[b]]
    /\ inProgress' = [b \in Banks |->
        IF \E c \in RequestGranted : Head(requests[c]).bank = b
        THEN inProgress[b] + 1 ELSE inProgress[b]]
    /\ back' = [c \in Cpus |->
        IF \E b \in ResponseGranted : Receiver(b) = c
        THEN Append(back[c],
                    Head(responses[CHOOSE b \in ResponseGranted : Receiver(b) = c]).to)
        ELSE back[c]]

\* Mutant: responses that were not granted are not counted.
MoreRequestsToDo(queues, answers) == \E c \in Cpus : queues[c] # <<>>

MoreToDo(queues, answers) ==
    \/ \E c \in Cpus : queues[c] # <<>>
    \/ \E b \in Banks : answers[b] # <<>>

Arbitrate ==
    /\ arbScheduled
    /\ Transmit
    /\ responses' = Popped(responses, ResponseGranted)
    /\ LET left == Popped(requests, RequestGranted)
           freed == Unblocked(left)
           room == [c \in freed |-> QueueSize - Len(left[c])]
       IN  \E sent \in [freed -> UNION {RetrievableBy(c, room[c]) : c \in freed}],
              kept \in [Interfaces -> 0 .. Max({notRetrieved[i] : i \in Interfaces})] :
            /\ \A c \in freed :
                sent[c] \in RetrievableBy(c, room[c]) /\ Retrieves(c, room[c], sent[c], kept)
            /\ \A i \in Interfaces : CpuOf[i] \notin freed => kept[i] = notRetrieved[i]
            /\ notRetrieved' = kept
            /\ wants' = [i \in Interfaces |->
                wants[i] - IF CpuOf[i] \in freed THEN From(sent[CpuOf[i]], i) ELSE 0]
            /\ requests' = [c \in Cpus |-> IF c \in freed THEN left[c] \o sent[c] ELSE left[c]]
            /\ blockedLocal' = (blockedLocal \ freed) \cup Filled(requests')
    /\ arbScheduled' = MoreToDo(requests', responses')
    /\ UNCHANGED <<events, blockedBanks, buffer, serving>>

(***************************************************************************)
(* Crossbar::deliver at a bank, and Crossbar::clearBlocked.  An access     *)
(* leaves a bank a read to answer and may make it block.                   *)
(***************************************************************************)
Accessed(b, transfers) ==
    serving' = [serving EXCEPT ![b] = [i \in Interfaces |-> @[i] + ReadsFrom(transfers, i)]]

\* Mutant: the newest delivery goes first.
DeliverToBufferFront(b) ==
    /\ pipe[b] # <<>> /\ b \in blockedBanks
    /\ buffer' = [buffer EXCEPT ![b] = <<Head(pipe[b])>> \o @]
    /\ pipe' = [pipe EXCEPT ![b] = Tail(@)]
    /\ UNCHANGED <<cacheVars, queueVars, inProgress, blockedBanks, serving, backVars>>

DeliverToBuffer(b) ==
    /\ pipe[b] # <<>> /\ b \in blockedBanks
    /\ buffer' = [buffer EXCEPT ![b] = Append(@, Head(pipe[b]))]
    /\ pipe' = [pipe EXCEPT ![b] = Tail(@)]
    /\ UNCHANGED <<cacheVars, queueVars, inProgress, blockedBanks, serving, backVars>>

DeliverToBank(b) ==
    /\ pipe[b] # <<>> /\ b \notin blockedBanks
    /\ Accessed(b, <<Head(pipe[b])>>)
    /\ pipe' = [pipe EXCEPT ![b] = Tail(@)]
    /\ inProgress' = [inProgress EXCEPT ![b] = @ - 1]
    /\ blockedBanks' \in {blockedBanks, blockedBanks \cup {b}}
    /\ UNCHANGED <<cacheVars, queueVars, buffer, backVars>>

Deliver(b) == DeliverToBuffer(b) \/ DeliverToBank(b)

\* The buffer is emptied until the bank blocks again, after the n-th access.
BankUnblocks(b) ==
    /\ b \in blockedBanks
    /\ \E n \in 0 .. Len(buffer[b]), again \in BOOLEAN :
        /\ IF again THEN n > 0 ELSE n = Len(buffer[b])
        /\ Accessed(b, SubSeq(buffer[b], 1, n))
        /\ buffer' = [buffer EXCEPT ![b] = SubSeq(@, n + 1, Len(@))]
        /\ inProgress' = [inProgress EXCEPT ![b] = @ - n]
        /\ blockedBanks' = IF again THEN blockedBanks ELSE blockedBanks \ {b}
    /\ UNCHANGED <<cacheVars, queueVars, pipe, backVars>>

\* For the writeback of a block that a fill evicts.
BankBlocks(b) ==
    /\ b \notin blockedBanks
    /\ blockedBanks' = blockedBanks \cup {b}
    /\ UNCHANGED <<cacheVars, queueVars, pipe, inProgress, buffer, serving, backVars>>

(***************************************************************************)
(* The answers: respond puts a response in the queue of the interface of   *)
(* the bank, the retrieve event sends the first; one step here, since both *)
(* are in the same order and nothing else looks at that queue.             *)
(***************************************************************************)
BankResponds(b, i) ==
    /\ serving[b][i] > 0
    /\ serving' = [serving EXCEPT ![b][i] = @ - 1]
    /\ responses' = [responses EXCEPT ![b] = Append(@, [to |-> i, age |-> 0])]
    /\ arbScheduled' = TRUE
    /\ UNCHANGED <<cacheVars, requests, blockedLocal, pipe, inProgress, blockedBanks, buffer, back>>

DeliverToCache(c) ==
    /\ back[c] # <<>>
    /\ back' = [back EXCEPT ![c] = Tail(@)]
    /\ UNCHANGED <<cacheVars, queueVars, bankVars, responses>>

(***************************************************************************)
(* curTick moves on.                                                       *)
(***************************************************************************)
Ages(queues) == {e.age : e \in UNION {Range(queues[q]) : q \in DOMAIN queues}}

Aged(queues) ==
    [q \in DOMAIN queues |-> [n \in DOMAIN queues[q] |->
        [queues[q][n] EXCEPT !.age = 1 + Cardinality({a \in Ages(queues) : a < @})]]]

Tick ==
    /\ requests' = Aged(requests)
    /\ responses' = Aged(responses)
    /\ <<requests, responses>>' # <<requests, responses>>
    /\ UNCHANGED <<cacheVars, blockedLocal, arbScheduled, bankVars, back>>

Next ==
    \/ \E i \in Interfaces :
        CacheRequests(i) \/ CacheSquashes(i) \/ Retrieve(i)
    \/ Arbitrate \/ Tick
    \/ \E b \in Banks :
        \/ Deliver(b) \/ BankUnblocks(b) \/ BankBlocks(b)
        \/ \E i \in Interfaces : BankResponds(b, i)
    \/ \E c \in Cpus : DeliverToCache(c)

Spec == Init /\ [][Next]_vars

\* Events fire and time passes; a bank unblocks and answers in the end, as the
\* miss handling of a cache does (WakesUp and MissAnswered of MissQueue).
Fairness ==
    /\ \A i \in Interfaces :
        /\ WF_vars(Retrieve(i))
        /\ \A b \in Banks : WF_vars(BankResponds(b, i))
    /\ WF_vars(Arbitrate) /\ WF_vars(Tick)
    /\ \A b \in Banks :
        WF_vars(Deliver(b)) /\ WF_vars(BankUnblocks(b))
    /\ \A c \in Cpus : WF_vars(DeliverToCache(c))

FairSpec == Spec /\ Fairness

(***************************************************************************)
(* Properties                                                              *)
(***************************************************************************)
\* "The buffer on the slave side only contains enough spaces to empty the
\* crossbar pipeline when the slave blocks" (crossbar.cc:226): whatever the
\* interleaving of grants, blocks and partial drains, a delivery never finds the
\* buffer full, nor the buffer in use when the bank is not blocked.
BufferFits ==
    \A b \in Banks :
        /\ Len(buffer[b]) <= Stages
        /\ b \notin blockedBanks => buffer[b] = <<>>

\* requestsInProgress counts exactly what has been granted and not accessed, so
\* that no pipeline stage is lost and none is used twice.
InProgressCounts == \A b \in Banks : inProgress[b] = Len(pipe[b]) + Len(buffer[b])

\* A queue never holds more than perEndPointQueueSize requests, and its processor
\* is blocked while it is full: setBlockedLocal is never called twice.
LocalQueueFits ==
    \A c \in Cpus :
        /\ Len(requests[c]) <= QueueSize
        /\ Len(requests[c]) = QueueSize => c \in blockedLocal

\* The arbitration event is scheduled exactly when something is queued.
WorkIsScheduled == arbScheduled <=> MoreToDo(requests, responses)

\* A processor is blocked only while its queue holds a request, whose grant will
\* unblock it, and a retrieve event is put off only for a blocked processor: no
\* request waits for an arbitration that will not come.
BlockedQueueMoves ==
    /\ \A c \in blockedLocal : requests[c] # <<>>
    /\ \A i \in Interfaces : notRetrieved[i] > 0 => CpuOf[i] \in blockedLocal

\* Every request pending in a cache has a retrieve event that will fetch it, also
\* when the queue was full and when others were squashed.
EveryWantHasEvent == \A i \in Interfaces : wants[i] <= events[i] + notRetrieved[i]

\* What is on its way from processor c to bank b, in the order it was sent, and
\* the answers on their way to i.
ToBank(s, b) == Only(s, {r \in Request : r.bank = b})
FromCpu(s, c) == Only(s, {t \in Transfer : CpuOf[t.from] = c})
Sent(r) == [from |-> r.from, cmd |-> r.cmd]
AsTransfers(s) == [n \in DOMAIN s |-> Sent(s[n])]

Path(c, b) == FromCpu(buffer[b] \o pipe[b], c) \o AsTransfers(ToBank(requests[c], b))
AnswersTo(i) == {r \in Response : r.to = i}

Paths == [c \in Cpus |-> [b \in Banks |-> Path(c, b)]]
Returning ==
    [i \in Interfaces |-> CountIn(responses, AnswersTo(i)) + Count(back[CpuOf[i]], {i})]

Channel == INSTANCE Channels WITH channel <- Paths, returning <- Returning

\* Queues, pipelines and delivery buffers together are a channel from each
\* processor to each bank that loses, repeats and reorders nothing, and no read
\* is answered twice.
ChannelSpec == Channel!Spec

\* Oldest first starves nobody: a processor that has requests queued again and
\* again gets one granted again and again, though the others keep sending.
NoStarvation ==
    \A c \in Cpus :
        \/ []<>(requests[c] = <<>>)
        \/ []<><<Transmit /\ c \in RequestGranted>>_vars

\* A request put off when the queue was full is fetched: a cache that has requests
\* again and again is granted again and again.
WantsAreFetched ==
    \A i \in Interfaces :
        []<>(wants[i] = 0) \/ []<><<wants'[i] < wants[i]>>_vars
=============================================================================
