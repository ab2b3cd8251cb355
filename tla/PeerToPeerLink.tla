---------------------------- MODULE PeerToPeerLink ----------------------------
(***************************************************************************)
(* The link between the two first level caches of a processor and its      *)
(* private second level cache, class PeerToPeerLink: one transfer each way *)
(* at a time, one request in a delivery buffer while the second level      *)
(* cache is blocked.                                                       *)
(*                                                                         *)
(* How requests are fetched from the caches is AddressDependentIC's, as in *)
(* Crossbar; but the link decides by the length of its queue, and its      *)
(* arbitration is not scheduled while all it could serve is blocked.       *)
(* Times are ticks from now: the arbitration has a later priority than the *)
(* deliver events of its tick.  This is the detailed mode; the caches at   *)
(* both ends are external.                                                 *)
(***************************************************************************)
EXTENDS Integers, FiniteSets, SequencesExt, FiniteSetsExt

CONSTANTS
    Interfaces,     \* of the first level caches
    queueSize,
    transferDelay,
    Outstanding,    \* the bound on a cache's reads and writebacks under way:
                    \* its MSHRs and write buffers
    slaveMSHRs,     \* the misses that may be under way in the slave
    Squashing,      \* the interfaces whose cache withdraws requests
    Read, Writeback

Commands == {Read, Writeback}

ASSUME LinkAssumption ==
    /\ IsFiniteSet(Interfaces)
    /\ queueSize \in Nat \ {0}
    /\ transferDelay \in Nat \ {0}
    /\ Outstanding \in [Interfaces -> [Commands -> Nat]]
    /\ slaveMSHRs \in Nat
    /\ Squashing \subseteq Interfaces
    /\ Read # Writeback

VARIABLES
    wants,              \* requests pending in a cache, by command
    events,             \* retrieve events scheduled for an interface
    notRetrieved,       \* notRetrievedRequests: retrieve events put off
    p2pRequestQueue,
    p2pResponseQueue,
    blockedLocal,       \* blockedLocalQueues of the processor
    arbEvent,           \* ticks until the arbitration, or NotScheduled
    nextLegalArbTime,   \* ticks until the next one may be
    toSlave, toMaster,  \* the deliver events, with the ticks they have left
    slaveBlocked,       \* blockedInterfaces[0]
    deliveryBuffer,
    serving,            \* the reads the slave has to answer, for each interface
    fills               \* the misses of the slave that memory has still to answer

cacheVars == <<wants, events, notRetrieved>>
queueVars == <<p2pRequestQueue, p2pResponseQueue, blockedLocal>>
arbVars == <<arbEvent, nextLegalArbTime>>
transferVars == <<toSlave, toMaster>>
slaveVars == <<slaveBlocked, deliveryBuffer, serving, fills>>
vars == <<cacheVars, queueVars, arbVars, transferVars, slaveVars>>

NotScheduled == -1

Request == [from : Interfaces, cmd : Commands]
Delivery == [req : Request, left : 0 .. transferDelay]
Answer == [to : Interfaces, left : 0 .. transferDelay]

TypeOK ==
    /\ wants \in [Interfaces -> [Commands -> Nat]]
    /\ events \in [Interfaces -> Nat]
    /\ notRetrieved \in [Interfaces -> Nat]
    /\ p2pRequestQueue \in Seq(Request)
    /\ p2pResponseQueue \in Seq(Interfaces)
    /\ blockedLocal \in BOOLEAN
    /\ arbEvent \in {NotScheduled} \union (0 .. transferDelay)
    /\ nextLegalArbTime \in 0 .. transferDelay
    /\ toSlave \in Seq(Delivery)
    /\ toMaster \in Seq(Answer)
    /\ slaveBlocked \in BOOLEAN
    /\ deliveryBuffer \in Seq(Request)
    /\ serving \in [Interfaces -> Nat]
    /\ fills \in 0 .. slaveMSHRs

Init ==
    /\ wants = [i \in Interfaces |-> [c \in Commands |-> 0]]
    /\ events = [i \in Interfaces |-> 0]
    /\ notRetrieved = [i \in Interfaces |-> 0]
    /\ p2pRequestQueue = <<>> /\ p2pResponseQueue = <<>>
    /\ blockedLocal = FALSE
    /\ arbEvent = NotScheduled
    /\ nextLegalArbTime = 0
    /\ toSlave = <<>> /\ toMaster = <<>>
    /\ slaveBlocked = FALSE
    /\ deliveryBuffer = <<>>
    /\ serving = [i \in Interfaces |-> 0]
    /\ fills = 0

Times(s, Test(_)) == Cardinality({n \in DOMAIN s : Test(s[n])})

Sent(s, i, cmd) == Times(s, LAMBDA r : r.from = i /\ r.cmd = cmd)
Reads(s, i) == Sent(s, i, Read)
WantsOf(i) == wants[i][Read] + wants[i][Writeback]

(***************************************************************************)
(* The first level caches, as in Crossbar: a request and the retrieve      *)
(* event for it; a squash takes back the request, not the event.           *)
(***************************************************************************)
UnderWay(i, cmd) ==
    wants[i][cmd] + Sent(p2pRequestQueue, i, cmd) + Sent(deliveryBuffer, i, cmd)
    + Times(toSlave, LAMBDA d : d.req = [from |-> i, cmd |-> cmd])
    + IF cmd = Writeback THEN 0
      ELSE serving[i] + Times(p2pResponseQueue, LAMBDA j : j = i)
           + Times(toMaster, LAMBDA a : a.to = i)

\* A cache that squashes over and over is bounded by its events.
CacheRequests(i, cmd) ==
    /\ UnderWay(i, cmd) < Outstanding[i][cmd]
    /\ events[i] + notRetrieved[i] < Outstanding[i][Read] + Outstanding[i][Writeback]
    /\ wants' = [wants EXCEPT ![i][cmd] = @ + 1]
    /\ events' = [events EXCEPT ![i] = @ + 1]
    /\ UNCHANGED <<notRetrieved, queueVars, arbVars, transferVars, slaveVars>>

CacheSquashes(i) ==
    /\ i \in Squashing /\ wants[i][Read] > 0
    /\ wants' = [wants EXCEPT ![i][Read] = @ - 1]
    /\ UNCHANGED <<events, notRetrieved, queueVars, arbVars, transferVars, slaveVars>>

(***************************************************************************)
(* send, and the retrieve event that leads to it.                          *)
(***************************************************************************)
\* Mutant: as if a transfer took one tick.
SoonestArbTomorrow == 1

\* When the arbitration is scheduled: the next tick, or the first that is legal.
SoonestArb == IF nextLegalArbTime < 1 THEN 1 ELSE nextLegalArbTime
ArbScheduled == IF arbEvent = NotScheduled THEN SoonestArb ELSE arbEvent

\* Mutant: the queue is a stack.
QueuedInFront(req) == <<req>> \o p2pRequestQueue

Queued(req) == Append(p2pRequestQueue, req)

Filled(queue) == Len(queue) = queueSize

RetrieveLater(i) ==
    /\ events[i] > 0 /\ blockedLocal
    /\ events' = [events EXCEPT ![i] = @ - 1]
    /\ notRetrieved' = [notRetrieved EXCEPT ![i] = @ + 1]
    /\ UNCHANGED <<wants, queueVars, arbVars, transferVars, slaveVars>>

\* getMemReq has nothing to send any more: a null request.
RetrieveNothing(i) ==
    /\ events[i] > 0 /\ ~blockedLocal /\ WantsOf(i) = 0
    /\ events' = [events EXCEPT ![i] = @ - 1]
    /\ UNCHANGED <<wants, notRetrieved, queueVars, arbVars, transferVars, slaveVars>>

RetrieveRequest(i) ==
    /\ events[i] > 0 /\ ~blockedLocal
    /\ events' = [events EXCEPT ![i] = @ - 1]
    /\ \E cmd \in Commands :
        /\ wants[i][cmd] > 0
        /\ wants' = [wants EXCEPT ![i][cmd] = @ - 1]
        /\ p2pRequestQueue' = Queued([from |-> i, cmd |-> cmd])
    /\ blockedLocal' = Filled(p2pRequestQueue')
    /\ arbEvent' = ArbScheduled
    /\ UNCHANGED <<notRetrieved, p2pResponseQueue, nextLegalArbTime, transferVars, slaveVars>>

Retrieve(i) == RetrieveLater(i) \/ RetrieveNothing(i) \/ RetrieveRequest(i)

(***************************************************************************)
(* arbitrate                                                               *)
(***************************************************************************)
\* retrieveAdditionalRequests, with room in the queue: the interfaces are granted
\* (either one, when both wait) until the queue is full or nothing waits.  sent
\* is what they send, kept what still waits then.
Retrieves(room, sent, kept) ==
    LET granted(i) == notRetrieved[i] - kept[i]
    IN  /\ Len(sent) <= room
        /\ \A i \in Interfaces :
            /\ kept[i] <= notRetrieved[i]
            /\ \A cmd \in Commands : Sent(sent, i, cmd) <= wants[i][cmd]
            /\ Sent(sent, i, Read) + Sent(sent, i, Writeback) = Min({granted(i), WantsOf(i)})
        /\ IF sent # <<>> /\ Len(sent) = room
           THEN granted(Last(sent).from) = Times(sent, LAMBDA r : r.from = Last(sent).from)
           ELSE room > 0 => \A i \in Interfaces : kept[i] = 0

Granted == p2pRequestQueue # <<>> /\ ~slaveBlocked

NothingArrives ==
    /\ \A n \in DOMAIN toSlave : toSlave[n].left > 0
    /\ \A n \in DOMAIN toMaster : toMaster[n].left > 0

\* Mutant: the requests are forgotten.
MoreResponsesToDo(queue, responses) == responses # <<>>

\* isWaitingRequests
MoreToDo(queue, responses) ==
    (queue # <<>> /\ ~slaveBlocked) \/ responses # <<>>

Arbitrate ==
    /\ arbEvent = 0 /\ NothingArrives
    /\ nextLegalArbTime' = transferDelay
    /\ toSlave' = IF Granted
                  THEN Append(toSlave, [req |-> Head(p2pRequestQueue), left |-> transferDelay])
                  ELSE toSlave
    /\ toMaster' = IF p2pResponseQueue # <<>>
                   THEN Append(toMaster, [to |-> Head(p2pResponseQueue), left |-> transferDelay])
                   ELSE toMaster
    /\ p2pResponseQueue' = IF p2pResponseQueue # <<>> THEN Tail(p2pResponseQueue)
                           ELSE p2pResponseQueue
    /\ LET left == IF Granted THEN Tail(p2pRequestQueue) ELSE p2pRequestQueue
           room == queueSize - Len(left)
       IN  \E sent \in SeqOf(Request, room),
              kept \in [Interfaces -> UNION {0 .. notRetrieved[i] : i \in Interfaces}] :
            /\ Retrieves(room, sent, kept)
            /\ notRetrieved' = kept
            /\ wants' = [i \in Interfaces |-> [c \in Commands |->
                            wants[i][c] - Sent(sent, i, c)]]
            /\ p2pRequestQueue' = left \o sent
            /\ blockedLocal' = Filled(p2pRequestQueue')
            /\ arbEvent' = IF sent # <<>> \/ MoreToDo(p2pRequestQueue', p2pResponseQueue')
                           THEN transferDelay ELSE NotScheduled
    /\ UNCHANGED <<events, slaveVars>>

(***************************************************************************)
(* deliver and clearBlocked, and what the slave may do when it is          *)
(* accessed: it owes an answer to a read; it may miss, with a miss of its  *)
(* own under way then, and it may block.                                   *)
(***************************************************************************)
FillsAfter(n, misses) == {f \in misses .. misses + n : f <= slaveMSHRs}

\* Mutant: writebacks are answered too.
AllAnswered(reqs, misses) ==
    /\ serving' = [i \in Interfaces |-> serving[i] + Times(reqs, LAMBDA r : r.from = i)]
    /\ fills' \in FillsAfter(Len(reqs), misses)

Accessed(reqs, misses) ==
    /\ serving' = [i \in Interfaces |-> serving[i] + Reads(reqs, i)]
    /\ fills' \in FillsAfter(Len(reqs), misses)

ArrivesAtSlave == toSlave # <<>> /\ Head(toSlave).left = 0

DeliverToBuffer ==
    /\ ArrivesAtSlave
    /\ slaveBlocked \/ deliveryBuffer # <<>>
    /\ toSlave' = Tail(toSlave)
    /\ deliveryBuffer' = Append(deliveryBuffer, Head(toSlave).req)
    /\ UNCHANGED <<cacheVars, queueVars, arbVars, toMaster, slaveBlocked, serving, fills>>

Delivered ==
    /\ ArrivesAtSlave
    /\ ~slaveBlocked /\ deliveryBuffer = <<>>
    /\ toSlave' = Tail(toSlave)
    /\ UNCHANGED <<cacheVars, queueVars, arbVars, toMaster, deliveryBuffer>>

DeliverToSlave ==
    /\ Delivered
    /\ Accessed(<<Head(toSlave).req>>, fills)
    /\ slaveBlocked' \in BOOLEAN

DeliverToMaster ==
    /\ toMaster # <<>> /\ Head(toMaster).left = 0
    /\ toMaster' = Tail(toMaster)
    /\ UNCHANGED <<cacheVars, queueVars, arbVars, toSlave, slaveVars>>

Deliver == DeliverToBuffer \/ DeliverToSlave \/ DeliverToMaster

\* Mutant: the arbitration is left as it is.
UnbufferedOnly(n, again) ==
    /\ slaveBlocked /\ slaveBlocked' = again
    /\ IF again THEN n > 0 ELSE n = Len(deliveryBuffer)
    /\ deliveryBuffer' = SubSeq(deliveryBuffer, n + 1, Len(deliveryBuffer))
    /\ UNCHANGED <<cacheVars, queueVars, arbVars, transferVars>>

\* The buffer is emptied, or until the slave blocks again, after the n-th access.
Unbuffered(n, again) ==
    /\ slaveBlocked /\ slaveBlocked' = again
    /\ IF again THEN n > 0 ELSE n = Len(deliveryBuffer)
    /\ deliveryBuffer' = SubSeq(deliveryBuffer, n + 1, Len(deliveryBuffer))
    /\ arbEvent' = IF again THEN arbEvent ELSE ArbScheduled
    /\ UNCHANGED <<cacheVars, queueVars, nextLegalArbTime, transferVars>>

\* It unblocks when memory takes a writeback, or answers a miss.
SlaveUnblocks ==
    \E n \in 0 .. Len(deliveryBuffer), again \in BOOLEAN, misses \in {fills - 1, fills} :
        /\ misses >= 0
        /\ Unbuffered(n, again)
        /\ Accessed(SubSeq(deliveryBuffer, 1, n), misses)

\* An answer of memory fills a block; the writeback of the one it evicts may take
\* the last write buffer.
SlaveFills ==
    /\ fills > 0
    /\ fills' = fills - 1
    /\ slaveBlocked' \in {slaveBlocked, TRUE}
    /\ UNCHANGED <<cacheVars, queueVars, arbVars, transferVars, deliveryBuffer, serving>>

\* respond and the retrieve event of the slave's interface in one, as in Crossbar.
SlaveResponds(i) ==
    /\ serving[i] > 0
    /\ serving' = [serving EXCEPT ![i] = @ - 1]
    /\ p2pResponseQueue' = Append(p2pResponseQueue, i)
    /\ arbEvent' = ArbScheduled
    /\ UNCHANGED <<cacheVars, p2pRequestQueue, blockedLocal, nextLegalArbTime,
                   transferVars, slaveBlocked, deliveryBuffer, fills>>

(***************************************************************************)
(* curTick moves on.                                                       *)
(***************************************************************************)
Nearer(transfers) ==
    [n \in DOMAIN transfers |-> [transfers[n] EXCEPT !.left = @ - 1]]

Tick ==
    /\ NothingArrives /\ arbEvent # 0
    /\ nextLegalArbTime' = IF nextLegalArbTime = 0 THEN 0 ELSE nextLegalArbTime - 1
    /\ arbEvent' = IF arbEvent = NotScheduled THEN arbEvent ELSE arbEvent - 1
    /\ toSlave' = Nearer(toSlave)
    /\ toMaster' = Nearer(toMaster)
    /\ UNCHANGED <<cacheVars, queueVars, slaveVars>>

Next ==
    \/ \E i \in Interfaces :
        \/ \E cmd \in Commands : CacheRequests(i, cmd)
        \/ CacheSquashes(i) \/ Retrieve(i) \/ SlaveResponds(i)
    \/ Arbitrate \/ Deliver \/ Tick
    \/ SlaveUnblocks \/ SlaveFills

Spec == Init /\ [][Next]_vars

\* The second level cache answers what it has been asked and frees what it waits
\* for in the end, as MissQueue does.
SlaveIsFair ==
    WF_vars(SlaveUnblocks) /\ \A i \in Interfaces : WF_vars(SlaveResponds(i))

\* Events fire and time passes.
LinkIsFair ==
    /\ \A i \in Interfaces : WF_vars(Retrieve(i))
    /\ WF_vars(Arbitrate) /\ WF_vars(Deliver) /\ WF_vars(Tick)

FairSpec == Spec /\ LinkIsFair /\ SlaveIsFair

(***************************************************************************)
(* Properties                                                              *)
(***************************************************************************)
\* assert(deliveryBuffer.size() == 1): an arbitration never overtakes the transfer
\* of the one before it, so that a slave that blocks gets one request at most.
OneIsBuffered ==
    /\ Len(toSlave) + Len(deliveryBuffer) <= 1
    /\ ~slaveBlocked => deliveryBuffer = <<>>

\* An arbitration is scheduled for whatever it could serve now, although it is
\* not while the slave is blocked; clearBlocked makes up for that.
WorkIsScheduled ==
    MoreToDo(p2pRequestQueue, p2pResponseQueue) => arbEvent # NotScheduled

\* The queues hold what send() asserts; requests are put off, and the processor is
\* blocked, exactly while the request queue is full.
QueuesFit ==
    /\ Len(p2pRequestQueue) <= queueSize
    /\ blockedLocal <=> Len(p2pRequestQueue) = queueSize
    /\ \A i \in Interfaces : notRetrieved[i] > 0 => blockedLocal

\* The response queue has as many places as the caches above have MSHRs.
ReadsAllowed == UNION {{i} \X (1 .. Outstanding[i][Read]) : i \in Interfaces}

ResponsesFit ==
    Cardinality(ReadsAllowed) <= queueSize => Len(p2pResponseQueue) <= queueSize

\* What is on its way, in the order of its delivery, and the answers.
ReqsOf(transfers) == [n \in DOMAIN transfers |-> transfers[n].req]
Path == deliveryBuffer \o ReqsOf(toSlave) \o p2pRequestQueue
Paths == [c \in {0} |-> [b \in {0} |-> Path]]
Serving == [b \in {0} |-> serving]
AnswersIn(queue, transfers) == [i \in Interfaces |->
    Times(queue, LAMBDA j : j = i) + Times(transfers, LAMBDA a : a.to = i)]
Returning == AnswersIn(p2pResponseQueue, toMaster)

Channel == INSTANCE Channels WITH
    Cpus <- {0}, Banks <- {0}, CpuOf <- [i \in Interfaces |-> 0],
    channel <- Paths, serving <- Serving, returning <- Returning

\* The link is a channel that loses, repeats and reorders nothing.
ChannelSpec == Channel!Spec

\* The queue is not stuck: while it holds requests, requests are granted again and
\* again, although the slave may be blocked at every arbitration for a while, and
\* although nothing is scheduled while it is.
QueueMoves ==
    []<>(p2pRequestQueue = <<>>) \/ []<><<Arbitrate /\ Granted>>_vars
=============================================================================
