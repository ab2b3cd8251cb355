-------------------------- MODULE MemoryController --------------------------
(***************************************************************************)
(* The row-hit-first memory controller of a memory channel, class          *)
(* RDFCFSTimingMemoryController, with what it knows of the DRAM banks.     *)
(*                                                                         *)
(* Requests wait in a queue of reads and a queue of writebacks.  Each time *)
(* its event is served the controller sends one command: it opens the page *)
(* of a request whose bank is closed, closes a page nothing waits for,     *)
(* issues a request whose page is open, oldest first, or makes way for the *)
(* oldest one.  Opening and closing take no time on the bus, so that the   *)
(* event is served again in the same tick; a read or a writeback occupies  *)
(* the bus until a later tick.                                             *)
(*                                                                         *)
(* A tick stands for its rank among the ticks the controller still         *)
(* compares.  How long a command takes is left to DramBank, which shows    *)
(* that a request whose page is open is ready whenever the event is        *)
(* served.  Statistics and interference estimates are left out, and the    *)
(* fast-forward phase, in which the bus bypasses its controller.           *)
(***************************************************************************)
EXTENDS Integers, SequencesExt, FiniteSetsExt

CONSTANTS
    Banks,           \* the numbers of the DRAM banks
    Pages,           \* the pages requests are for
    BankOf,          \* the bank of a page: page % num_banks
    OwnerOf,         \* the processor a page belongs to
    Generator,       \* use_id of the traffic generator
    Configs,         \* the configurations
    ReadQueueSize,   \* readqueue_size
    WriteQueueSize,  \* writequeue_size
    MaxActive,       \* max_active_pages
    Read, Writeback,
    Closed,          \* no page is open
    Nobody,          \* -1: no processor has priority
    Idle, Now, Later \* memoryControllerEvent: not scheduled, or for when

Unlimited == -1

\* asr: a policy gives processors priority in turn; load: the requests a traffic
\* generator keeps in the queue (concurrentRequestLoad); traffic: the commands
\* and pages the caches send.
Config == [closedPagePolicy : BOOLEAN, equalReadWritePri : BOOLEAN,
           starvationPreventionThreshold : Nat \union {Unlimited},
           infiniteWriteBW : BOOLEAN, asr : BOOLEAN, load : Nat,
           traffic : SUBSET ({Read, Writeback} \X Pages)]

\* A threshold is fatal when reads go before writebacks.
ASSUME ControllerAssumption ==
    /\ Banks \subseteq Nat /\ IsFiniteSet(Banks)
    /\ BankOf \in [Pages -> Banks]
    /\ Configs \subseteq Config
    /\ \A c \in Configs : ~c.equalReadWritePri =>
                              c.starvationPreventionThreshold = Unlimited
    /\ \A c \in Configs : \A t \in c.traffic : OwnerOf[t[2]] # Generator
    /\ \A p \in Pages : OwnerOf[p] # Nobody
    /\ ReadQueueSize \in Nat \ {0} /\ WriteQueueSize \in Nat \ {0}
    /\ MaxActive \in Nat \ {0}
    /\ Read # Writeback
    /\ Closed \notin Pages
    /\ Idle # Now /\ Now # Later /\ Idle # Later

VARIABLES
    config,             \* the parameters given to the constructor
    readQueue, writeQueue,
    activePages,        \* the page the controller has opened in a bank,
    activatedAt,        \* and when
    num_active_pages,
    numReqsPastOldest,
    highPriCPUID,
    isBlockedFlag,
    openpage,           \* of the DRAM: the open page of a bank
    active_bank_count,  \* of the DRAM
    event,              \* memoryControllerEvent
    curTick,
    due,                \* requests the generator sends in this tick
    generated,          \* is its request on the bus?
    passed              \* history: requests issued since the oldest one was

queueVars == <<readQueue, writeQueue, isBlockedFlag>>
pageVars == <<activePages, activatedAt, num_active_pages, openpage,
              active_bank_count>>
orderVars == <<numReqsPastOldest, passed>>
generatorVars == <<due, generated>>
vars == <<config, queueVars, pageVars, orderVars, highPriCPUID, event, curTick,
          generatorVars>>

Request == [id : Nat, page : Pages, at : Nat]

TypeOK ==
    /\ config \in Configs
    /\ readQueue \in Seq(Request)
    /\ writeQueue \in Seq(Request)
    /\ activePages \in [Banks -> Pages \union {Closed}]
    /\ activatedAt \in [Banks -> Nat]
    /\ num_active_pages \in Int
    /\ numReqsPastOldest \in Nat
    /\ isBlockedFlag \in BOOLEAN
    /\ openpage \in [Banks -> Pages \union {Closed}]
    /\ active_bank_count \in Int
    /\ event \in {Idle, Now, Later}
    /\ curTick \in Nat
    /\ due \in Nat
    /\ generated \in BOOLEAN
    /\ passed \in Nat

Init ==
    /\ config \in Configs
    /\ readQueue = <<>> /\ writeQueue = <<>>
    /\ activePages = [b \in Banks |-> Closed]
    /\ activatedAt = [b \in Banks |-> 0]
    /\ num_active_pages = 0
    /\ numReqsPastOldest = 0
    /\ highPriCPUID = Nobody
    /\ isBlockedFlag = FALSE
    /\ openpage = [b \in Banks |-> Closed]
    /\ active_bank_count = 0
    /\ event = Idle
    /\ curTick = 0
    /\ due = config.load
    /\ generated = FALSE
    /\ passed = 0

(***************************************************************************)
(* The order of the queues.  A slot is a place in one of them.             *)
(***************************************************************************)
Slots == {<<Read, i>> : i \in DOMAIN readQueue}
             \union {<<Writeback, i>> : i \in DOMAIN writeQueue}

Req(s) == IF s[1] = Read THEN readQueue[s[2]] ELSE writeQueue[s[2]]
Bank(s) == BankOf[Req(s).page]

\* Mutant: a writeback always goes before a read.
BeforeWritebacks(s, t) ==
    IF s[1] = t[1] THEN s[2] < t[2] ELSE s[1] = Writeback

\* mergeQueues: by the tick of the insertion, a read before a writeback of the
\* same tick; reads before all writebacks when they have priority.
Before(s, t) ==
    IF s[1] = t[1] THEN s[2] < t[2]
    ELSE IF ~config.equalReadWritePri THEN s[1] = Read
    ELSE \/ Req(s).at < Req(t).at
         \/ Req(s).at = Req(t).at /\ s[1] = Read

First(s, S) == s \in S /\ \A t \in S \ {s} : Before(s, t)

\* filterQueue: only the processor with priority counts while it waits.
Considered ==
    LET prioritised == {s \in Slots : OwnerOf[Req(s).page] = highPriCPUID}
    IN  IF config.equalReadWritePri /\ prioritised # {} THEN prioritised
        ELSE Slots

isActive(s) == openpage[Bank(s)] = Req(s).page
bankIsClosed(s) == openpage[Bank(s)] = Closed
isReady(s) == isActive(s)

(***************************************************************************)
(* insertRequest, from a grant of the bus and from the traffic generator,  *)
(* which does not ask whether the controller is blocked.                   *)
(***************************************************************************)
Ids == {r.id : r \in Range(readQueue) \union Range(writeQueue)}
NewIds == {n \in 0..(Len(readQueue) + Len(writeQueue)) :
               n \notin Ids /\ \A m \in 0..(n - 1) : m \in Ids}

\* Mutant: a queue blocks the bus one request too late.
FullLate(queue, size) == Len(queue) > size + 1

\* A queue blocks the bus when it holds more than its size.
Full(queue, size) == Len(queue) > size

InsertRequest(cmd, page) ==
    /\ \E id \in NewIds : LET req == [id |-> id, page |-> page, at |-> curTick] IN
        \/ /\ cmd = Read
           /\ readQueue' = Append(readQueue, req)
           /\ isBlockedFlag' = (isBlockedFlag \/ Full(readQueue', ReadQueueSize))
           /\ UNCHANGED writeQueue
        \/ /\ cmd = Writeback /\ ~config.infiniteWriteBW
           /\ writeQueue' = Append(writeQueue, req)
           /\ isBlockedFlag' = (isBlockedFlag \/ Full(writeQueue', WriteQueueSize))
           /\ UNCHANGED readQueue
        \/ /\ cmd = Writeback /\ config.infiniteWriteBW
           /\ UNCHANGED queueVars
    /\ event' = IF event = Idle THEN Now ELSE event
    /\ UNCHANGED <<config, pageVars, orderVars, highPriCPUID, curTick>>

\* Bus::sendAddr: the bus is granted only while the controller is not blocked.
SendAddr(cmd, page) ==
    /\ <<cmd, page>> \in config.traffic
    /\ ~isBlockedFlag
    /\ InsertRequest(cmd, page)
    /\ UNCHANGED generatorVars

SendGeneratedRequest(page) ==
    /\ due > 0
    /\ OwnerOf[page] = Generator
    /\ InsertRequest(Read, page)
    /\ due' = due - 1
    /\ UNCHANGED generated

\* The policy moves the priority to another processor, once in an epoch: not
\* between two commands of one tick.
SetASRHighPriCPUID(c) ==
    /\ config.asr /\ event # Now /\ c # Generator
    /\ highPriCPUID' = c
    /\ UNCHANGED <<config, queueVars, pageVars, orderVars, event, curTick,
                   generatorVars>>

(***************************************************************************)
(* getRequest: the four kinds of command, in the order they are tried.     *)
(***************************************************************************)
hasMoreRequests ==
    \/ Slots # {}
    \/ config.closedPagePolicy /\ num_active_pages # 0

Served == event = Now /\ due = 0

ToActivate == IF num_active_pages < MaxActive
              THEN {s \in Considered : ~isActive(s) /\ bankIsClosed(s)} ELSE {}

\* Mutant: a bank is kept open for a request to any page of it.
ToCloseByBank == IF config.closedPagePolicy
                 THEN {b \in Banks : /\ activePages[b] # Closed
                                     /\ \A s \in Slots : Bank(s) # b}
                 ELSE {}

\* The open pages that no request waits for.
ToClose == IF config.closedPagePolicy
           THEN {b \in Banks : /\ activePages[b] # Closed
                               /\ \A s \in Slots : Req(s).page # activePages[b]}
           ELSE {}

\* Mutant: one request too many passes the oldest.
ToIssueLate ==
    IF /\ config.starvationPreventionThreshold # Unlimited
       /\ numReqsPastOldest > config.starvationPreventionThreshold
    THEN {} ELSE {s \in Considered : isReady(s)}

\* After the threshold the search for a ready request is skipped.
ToIssue ==
    IF /\ config.equalReadWritePri
       /\ numReqsPastOldest = config.starvationPreventionThreshold
    THEN {} ELSE {s \in Considered : isReady(s)}

\* Mutant: the count of open pages is left as it is.
CloseBankUncounted(known, real) ==
    /\ activePages' = [activePages EXCEPT ![known] = Closed]
    /\ activatedAt' = [activatedAt EXCEPT ![known] = 0]
    /\ openpage' = [openpage EXCEPT ![real] = Closed]
    /\ active_bank_count' = active_bank_count - 1
    /\ UNCHANGED <<config, queueVars, highPriCPUID, event, curTick,
                   generatorVars, passed, num_active_pages>>

\* Close a bank in the DRAM and forget its page.
CloseBank(known, real) ==
    /\ activePages' = [activePages EXCEPT ![known] = Closed]
    /\ activatedAt' = [activatedAt EXCEPT ![known] = 0]
    /\ num_active_pages' = num_active_pages - 1
    /\ openpage' = [openpage EXCEPT ![real] = Closed]
    /\ active_bank_count' = active_bank_count - 1
    /\ UNCHANGED <<config, queueVars, highPriCPUID, event, curTick,
                   generatorVars, passed>>

GetActivate ==
    /\ Served
    /\ \E s \in ToActivate :
           /\ First(s, ToActivate)
           /\ activePages' = [activePages EXCEPT ![Bank(s)] = Req(s).page]
           /\ activatedAt' = [activatedAt EXCEPT ![Bank(s)] = curTick]
           /\ openpage' = [openpage EXCEPT ![Bank(s)] = Req(s).page]
    /\ num_active_pages' = num_active_pages + 1
    /\ active_bank_count' = active_bank_count + 1
    /\ UNCHANGED <<config, queueVars, orderVars, highPriCPUID, event, curTick,
                   generatorVars>>

GetClose ==
    /\ Served /\ ToActivate = {}
    /\ \E b \in ToClose :
        /\ \A c \in ToClose : b <= c
        /\ CloseBank(b, BankOf[activePages[b]])
    /\ UNCHANGED numReqsPastOldest

\* Mutant: as if the request had left already.
WithinLimitsBelow ==
    Len(readQueue) < ReadQueueSize /\ Len(writeQueue) < WriteQueueSize

\* The queues as they are before the request leaves.
WithinLimits ==
    Len(readQueue) <= ReadQueueSize /\ Len(writeQueue) <= WriteQueueSize

\* Requests are counted past the oldest where a threshold promises a bound.
Counted == config.starvationPreventionThreshold # Unlimited /\ ~config.asr

Issue(s) ==
    /\ isBlockedFlag' = (isBlockedFlag /\ ~WithinLimits)
    /\ readQueue' = IF s[1] = Read THEN RemoveAt(readQueue, s[2]) ELSE readQueue
    /\ writeQueue' = IF s[1] = Writeback THEN RemoveAt(writeQueue, s[2])
                     ELSE writeQueue
    /\ generated' = (OwnerOf[Req(s).page] = Generator)
    /\ event' = Later
    /\ passed' = IF Counted /\ ~First(s, Slots) THEN passed + 1 ELSE 0
    /\ UNCHANGED <<config, pageVars, highPriCPUID, curTick, due>>

GetReady ==
    /\ Served /\ ToActivate = {} /\ ToClose = {}
    /\ \E s \in ToIssue :
        /\ First(s, ToIssue)
        /\ Issue(s)
        /\ numReqsPastOldest' =
               IF config.starvationPreventionThreshold = Unlimited
                  \/ First(s, Considered)
               THEN 0 ELSE numReqsPastOldest + 1

\* getOther is left with the oldest request, ready or not.
OldestForced ==
    /\ Served /\ hasMoreRequests
    /\ ToActivate = {} /\ ToClose = {} /\ ToIssue = {}

IssueOldest ==
    /\ OldestForced
    /\ \E s \in Considered : First(s, Considered) /\ isActive(s) /\ Issue(s)
    /\ numReqsPastOldest' = 0

\* The bank whose page has been open the longest.
OpenLongest(b) ==
    /\ activePages[b] # Closed
    /\ \A c \in Banks \ {b} : activePages[c] # Closed =>
           \/ activatedAt[b] < activatedAt[c]
           \/ activatedAt[b] = activatedAt[c] /\ b < c

\* closePageForRequest: the bank of the request, or the page open the longest.
\* With the closed page policy the assertion before it ends the simulation; m5.fast,
\* built without assertions, goes on.
CloseForOldest ==
    /\ OldestForced
    /\ \E s \in Considered :
        /\ First(s, Considered) /\ ~isActive(s)
        /\ \/ ~bankIsClosed(s) /\ CloseBank(Bank(s), Bank(s))
           \/ /\ bankIsClosed(s)
              /\ \E b \in Banks : OpenLongest(b) /\ CloseBank(b, BankOf[activePages[b]])
    /\ numReqsPastOldest' = 0

\* handleMemoryController finds nothing to do; the event stays unscheduled.
Rest ==
    /\ Served /\ ~hasMoreRequests
    /\ event' = Idle
    /\ UNCHANGED <<config, queueVars, pageVars, orderVars, highPriCPUID, curTick,
                   generatorVars>>

HandleMemoryController ==
    GetActivate \/ GetClose \/ GetReady \/ IssueOldest \/ CloseForOldest \/ Rest

(***************************************************************************)
(* A later tick, in which the bus may be free again and the generator      *)
(* replaces the request that has completed.                                *)
(***************************************************************************)
Insertions == {r.at : r \in Range(readQueue) \union Range(writeQueue)}
Activations == {activatedAt[b] : b \in {c \in Banks : activePages[c] # Closed}}
RankIn(S, t) == Cardinality({u \in S : u < t})

NextTick ==
    /\ due = 0 /\ event # Now
    /\ \/ event = Later /\ event' = Now /\ generated' = FALSE
          /\ due' = IF generated THEN 1 ELSE 0
       \/ UNCHANGED <<event, generatorVars>>
    /\ readQueue' = [i \in DOMAIN readQueue |->
                        [readQueue[i] EXCEPT !.at = RankIn(Insertions, @)]]
    /\ writeQueue' = [i \in DOMAIN writeQueue |->
                        [writeQueue[i] EXCEPT !.at = RankIn(Insertions, @)]]
    /\ activatedAt' = [b \in Banks |-> IF activePages[b] = Closed THEN 0
                                       ELSE RankIn(Activations, activatedAt[b])]
    /\ curTick' = Cardinality(Insertions) + Cardinality(Activations)
    /\ UNCHANGED <<config, isBlockedFlag, activePages, num_active_pages, openpage,
                   active_bank_count, orderVars, highPriCPUID>>

Next ==
    \/ \E cmd \in {Read, Writeback}, p \in Pages : SendAddr(cmd, p)
    \/ \E p \in Pages : SendGeneratedRequest(p)
    \/ \E p \in Pages : SetASRHighPriCPUID(OwnerOf[p])
    \/ HandleMemoryController
    \/ NextTick

Spec == Init /\ [][Next]_vars

\* What is in the main event queue is served: the events of the controller and
\* of the generator, and the tick in which a command on the bus has ended.
FairSpec ==
    /\ Spec
    /\ WF_vars(HandleMemoryController)
    /\ WF_vars(\E p \in Pages : SendGeneratedRequest(p))
    /\ WF_vars(NextTick /\ event = Later /\ event' = Now)

(***************************************************************************)
(* Properties                                                              *)
(***************************************************************************)
\* The controller's own record of the open pages is what the DRAM has open: the
\* conditions the DRAM asserts (an idle bank to activate, an open one to close,
\* no more active banks than it allows) hold for every command.
BanksAgree ==
    /\ activePages = openpage
    /\ num_active_pages = Cardinality({b \in Banks : openpage[b] # Closed})
    /\ active_bank_count = num_active_pages
    /\ num_active_pages <= MaxActive

\* "full queue + one in progress": a queue never holds more, the flag is set
\* while one does, and setBlocked's assertion that it was clear holds.
QueueFits ==
    /\ Len(readQueue) <= ReadQueueSize + 1
    /\ Len(writeQueue) <= WriteQueueSize + 1
    /\ ~isBlockedFlag => WithinLimits

\* A blocked controller has work and its event is scheduled: the bus, which
\* asks again and again while it is blocked, does not ask for ever.
BlockedHasWork ==
    isBlockedFlag => Slots # {} /\ event # Idle

\* assert(!closedPagePolicy) of getOther: the closed page policy never has to
\* close a page for the oldest request.  It fails where a threshold or the
\* priority of a processor overrules the row hits.
ClosedNeverForced ==
    config.closedPagePolicy /\ OldestForced =>
        \A s \in Considered : First(s, Considered) => isActive(s)

\* A processor has priority and this request is another's, or as many requests
\* have passed the oldest one as the threshold allows.
Overruled(s) ==
    \/ s \notin Considered
    \/ numReqsPastOldest = config.starvationPreventionThreshold

\* Under the closed page policy, in every configuration, the controller is left
\* with the oldest request only while a row hit waits that a threshold or the
\* priority of a processor overrules: by itself the policy leaves always a page
\* to open, to close or to use, and the assertion of getOther holds.
ForcedOnlyIfOverruled ==
    config.closedPagePolicy /\ OldestForced =>
        \E s \in Slots : isReady(s) /\ Overruled(s)

\* "Maximum number of non-oldest requests to issue in a row", counted apart
\* from the controller's own counter, which a forced close resets too early.
BypassBound ==
    Counted => passed <= config.starvationPreventionThreshold

Waiting(n) == \E r \in Range(readQueue) \union Range(writeQueue) : r.id = n

\* With a threshold every request is issued, row hit or not.
EveryRequestIssued ==
    \A n \in 0..(ReadQueueSize + WriteQueueSize + 1) :
        Waiting(n) /\ Counted ~> ~Waiting(n)

\* The bus is unblocked again, in every configuration.
BusUnblocks == isBlockedFlag ~> ~isBlockedFlag
=============================================================================
