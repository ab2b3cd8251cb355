----------------------------- MODULE PrivateCache -----------------------------
(***************************************************************************)
(* The private second level cache of a processor and the link to it:       *)
(* PeerToPeerLink, with MissQueue for the slave it leaves open.            *)
(*                                                                         *)
(* When the cache unblocks, in the middle of its handling of a response,   *)
(* the link accesses it again.  Here that call is a step of its own:       *)
(* unblocking says that it is due, and nothing else happens before it.     *)
(* The tags are external: which accesses miss, which fills evict.          *)
(***************************************************************************)
EXTENDS PeerToPeerLink

CONSTANTS
    Blocks, Mshrs, NumTargets, WriteBuffers, WbSpare, Write,
    NoMSHRs, NoTargets, NoWBBuffers, RequestMSHR, RequestWB,
    Free, NoMshr, NoBlock, Mixed

VARIABLES
    mshr, pending, limit, noTarget, wbPending, wbInService, blocked, requests,
    ready,          \* the reads answered that the link has not retrieved yet
    unblocking      \* the cache tells the link next that it unblocked

L2 == INSTANCE MissQueue WITH
    Threads <- Interfaces, MaxMSHRs <- slaveMSHRs,
    Uncached <- {}, Fetches <- FALSE, Coherent <- FALSE, Limits <- {}

\* Of the cache and its memory, as MissQueue assumes.
ASSUME CacheAssumption ==
    /\ IsFiniteSet(Mshrs)
    /\ slaveMSHRs # 0 /\ Cardinality(Mshrs) >= slaveMSHRs
    /\ NumTargets \in Nat \ {0, 1}
    /\ WriteBuffers \in Nat \ {0} /\ WbSpare \in Nat \ {0}
    /\ NoMshr \notin Mshrs /\ NoBlock \notin Blocks /\ Mixed \notin Interfaces
    /\ Read # Write /\ Writeback # Write
    /\ NoMSHRs # NoTargets /\ NoWBBuffers \notin {NoMSHRs, NoTargets}
    /\ RequestMSHR # RequestWB
    /\ Free \notin L2!MSHR

missVars == <<mshr, pending, limit, noTarget, wbPending, wbInService, blocked, requests>>
l2Vars == <<missVars, ready>>
allVars == <<vars, l2Vars, unblocking>>

CacheTypeOK ==
    /\ L2!TypeOK
    /\ ready \in [Interfaces -> Nat]
    /\ unblocking \in BOOLEAN

CacheInit ==
    /\ Init
    /\ L2!Init
    /\ ready = [i \in Interfaces |-> 0]
    /\ unblocking = FALSE

\* The targets of m that wait for interface i, and those of all MSHRs.
TargetsOf(m, i) ==
    {k \in DOMAIN mshr[m].targets : mshr[m].targets[k].thread = i}
WaitingFor(i) == UNION {{m} \X TargetsOf(m, i) : m \in L2!Allocated(mshr)}

MissesUnderWay == fills' = Cardinality({m \in Mshrs : mshr'[m] # Free})

(***************************************************************************)
(* access: a hit is answered, a miss left to the miss queue; a writeback   *)
(* is not answered.                                                        *)
(***************************************************************************)
\* Mutant: a hit is answered twice.
HitAnsweredTwice(req) ==
    /\ ready' = [ready EXCEPT ![req.from] = @ + IF req.cmd = Read THEN 2 ELSE 0]
    /\ UNCHANGED missVars

Hit(req) ==
    /\ ready' = [ready EXCEPT ![req.from] = @ + IF req.cmd = Read THEN 1 ELSE 0]
    /\ UNCHANGED missVars

Missed(req) ==
    /\ IF req.cmd = Read THEN \E b \in Blocks : L2!Miss(req.from, b, Read)
                         ELSE L2!WriteOut(Writeback)
    /\ UNCHANGED ready

Access(req) ==
    /\ Hit(req) \/ Missed(req)
    /\ serving' = [serving EXCEPT ![req.from] = @ + IF req.cmd = Read THEN 1 ELSE 0]
    /\ MissesUnderWay

\* InterconnectSlave::access asserts that it finds the cache unblocked.
DeliverAccess ==
    /\ Delivered
    /\ Access(Head(toSlave).req)
    /\ slaveBlocked' = (blocked' # {})
    /\ UNCHANGED unblocking

\* BaseCache::clearBlocked calls the link; one request is in its buffer at most
\* (OneIsBuffered).
UnblockLink ==
    /\ unblocking
    /\ unblocking' = FALSE
    /\ IF deliveryBuffer = <<>>
       THEN UNCHANGED <<l2Vars, serving, fills>>
       ELSE Access(Head(deliveryBuffer))
    /\ Unbuffered(Len(deliveryBuffer), blocked' # {})

(***************************************************************************)
(* What memory asks of the cache and answers.  The interface tells the     *)
(* link of the first cause that blocks the cache, and of the last that is  *)
(* cleared.                                                                *)
(***************************************************************************)
\* Mutant: a cache that becomes unblocked for one reason is taken to be so.
TellLinkEarly ==
    /\ slaveBlocked' = (slaveBlocked \/ blocked' # {})
    /\ unblocking' = (blocked \ blocked' # {})

TellLink ==
    /\ slaveBlocked' = (slaveBlocked \/ blocked' # {})
    /\ unblocking' = (blocked # {} /\ blocked' = {})

\* Mutant: the last target is not answered.
AnswerAllButOne(m) ==
    ready' = [i \in Interfaces |-> ready[i] +
                 Cardinality({k \in 1 .. Len(mshr[m].targets) - 1 :
                                mshr[m].targets[k].thread = i})]

\* handleResponse answers all the targets.
AnswerTargets(m) == ready' = [i \in Interfaces |-> ready[i] + Cardinality(TargetsOf(m, i))]

CacheFilled(m) ==
    /\ \E evicts \in BOOLEAN : L2!Fill(m, Len(mshr[m].targets), evicts)
    /\ AnswerTargets(m)
    /\ MissesUnderWay /\ TellLink
    /\ UNCHANGED <<cacheVars, queueVars, arbVars, transferVars, deliveryBuffer, serving>>

CacheIssues(Issue) ==
    /\ Issue
    /\ MissesUnderWay /\ TellLink
    /\ UNCHANGED <<cacheVars, queueVars, arbVars, transferVars, deliveryBuffer, serving, ready>>

CacheIssuesMiss == CacheIssues(L2!IssueMiss)
CacheIssuesWrite == CacheIssues(L2!IssueWrite)

(***************************************************************************)
(* The link and the caches above it.                                       *)
(***************************************************************************)
CacheResponds(i) ==
    /\ ready[i] > 0
    /\ ready' = [ready EXCEPT ![i] = @ - 1]
    /\ SlaveResponds(i)
    /\ UNCHANGED <<missVars, unblocking>>

LinkOnly(A) == A /\ UNCHANGED <<l2Vars, unblocking>>

Above(i) ==
    LinkOnly(\/ \E cmd \in Commands : CacheRequests(i, cmd)
             \/ CacheSquashes(i))

Event ==
    \/ \E i \in Interfaces : Above(i) \/ LinkOnly(Retrieve(i)) \/ CacheResponds(i)
    \/ LinkOnly(Arbitrate) \/ LinkOnly(DeliverToBuffer) \/ LinkOnly(DeliverToMaster)
    \/ LinkOnly(Tick)
    \/ DeliverAccess
    \/ CacheIssuesMiss \/ CacheIssuesWrite
    \/ \E m \in Mshrs : CacheFilled(m)

CacheNext == (~unblocking /\ Event) \/ UnblockLink

\* Events fire and time passes; memory grants the cache and answers it.  An event is
\* not disabled by the call that goes on in another one.
CacheFairness ==
    /\ \A i \in Interfaces : WF_allVars(LinkOnly(Retrieve(i))) /\ WF_allVars(CacheResponds(i))
    /\ WF_allVars(LinkOnly(Arbitrate)) /\ WF_allVars(LinkOnly(Tick))
    /\ WF_allVars(LinkOnly(DeliverToBuffer)) /\ WF_allVars(DeliverAccess)
    /\ WF_allVars(LinkOnly(DeliverToMaster))
    /\ WF_allVars(UnblockLink)
    /\ WF_allVars(CacheIssuesMiss) /\ WF_allVars(CacheIssuesWrite)
    /\ \A m \in Mshrs : WF_allVars(CacheFilled(m))

CacheSpec == CacheInit /\ [][CacheNext]_allVars /\ CacheFairness

(***************************************************************************)
(* Properties                                                              *)
(***************************************************************************)
\* The link takes the cache to be blocked exactly when it is, also while a fill
\* blocks it for one reason and clears another: an access never finds it blocked
\* (the assert in InterconnectSlave::access), and it is never left waiting.
LinkKnows ==
    /\ ~unblocking => (slaveBlocked <=> blocked # {})
    /\ unblocking => slaveBlocked /\ blocked = {}

\* A read that the link gave the cache is a target of an MSHR or an answer on its
\* way back, once: also when it was accessed out of the delivery buffer, in the
\* middle of the response to another.
ReadsAreHeld ==
    \A i \in Interfaces : serving[i] = ready[i] + Cardinality(WaitingFor(i))

\* The cache behaves, and is as fair, as PeerToPeerLink assumes of its slave; so
\* that what is shown of the link holds of the link with this cache.
LinkSpec == FairSpec

\* End to end: a read in the link or beyond it comes back.
InLink(i) == UnderWay(i, Read) - wants[i][Read]
ReadsComeBack ==
    \A i \in Interfaces : []<>(InLink(i) = 0) \/ []<><<InLink(i)' < InLink(i)>>_vars
=============================================================================
