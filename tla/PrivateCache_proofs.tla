-------------------------- MODULE PrivateCache_proofs --------------------------
(***************************************************************************)
(* The private second level cache is a slave as PeerToPeerLink assumes it, *)
(* in all it does but for the fairness: what is proved of the link and of  *)
(* the miss queue holds of the two together, although each calls the other *)
(* in the middle of its own step.  Each read that the link waits for is a  *)
(* target of an MSHR or an answer on its way.                              *)
(***************************************************************************)
EXTENDS PrivateCache, PeerToPeerLink_proofs

L2P == INSTANCE MissQueue_proofs WITH
    Threads <- Interfaces, MaxMSHRs <- slaveMSHRs,
    Uncached <- {}, Fetches <- FALSE, Coherent <- FALSE, Limits <- {}

-----------------------------------------------------------------------------
(* The miss queue that PrivateCache uses is the one of MissQueue_proofs.   *)

LEMMA SameSets ==
    ASSUME NEW S
    PROVE  (L2P!IsFiniteSet(S) <=> IsFiniteSet(S)) /\ L2P!Cardinality(S) = Cardinality(S)
BY DEF L2P!IsFiniteSet, IsFiniteSet, L2P!Cardinality, Cardinality

LEMMA SameInit == L2!Init => L2P!Init
BY DEF L2!Init, L2P!Init

LEMMA SameMiss ==
    ASSUME NEW t, NEW b, NEW c, L2!Miss(t, b, c)
    PROVE  L2P!Miss(t, b, c)
BY DEF L2!Miss, L2P!Miss, L2!MayAccess, L2P!MayAccess, L2!Holds, L2P!Holds, L2!AllocateMiss,
   L2P!AllocateMiss, L2!AllocateTarget, L2P!AllocateTarget, L2!Flag, L2P!Flag, L2!IsFull,
   L2P!IsFull, L2!Allocated, L2P!Allocated, L2!Cardinality, L2P!Cardinality

LEMMA SameWriteOut ==
    ASSUME NEW c, L2!WriteOut(c)
    PROVE  L2P!WriteOut(c)
BY DEF L2!WriteOut, L2P!WriteOut, L2!BlockedByWrite, L2P!BlockedByWrite, L2!Flag, L2P!Flag,
   L2!WbIsFull, L2P!WbIsFull, L2!WbAllocated, L2P!WbAllocated

LEMMA SameIssue == (L2!IssueMiss => L2P!IssueMiss) /\ (L2!IssueWrite => L2P!IssueWrite)
BY DEF L2!IssueMiss, L2P!IssueMiss, L2!IssueWrite, L2P!IssueWrite, L2!Flag, L2P!Flag,
   L2!WbIsFull, L2P!WbIsFull, L2!WbAllocated, L2P!WbAllocated

LEMMA SameFill ==
    ASSUME NEW m, NEW k, NEW evicts, L2!Fill(m, k, evicts)
    PROVE  L2P!Fill(m, k, evicts)
BY DEF L2!Fill, L2P!Fill, L2!Flag, L2P!Flag, L2!WbIsFull, L2P!WbIsFull, L2!WbAllocated,
   L2P!WbAllocated, L2!Satisfied, L2P!Satisfied, L2!Resent, L2P!Resent, L2!BlockedByWrite,
   L2P!BlockedByWrite, L2!Unblocks, L2P!Unblocks, L2!IsFull, L2P!IsFull, L2!Allocated,
   L2P!Allocated, L2!Cardinality, L2P!Cardinality

LEMMA SameMSHR == L2P!MSHR = L2!MSHR
BY DEF L2P!MSHR, L2!MSHR, L2P!Target, L2!Target

\* What MissQueue_proofs assumes.
LEMMA CacheConstants ==
    /\ L2P!IsFiniteSet(Mshrs)
    /\ slaveMSHRs \in Nat \ {0} /\ L2P!Cardinality(Mshrs) >= slaveMSHRs
    /\ NumTargets \in Nat \ {0, 1}
    /\ WriteBuffers \in Nat \ {0} /\ WbSpare \in Nat \ {0}
    /\ {} \subseteq {Read, Write} /\ FALSE \in BOOLEAN /\ {} \subseteq 1 .. slaveMSHRs
    /\ NoMshr \notin Mshrs /\ NoBlock \notin Blocks /\ Mixed \notin Interfaces
    /\ Read # Write /\ Writeback \notin {Read, Write}
    /\ NoMSHRs # NoTargets /\ NoWBBuffers \notin {NoMSHRs, NoTargets}
    /\ RequestMSHR # RequestWB
    /\ Free \notin L2P!MSHR
BY CacheAssumption, LinkAssumption, SameSets, SameMSHR

LEMMA QueueInit == L2P!Init => L2P!IInv
BY CacheConstants, L2P!InitEstablishes

LEMMA QueueNext == L2P!IInv /\ [L2P!Next]_(L2P!vars) => L2P!IInv'
BY CacheConstants, L2P!NextPreserves

-----------------------------------------------------------------------------
(* The invariant: each part keeps its own, and they agree on what is under *)
(* way.                                                                    *)

\* The link counts the misses that have an MSHR.
MissesCounted == fills = Cardinality(L2P!Allocated(mshr))

PairInv ==
    /\ IInv
    /\ L2P!IInv
    /\ MissesCounted
    /\ LinkKnows
    /\ unblocking \in BOOLEAN

LEMMA MissesCountedNext == ASSUME MissesUnderWay PROVE MissesCounted'
BY DEF MissesUnderWay, MissesCounted, L2P!Allocated

LEMMA MissesKept == ASSUME MissesCounted, UNCHANGED <<mshr, fills>> PROVE MissesCounted'
BY DEF MissesCounted, L2P!Allocated

-----------------------------------------------------------------------------
(* An access: at most one miss more.                                       *)

LEMMA ReadsOfNone == ASSUME NEW i PROVE Reads(<<>>, i) = 0
<1> DEFINE s == <<>>
           D == {n \in DOMAIN s : s[n].from = i /\ s[n].cmd = Read}
<1>1. D = {}
  OBVIOUS
<1>2. Cardinality(D) = 0
  BY <1>1, FS_EmptySet
<1> QED
  BY <1>2 DEF Reads, Sent, Times

\* What the miss queue does in an access is a step of its own.
LEMMA AccessQueueStep ==
    ASSUME NEW req \in Request, Access(req)
    PROVE  [L2P!Next]_(L2P!vars)
<1>1. req.from \in Interfaces
  BY DEF Request
<1>2. CASE Hit(req)
  BY <1>2 DEF Hit, missVars, L2P!vars
<1>3. CASE Missed(req)
  <2>1. CASE req.cmd = Read
    <3>1. PICK b \in Blocks : L2!Miss(req.from, b, Read)
      BY <1>3, <2>1 DEF Missed
    <3>2. L2P!Miss(req.from, b, Read)
      BY <3>1, SameMiss
    <3> QED
      BY <1>1, <3>2 DEF L2P!Next
  <2>2. CASE req.cmd # Read
    <3>1. L2P!WriteOut(Writeback)
      BY <1>3, <2>2, SameWriteOut DEF Missed
    <3> QED
      BY <3>1 DEF L2P!Next
  <2> QED
    BY <2>1, <2>2
<1> QED
  BY <1>2, <1>3 DEF Access

LEMMA AccessFills ==
    ASSUME L2P!IInv, MissesCounted, SlaveInv, NEW req \in Request, Access(req)
    PROVE  fills' \in FillsAfter(1, fills)
<1> DEFINE n == L2P!Cardinality(L2P!Allocated(mshr))
           n2 == L2P!Cardinality(L2P!Allocated(mshr'))
<1>1. fills = n /\ fills' = n2 /\ fills \in 0 .. slaveMSHRs
  BY SameSets, MissesCountedNext DEF MissesCounted, Access, SlaveInv
<1>2. n2 \in Nat /\ n <= n2 /\ n2 <= n + 1 /\ n2 <= slaveMSHRs
  <2>1. CASE mshr' = mshr
    BY <2>1, <1>1, LinkAssumption
  <2>2. CASE mshr' # mshr
    <3>1. Missed(req) /\ req.cmd = Read
      BY <2>2 DEF Access, Hit, missVars, Missed, L2!WriteOut
    <3>2. PICK b \in Blocks : L2!Miss(req.from, b, Read)
      BY <3>1 DEF Missed
    <3>3. L2P!Miss(req.from, b, Read) /\ req.from \in Interfaces
      BY <3>2, SameMiss DEF Request
    <3> QED
      BY <3>3, CacheConstants, L2P!MissAllocates
  <2> QED
    BY <2>1, <2>2
<1> QED
  BY <1>1, <1>2, LinkAssumption DEF FillsAfter

LEMMA AccessIsAccessed ==
    ASSUME L2P!IInv, MissesCounted, SlaveInv, NEW req \in Request, Access(req)
    PROVE  Accessed(<<req>>, fills)
<1>1. serving' = [i \in Interfaces |-> serving[i] + Reads(<<req>>, i)]
  <2>1. serving' = [serving EXCEPT ![req.from] = @ + IF req.cmd = Read THEN 1 ELSE 0]
    BY DEF Access
  <2>2. serving \in [Interfaces -> Nat]
    BY DEF SlaveInv
  <2>3. \A i \in Interfaces :
            Reads(<<req>>, i) = IF req.from = i /\ req.cmd = Read THEN 1 ELSE 0
    BY ReadsOfOne
  <2>4. \A i \in Interfaces : serving'[i] = serving[i] + Reads(<<req>>, i)
    <3> SUFFICES ASSUME NEW i \in Interfaces PROVE serving'[i] = serving[i] + Reads(<<req>>, i)
      OBVIOUS
    <3>1. CASE req.from = i
      BY <3>1, <2>1, <2>2, <2>3
    <3>2. CASE req.from # i
      <4>1. serving'[i] = serving[i] /\ serving[i] \in Nat
        BY <3>2, <2>1, <2>2
      <4>2. Reads(<<req>>, i) = 0
        BY <3>2, <2>3
      <4> QED
        BY <4>1, <4>2
    <3> QED
      BY <3>1, <3>2
  <2>5. serving' = [i \in Interfaces |-> serving'[i]]
    BY <2>1, <2>2
  <2> QED
    BY <2>4, <2>5
<1>2. Len(<<req>>) = 1
  OBVIOUS
<1> QED
  BY <1>1, <1>2, AccessFills DEF Accessed

-----------------------------------------------------------------------------
(* Each action is a step of the link, a step of the miss queue, and leaves *)
(* them in agreement.                                                      *)

Together ==
    /\ [Next]_vars
    /\ [L2P!Next]_(L2P!vars)
    /\ MissesCounted' /\ LinkKnows'
    /\ unblocking' \in BOOLEAN

LEMMA HeadArrives ==
    ASSUME TransferInv, toSlave # <<>>
    PROVE  Head(toSlave).req \in Request
<1>1. Head(toSlave) \in Delivery
  BY HeadTailProperties DEF TransferInv
<1> QED
  BY <1>1 DEF Delivery

LEMMA DeliverAccessTogether ==
    ASSUME PairInv, ~unblocking, DeliverAccess
    PROVE  Together
<1> DEFINE req == Head(toSlave).req
<1>1. Delivered /\ Access(req) /\ slaveBlocked' = (blocked' # {}) /\ unblocking' = unblocking
  BY DEF DeliverAccess
<1>2. req \in Request
  BY <1>1, HeadArrives DEF PairInv, IInv, Delivered, ArrivesAtSlave
<1>3. Next
  <2>1. Accessed(<<req>>, fills)
    BY <1>1, <1>2, AccessIsAccessed DEF PairInv, IInv
  <2>2. slaveBlocked' \in BOOLEAN
    BY <1>1
  <2>3. DeliverToSlave
    BY <1>1, <2>1, <2>2 DEF DeliverToSlave
  <2> QED
    BY <2>3 DEF Next, Deliver
<1>4. [L2P!Next]_(L2P!vars)
  BY <1>1, <1>2, AccessQueueStep
<1>5. MissesCounted'
  BY <1>1, MissesCountedNext DEF Access
<1>6. LinkKnows' /\ unblocking' \in BOOLEAN
  BY <1>1 DEF LinkKnows, PairInv
<1> QED
  BY <1>3, <1>4, <1>5, <1>6 DEF Together

\* The link accesses the cache again while the cache unblocks.
LEMMA UnblockLinkTogether ==
    ASSUME PairInv, UnblockLink
    PROVE  Together
<1> DEFINE n == Len(deliveryBuffer)
           again == blocked' # {}
           Kept == /\ Accessed(SubSeq(deliveryBuffer, 1, n), fills)
                   /\ [L2P!Next]_(L2P!vars)
                   /\ MissesCounted'
<1>1. unblocking /\ unblocking' = FALSE /\ Unbuffered(n, again)
  BY DEF UnblockLink
<1>2. deliveryBuffer \in Seq(Request) /\ n \in Nat /\ n <= 1
  <2>1. toSlave \in Seq(Delivery) /\ deliveryBuffer \in Seq(Request)
    BY DEF PairInv, IInv, TransferInv, SlaveInv
  <2>2. Len(toSlave) \in Nat /\ n \in Nat
    BY <2>1, LenProperties
  <2>3. Len(toSlave) + n <= 1
    BY DEF PairInv, IInv, OneIsBuffered
  <2> QED
    BY <2>1, <2>2, <2>3
<1>3. SlaveInv /\ L2P!IInv /\ MissesCounted /\ fills \in 0 .. slaveMSHRs
  BY DEF PairInv, IInv, SlaveInv
<1>4. ASSUME deliveryBuffer = <<>> PROVE Kept
  <2>1. UNCHANGED <<l2Vars, serving, fills>>
    BY <1>4 DEF UnblockLink
  <2>2. SubSeq(deliveryBuffer, 1, n) = <<>> /\ Len(<<>>) = 0
    BY <1>4
  <2>3. \A i \in Interfaces : serving[i] + Reads(<<>>, i) = serving[i]
    BY <1>3, ReadsOfNone DEF SlaveInv
  <2>4. serving' = [i \in Interfaces |-> serving[i] + Reads(<<>>, i)]
    BY <1>3, <2>1, <2>3 DEF SlaveInv
  <2>5. fills' \in FillsAfter(0, fills)
    BY <1>3, <2>1, LinkAssumption DEF FillsAfter
  <2>6. Accessed(<<>>, fills)
    BY <2>2, <2>4, <2>5 DEF Accessed
  <2>7. Accessed(SubSeq(deliveryBuffer, 1, n), fills)
    BY <2>2, <2>6
  <2>8. L2P!vars' = L2P!vars /\ MissesCounted'
    BY <1>3, <2>1, MissesKept DEF l2Vars, missVars, L2P!vars
  <2> QED
    BY <2>7, <2>8
<1>5. ASSUME deliveryBuffer # <<>> PROVE Kept
  <2>1. n = 1
    <3>1. \A seq \in Seq(Request) : seq # <<>> => Len(seq) \in Nat \ {0}
      BY EmptySeq
    <3>2. deliveryBuffer \in Seq(Request)
      BY <1>2
    <3>3. Len(deliveryBuffer) \in Nat \ {0}
      BY <1>5, <3>1, <3>2, Zenon
    <3>4. Len(deliveryBuffer) <= 1
      BY <1>2
    <3> HIDE DEF Kept
    <3> QED
      BY <3>3, <3>4
  <2>2. Head(deliveryBuffer) \in Request /\ Access(Head(deliveryBuffer))
    BY <1>2, <1>5 DEF UnblockLink
  <2>3. SubSeq(deliveryBuffer, 1, n) = <<Head(deliveryBuffer)>>
    <3> DEFINE s == SubSeq(deliveryBuffer, 1, 1)
    <3>1. s \in Seq(Request) /\ Len(s) = 1 /\ s[1] = deliveryBuffer[1]
      BY <1>2, <2>1, SubSeqProperties
    <3>2. Head(deliveryBuffer) = deliveryBuffer[1]
      BY <1>2, <1>5
    <3> HIDE DEF s
    <3>3. s = <<s[1]>>
      BY <3>1
    <3> QED
      BY <2>1, <3>1, <3>2, <3>3 DEF s
  <2>4. Accessed(SubSeq(deliveryBuffer, 1, n), fills)
    BY <1>3, <2>2, <2>3, AccessIsAccessed
  <2>5. [L2P!Next]_(L2P!vars)
    BY <2>2, AccessQueueStep
  <2>6. MissesCounted'
    BY <2>2, MissesCountedNext DEF Access
  <2> QED
    BY <2>4, <2>5, <2>6
<1>6. Kept
  BY <1>4, <1>5
<1>7. Next
  <2>1. n \in 0 .. Len(deliveryBuffer) /\ again \in BOOLEAN /\ fills \in {fills - 1, fills}
        /\ fills >= 0
    BY <1>2, <1>3
  <2>2. SlaveUnblocks
    BY <1>1, <1>6, <2>1 DEF SlaveUnblocks
  <2> QED
    BY <2>2 DEF Next
<1>8. slaveBlocked' = again
  BY <1>1 DEF Unbuffered
<1>9. LinkKnows' /\ unblocking' \in BOOLEAN
  BY <1>1, <1>8 DEF LinkKnows
<1> QED
  BY <1>6, <1>7, <1>9 DEF Together

\* Where only the link moves.
LEMMA LinkOnlyTogether ==
    ASSUME PairInv, ~unblocking, Next,
           UNCHANGED <<l2Vars, unblocking>>, UNCHANGED <<slaveBlocked, fills>>
    PROVE  Together
<1>1. UNCHANGED <<missVars, unblocking>>
  BY DEF l2Vars
<1>2. L2P!vars' = L2P!vars
  BY <1>1 DEF missVars, L2P!vars
<1>3. MissesCounted'
  BY <1>1, MissesKept DEF PairInv, missVars
<1>4. LinkKnows' /\ unblocking' \in BOOLEAN
  BY <1>1 DEF LinkKnows, PairInv, missVars
<1> QED
  BY <1>2, <1>3, <1>4 DEF Together

LEMMA CacheRespondsTogether ==
    ASSUME PairInv, ~unblocking, NEW i \in Interfaces, CacheResponds(i)
    PROVE  Together
<1>1. SlaveResponds(i) /\ UNCHANGED <<missVars, unblocking>>
  BY DEF CacheResponds
<1>2. Next
  BY <1>1 DEF Next
<1>3. UNCHANGED <<slaveBlocked, fills>>
  BY <1>1 DEF SlaveResponds
<1>4. L2P!vars' = L2P!vars
  BY <1>1 DEF missVars, L2P!vars
<1>5. MissesCounted'
  BY <1>1, <1>3, MissesKept DEF PairInv, missVars
<1>6. LinkKnows' /\ unblocking' \in BOOLEAN
  BY <1>1, <1>3 DEF LinkKnows, PairInv, missVars
<1> QED
  BY <1>2, <1>4, <1>5, <1>6 DEF Together

\* The interface tells the link of the first and of the last cause.
LEMMA TellLinkKeeps ==
    ASSUME PairInv, ~unblocking, TellLink
    PROVE  LinkKnows' /\ unblocking' \in BOOLEAN
BY DEF PairInv, LinkKnows, TellLink

LEMMA CacheFilledTogether ==
    ASSUME PairInv, ~unblocking, NEW m \in Mshrs, CacheFilled(m)
    PROVE  Together
<1> DEFINE k == Len(mshr[m].targets)
           n == L2P!Cardinality(L2P!Allocated(mshr))
           n2 == L2P!Cardinality(L2P!Allocated(mshr'))
<1>1. PICK evicts \in BOOLEAN : L2!Fill(m, k, evicts)
  BY DEF CacheFilled
<1>2. L2P!Fill(m, k, evicts)
  BY <1>1, SameFill
<1>3. k \in 0 .. NumTargets /\ n \in Nat \ {0} /\ n2 = n - 1
  BY <1>2, CacheConstants, L2P!FillReleases DEF PairInv
<1>4. [L2P!Next]_(L2P!vars)
  BY <1>2, <1>3 DEF L2P!Next
<1>5. MissesCounted' /\ LinkKnows' /\ unblocking' \in BOOLEAN
  BY MissesCountedNext, TellLinkKeeps DEF CacheFilled
<1>6. fills = n /\ fills' = n2
  BY <1>5, SameSets DEF PairInv, MissesCounted
<1>7. SlaveFills
  <2>1. fills > 0 /\ fills' = fills - 1
    BY <1>3, <1>6
  <2>2. slaveBlocked' \in {slaveBlocked, TRUE}
    <3>1. slaveBlocked \in BOOLEAN
      BY DEF PairInv, IInv, SlaveInv
    <3>2. slaveBlocked' = (slaveBlocked \/ blocked' # {})
      BY DEF CacheFilled, TellLink
    <3> QED
      BY <3>1, <3>2
  <2>3. UNCHANGED <<cacheVars, queueVars, arbVars, transferVars, deliveryBuffer, serving>>
    BY DEF CacheFilled
  <2> QED
    BY <2>1, <2>2, <2>3 DEF SlaveFills
<1> QED
  BY <1>4, <1>5, <1>7 DEF Together, Next

\* What the cache sends to memory the link does not see.
LEMMA CacheIssuesTogether ==
    ASSUME PairInv, ~unblocking, CacheIssuesMiss \/ CacheIssuesWrite
    PROVE  Together
<1>1. /\ L2P!IssueMiss \/ L2P!IssueWrite
      /\ MissesUnderWay /\ TellLink
      /\ UNCHANGED <<cacheVars, queueVars, arbVars, transferVars, deliveryBuffer, serving>>
  BY SameIssue DEF CacheIssuesMiss, CacheIssuesWrite, CacheIssues
<1>2. [L2P!Next]_(L2P!vars)
  BY <1>1 DEF L2P!Next
<1>3. MissesCounted' /\ LinkKnows' /\ unblocking' \in BOOLEAN
  BY <1>1, MissesCountedNext, TellLinkKeeps
<1>4. L2P!Allocated(mshr') = L2P!Allocated(mshr) /\ blocked' \subseteq blocked
  <2>1. CASE L2P!IssueMiss
    BY <2>1, CacheConstants, L2P!IssueMissAllocates DEF PairInv
  <2>2. CASE L2P!IssueWrite
    BY <2>2 DEF L2P!IssueWrite
  <2> QED
    BY <1>1, <2>1, <2>2
<1>5. fills' = fills
  BY <1>3, <1>4 DEF PairInv, MissesCounted
<1>6. slaveBlocked' = slaveBlocked
  <2>1. slaveBlocked \in BOOLEAN /\ (slaveBlocked <=> blocked # {})
    BY DEF PairInv, IInv, SlaveInv, LinkKnows
  <2>2. slaveBlocked' = (slaveBlocked \/ blocked' # {})
    BY <1>1 DEF TellLink
  <2> QED
    BY <1>4, <2>1, <2>2
<1>7. vars' = vars
  BY <1>1, <1>5, <1>6 DEF vars, slaveVars
<1> QED
  BY <1>2, <1>3, <1>7 DEF Together

\* Every step of the pair.
LEMMA NextTogether ==
    ASSUME PairInv, [CacheNext]_allVars
    PROVE  Together
<1>1. CASE UnblockLink
  BY <1>1, UnblockLinkTogether
<1>2. ASSUME ~unblocking, NEW i \in Interfaces,
             Above(i) \/ LinkOnly(Retrieve(i)) \/ CacheResponds(i)
      PROVE  Together
  <2>1. CASE Above(i)
    <3>1. (\E cmd \in Commands : CacheRequests(i, cmd)) \/ CacheSquashes(i)
      BY <2>1 DEF Above, LinkOnly
    <3>2. Next /\ UNCHANGED <<slaveBlocked, fills>>
      BY <3>1 DEF Next, CacheRequests, CacheSquashes, slaveVars
    <3> QED
      BY <1>2, <2>1, <3>2, LinkOnlyTogether DEF Above, LinkOnly
  <2>2. CASE LinkOnly(Retrieve(i))
    <3>1. Next /\ UNCHANGED <<slaveBlocked, fills>>
      BY <2>2 DEF LinkOnly, Next, Retrieve, RetrieveLater, RetrieveNothing, RetrieveRequest,
                  slaveVars
    <3> QED
      BY <1>2, <2>2, <3>1, LinkOnlyTogether DEF LinkOnly
  <2> QED
    BY <1>2, <2>1, <2>2, CacheRespondsTogether
<1>3. CASE ~unblocking /\ LinkOnly(Arbitrate)
  <2>1. Next /\ UNCHANGED <<slaveBlocked, fills>>
    BY <1>3 DEF LinkOnly, Next, Arbitrate, slaveVars
  <2> QED
    BY <1>3, <2>1, LinkOnlyTogether DEF LinkOnly
<1>4. CASE ~unblocking /\ LinkOnly(DeliverToBuffer)
  <2>1. Next /\ UNCHANGED <<slaveBlocked, fills>>
    BY <1>4 DEF LinkOnly, Next, Deliver, DeliverToBuffer
  <2> QED
    BY <1>4, <2>1, LinkOnlyTogether DEF LinkOnly
<1>5. CASE ~unblocking /\ LinkOnly(DeliverToMaster)
  <2>1. Next /\ UNCHANGED <<slaveBlocked, fills>>
    BY <1>5 DEF LinkOnly, Next, Deliver, DeliverToMaster, slaveVars
  <2> QED
    BY <1>5, <2>1, LinkOnlyTogether DEF LinkOnly
<1>6. CASE ~unblocking /\ LinkOnly(Tick)
  <2>1. Next /\ UNCHANGED <<slaveBlocked, fills>>
    BY <1>6 DEF LinkOnly, Next, Tick, slaveVars
  <2> QED
    BY <1>6, <2>1, LinkOnlyTogether DEF LinkOnly
<1>7. CASE ~unblocking /\ DeliverAccess
  BY <1>7, DeliverAccessTogether
<1>8. CASE ~unblocking /\ (CacheIssuesMiss \/ CacheIssuesWrite)
  BY <1>8, CacheIssuesTogether
<1>9. ASSUME ~unblocking, NEW m \in Mshrs, CacheFilled(m) PROVE Together
  BY <1>9, CacheFilledTogether
<1>10. CASE UNCHANGED allVars
  <2>1. UNCHANGED <<vars, missVars, unblocking>>
    BY <1>10 DEF allVars, l2Vars
  <2>2. UNCHANGED <<slaveBlocked, fills>>
    BY <2>1 DEF vars, slaveVars
  <2>3. L2P!vars' = L2P!vars
    BY <2>1 DEF missVars, L2P!vars
  <2>4. MissesCounted'
    BY <2>1, <2>2, MissesKept DEF PairInv, missVars
  <2>5. LinkKnows' /\ unblocking' \in BOOLEAN
    BY <2>1, <2>2 DEF LinkKnows, PairInv, missVars
  <2> QED
    BY <2>1, <2>3, <2>4, <2>5 DEF Together
<1> QED
  BY <1>1, <1>2, <1>3, <1>4, <1>5, <1>6, <1>7, <1>8, <1>9, <1>10 DEF CacheNext, Event

-----------------------------------------------------------------------------
(* The results.                                                            *)

LEMMA PairInit == CacheInit => PairInv
<1> SUFFICES ASSUME CacheInit PROVE PairInv
  OBVIOUS
<1>1. IInv
  BY InitInv DEF CacheInit
<1>2. L2P!IInv
  BY SameInit, QueueInit DEF CacheInit
<1>3. MissesCounted
  <2>1. L2P!Allocated(mshr) = {}
    BY DEF CacheInit, L2!Init, L2P!Allocated
  <2>2. fills = 0
    BY DEF CacheInit, Init
  <2> QED
    BY <2>1, <2>2, FS_EmptySet DEF MissesCounted
<1>4. LinkKnows /\ unblocking \in BOOLEAN
  BY DEF CacheInit, Init, L2!Init, LinkKnows
<1> QED
  BY <1>1, <1>2, <1>3, <1>4 DEF PairInv

LEMMA PairNext == PairInv /\ [CacheNext]_allVars => PairInv'
<1> SUFFICES ASSUME PairInv, [CacheNext]_allVars PROVE PairInv'
  OBVIOUS
<1>1. Together
  BY NextTogether
<1>2. IInv'
  BY <1>1, NextKeeps DEF Together, PairInv
<1>3. L2P!IInv'
  BY <1>1, QueueNext DEF Together, PairInv
<1> QED
  BY <1>1, <1>2, <1>3 DEF Together, PairInv

LEMMA PairInductive == CacheSpec => []PairInv
BY PairInit, PairNext, PTL DEF CacheSpec

\* The link always knows whether the cache is blocked, however the two call each
\* other (InterconnectInterface::setBlocked and clearBlocked, BaseCache::clearBlocked).
THEOREM LinkAlwaysKnows == CacheSpec => []LinkKnows
<1>1. PairInv => LinkKnows
  BY DEF PairInv
<1> QED
  BY PairInductive, <1>1, PTL

\* The cache does nothing but what the link allows its slave: with it the link
\* behaves as PeerToPeerLink says, and all that is proved of that holds of the two.
THEOREM CacheIsASlave == CacheSpec => Spec
<1>1. CacheInit => Init
  BY DEF CacheInit
<1>2. PairInv /\ [CacheNext]_allVars => [Next]_vars
  BY NextTogether DEF Together
<1> QED
  BY PairInductive, <1>1, <1>2, PTL DEF CacheSpec, Spec

\* So one request at most reaches a blocked cache, and an arbitration is scheduled
\* when it is not (the assert on deliveryBuffer in PeerToPeerLink::deliver).
THEOREM OneIsBufferedInPair == CacheSpec => []OneIsBuffered /\ []WorkIsScheduled
<1>1. PairInv => OneIsBuffered /\ WorkIsScheduled
  BY DEF PairInv, IInv
<1> QED
  BY PairInductive, <1>1, PTL

\* And the cache gets what the caches above it send in the order in which they sent
\* it, each request once, and answers each read once, the one it finds in the buffer
\* when it unblocks included.
THEOREM PairIsAChannel == CacheSpec => ChannelSpec
BY CacheIsASlave, LinkIsAChannel, PTL

\* And so its answers always find room in the link's response queue.
THEOREM ResponsesFitInPair == CacheSpec => []ResponsesFit
BY CacheIsASlave, ResponsesFitHolds, PTL

\* Whatever the link does, the cache is a MissQueue: the calls of the link in the
\* middle of its handling of a response are accesses as from anywhere.
THEOREM PairIsAMissQueue == CacheSpec => L2P!Spec
<1>1. CacheInit => L2P!Init
  BY SameInit DEF CacheInit
<1>2. PairInv /\ [CacheNext]_allVars => [L2P!Next]_(L2P!vars)
  BY NextTogether DEF Together
<1> QED
  BY PairInductive, <1>1, <1>2, PTL DEF CacheSpec, L2P!Spec

\* Its write buffers hold what fills write back while it is blocked and the link
\* buffers a request, with a reserve of one register for each MSHR.
THEOREM WritebacksFitInPair ==
    ASSUME WbSpare >= slaveMSHRs
    PROVE  CacheSpec => []L2P!WritebacksFit
<1>1. WbSpare >= L2P!MostFills
  BY CacheConstants, Constants DEF L2P!MostFills
<1>2. L2P!Spec => []L2P!WritebacksFit
  BY <1>1, CacheConstants, L2P!WritebacksFitReserve
<1> QED
  BY PairIsAMissQueue, <1>2, PTL

-----------------------------------------------------------------------------
(* The reads the cache holds.                                              *)

\* TargetsOf and WaitingFor, of the registers s.
TargetsIn(s, m, i) ==
    IF s[m] = Free THEN {}
    ELSE {k \in DOMAIN s[m].targets : s[m].targets[k].thread = i}
WaitingIn(s, i) == UNION {{m} \X TargetsIn(s, m, i) : m \in Mshrs}

LEMMA WaitingIsIn ==
    ASSUME NEW i
    PROVE  /\ WaitingFor(i) = WaitingIn(mshr, i)
           /\ WaitingFor(i)' = WaitingIn(mshr', i)
<1>1. ASSUME NEW s
      PROVE  UNION {{m} \X {k \in DOMAIN s[m].targets : s[m].targets[k].thread = i} :
                        m \in {m \in Mshrs : s[m] # Free}}
             = WaitingIn(s, i)
  BY DEF WaitingIn, TargetsIn
<1> QED
  BY <1>1 DEF WaitingFor, TargetsOf, L2!Allocated

LEMMA WaitingMembers ==
    ASSUME NEW s, NEW i, NEW x
    PROVE  x \in WaitingIn(s, i) <=> \E m \in Mshrs : \E k \in TargetsIn(s, m, i) : x = <<m, k>>
BY DEF WaitingIn

LEMMA WaitingSame ==
    ASSUME NEW s, NEW r, NEW i, \A m \in Mshrs : TargetsIn(r, m, i) = TargetsIn(s, m, i)
    PROVE  WaitingIn(r, i) = WaitingIn(s, i)
BY WaitingMembers

LEMMA WaitingOneMore ==
    ASSUME NEW s, NEW r, NEW i, NEW m \in Mshrs, NEW n,
           \A l \in Mshrs \ {m} : TargetsIn(r, l, i) = TargetsIn(s, l, i),
           TargetsIn(r, m, i) = TargetsIn(s, m, i) \cup {n}, n \notin TargetsIn(s, m, i),
           IsFiniteSet(WaitingIn(s, i))
    PROVE  /\ IsFiniteSet(WaitingIn(r, i))
           /\ Cardinality(WaitingIn(r, i)) = Cardinality(WaitingIn(s, i)) + 1
<1>1. <<m, n>> \notin WaitingIn(s, i)
  BY WaitingMembers
<1>2. \A x : x \in WaitingIn(r, i) <=> x \in WaitingIn(s, i) \/ x = <<m, n>>
  BY WaitingMembers
<1>3. WaitingIn(r, i) = WaitingIn(s, i) \cup {<<m, n>>}
  BY <1>2
<1> DEFINE W == WaitingIn(s, i)
<1>4. <<m, n>> \notin W /\ WaitingIn(r, i) = W \cup {<<m, n>>} /\ IsFiniteSet(W)
  BY <1>1, <1>3
<1> HIDE DEF W
<1>5. \A x : /\ IsFiniteSet(W \cup {x})
             /\ Cardinality(W \cup {x}) = IF x \in W THEN Cardinality(W) ELSE Cardinality(W) + 1
  BY <1>4, FS_AddElement
<1>6. /\ IsFiniteSet(WaitingIn(r, i))
      /\ Cardinality(WaitingIn(r, i)) = Cardinality(W) + 1
  BY <1>4, <1>5, Zenon
<1> QED
  BY <1>6 DEF W

LEMMA WaitingFewer ==
    ASSUME NEW s, NEW r, NEW i, NEW m \in Mshrs,
           \A l \in Mshrs \ {m} : TargetsIn(r, l, i) = TargetsIn(s, l, i),
           TargetsIn(r, m, i) = {}, IsFiniteSet(TargetsIn(s, m, i)),
           IsFiniteSet(WaitingIn(s, i))
    PROVE  /\ IsFiniteSet(WaitingIn(r, i))
           /\ Cardinality(WaitingIn(r, i))
                  = Cardinality(WaitingIn(s, i)) - Cardinality(TargetsIn(s, m, i))
<1> DEFINE T == TargetsIn(s, m, i)
           G == {m} \X T
<1>1. \A x : x \in G => x \in WaitingIn(s, i)
  BY WaitingMembers
<1>2. \A x : x \in WaitingIn(r, i) <=> x \in WaitingIn(s, i) /\ x \notin G
  BY WaitingMembers
<1>3. WaitingIn(r, i) = WaitingIn(s, i) \ G /\ WaitingIn(s, i) \cap G = G
  BY <1>1, <1>2
<1>4. IsFiniteSet({m}) /\ Cardinality({m}) = 1
  BY FS_Singleton
<1>5. Cardinality(G) = Cardinality({m}) * Cardinality(T) /\ Cardinality(T) \in Nat
  BY <1>4, FS_Product, FS_CardinalityType
<1> HIDE DEF G, T
<1>6. Cardinality(G) = Cardinality(T)
  BY <1>4, <1>5
<1>7. /\ IsFiniteSet(WaitingIn(s, i) \ G)
      /\ Cardinality(WaitingIn(s, i) \ G)
             = Cardinality(WaitingIn(s, i)) - Cardinality(WaitingIn(s, i) \cap G)
  BY FS_Difference
<1> QED
  BY <1>3, <1>6, <1>7 DEF T

\* A target is a read of one interface, on its way back once it is answered.
HeldInv ==
    /\ ready \in [Interfaces -> Nat]
    /\ \A i \in Interfaces : IsFiniteSet(WaitingIn(mshr, i))
    /\ \A i \in Interfaces : serving[i] = ready[i] + Cardinality(WaitingIn(mshr, i))

LEMMA HeldIsHeld == HeldInv => ReadsAreHeld
BY WaitingIsIn DEF HeldInv, ReadsAreHeld

LEMMA WaitingCounts ==
    ASSUME HeldInv, NEW i \in Interfaces
    PROVE  Cardinality(WaitingIn(mshr, i)) \in Nat
BY FS_CardinalityType DEF HeldInv

LEMMA HeldKept ==
    ASSUME HeldInv, UNCHANGED <<mshr, ready, serving>>
    PROVE  HeldInv'
<1>1. \A i \in Interfaces : WaitingIn(mshr', i) = WaitingIn(mshr, i)
  OBVIOUS
<1> QED
  BY <1>1 DEF HeldInv

LEMMA MissHeld ==
    ASSUME HeldInv, SlaveInv, L2P!IInv, NEW t \in Interfaces, NEW b \in Blocks,
           L2!Miss(t, b, Read), UNCHANGED ready,
           serving' = [serving EXCEPT ![t] = @ + 1]
    PROVE  HeldInv'
<1>1. PICK m \in Mshrs, n \in Nat :
          /\ n = IF mshr[m] = Free THEN 0 ELSE Len(mshr[m].targets)
          /\ mshr'[m] # Free /\ \A l \in Mshrs \ {m} : mshr'[l] = mshr[l]
          /\ mshr'[m].targets \in Seq(L2P!Target) /\ Len(mshr'[m].targets) = n + 1
          /\ mshr'[m].targets[n + 1].thread = t
          /\ \A k \in 1 .. n : mshr'[m].targets[k] = mshr[m].targets[k]
  <2>1. L2P!Miss(t, b, Read)
    BY SameMiss
  <2> QED
    BY <2>1, CacheConstants, L2P!MissAddsTarget
<1>2. DOMAIN mshr'[m].targets = 1 .. n + 1
  BY <1>1, LenProperties
<1>3. mshr[m] # Free => DOMAIN mshr[m].targets = 1 .. n
  <2>1. mshr[m] # Free => mshr[m].targets \in Seq(L2P!Target)
    BY DEF L2P!IInv, L2P!TypeOK, L2P!MSHR
  <2> QED
    BY <1>1, <2>1, LenProperties
<1>4. ASSUME NEW i \in Interfaces
      PROVE  /\ \A l \in Mshrs \ {m} : TargetsIn(mshr', l, i) = TargetsIn(mshr, l, i)
             /\ i = t => /\ TargetsIn(mshr', m, i) = TargetsIn(mshr, m, i) \cup {n + 1}
                         /\ n + 1 \notin TargetsIn(mshr, m, i)
             /\ i # t => TargetsIn(mshr', m, i) = TargetsIn(mshr, m, i)
  <2>1. \A l \in Mshrs \ {m} : TargetsIn(mshr', l, i) = TargetsIn(mshr, l, i)
    BY <1>1 DEF TargetsIn
  <2>2. \A k : k \in TargetsIn(mshr', m, i) <=>
                   k \in 1 .. n + 1 /\ mshr'[m].targets[k].thread = i
    BY <1>1, <1>2 DEF TargetsIn
  <2>3. \A k : k \in TargetsIn(mshr, m, i) <=> k \in 1 .. n /\ mshr[m].targets[k].thread = i
    <3>1. CASE mshr[m] = Free
      <4>1. 1 .. n = {} /\ TargetsIn(mshr, m, i) = {}
        BY <1>1, <3>1 DEF TargetsIn
      <4> QED
        BY <4>1
    <3>2. CASE mshr[m] # Free
      BY <1>3, <3>2 DEF TargetsIn
    <3> QED
      BY <3>1, <3>2
  <2>4. \A k : k \in 1 .. n + 1 <=> k \in 1 .. n \/ k = n + 1
    BY <1>1
  <2>5. n + 1 \notin 1 .. n
    BY <1>1
  <2>6. ASSUME NEW k
        PROVE  k \in TargetsIn(mshr', m, i) <=> k \in TargetsIn(mshr, m, i) \/ (k = n + 1 /\ i = t)
    <3>1. CASE k = n + 1
      BY <1>1, <2>2, <2>3, <2>4, <2>5, <3>1
    <3>2. CASE k # n + 1 /\ k \in 1 .. n
      BY <1>1, <2>2, <2>3, <2>4, <3>2
    <3>3. CASE k # n + 1 /\ k \notin 1 .. n
      <4>1. k \notin TargetsIn(mshr', m, i)
        BY <2>2, <2>4, <3>3, Zenon
      <4>2. k \notin TargetsIn(mshr, m, i)
        BY <2>3, <3>3, Zenon
      <4> QED
        BY <3>3, <4>1, <4>2
    <3> QED
      BY <3>1, <3>2, <3>3
  <2> QED
    BY <2>1, <2>3, <2>5, <2>6
<1>5. ASSUME NEW i \in Interfaces
      PROVE  /\ IsFiniteSet(WaitingIn(mshr', i))
             /\ serving'[i] = ready[i] + Cardinality(WaitingIn(mshr', i))
  <2>1. IsFiniteSet(WaitingIn(mshr, i)) /\ Cardinality(WaitingIn(mshr, i)) \in Nat
        /\ serving[i] = ready[i] + Cardinality(WaitingIn(mshr, i)) /\ ready[i] \in Nat
    BY WaitingCounts DEF HeldInv
  <2>2. serving'[i] = IF i = t THEN serving[i] + 1 ELSE serving[i]
    BY DEF SlaveInv
  <2>3. CASE i = t
    <3>1. /\ IsFiniteSet(WaitingIn(mshr', i))
          /\ Cardinality(WaitingIn(mshr', i)) = Cardinality(WaitingIn(mshr, i)) + 1
      BY <1>4, <2>1, <2>3, WaitingOneMore
    <3> QED
      BY <2>1, <2>2, <2>3, <3>1
  <2>4. CASE i # t
    <3>1. \A l \in Mshrs : TargetsIn(mshr', l, i) = TargetsIn(mshr, l, i)
      BY <1>4, <2>4
    <3>2. WaitingIn(mshr', i) = WaitingIn(mshr, i)
      BY <3>1, WaitingSame
    <3> QED
      BY <2>1, <2>2, <2>4, <3>2
  <2> QED
    BY <2>3, <2>4
<1> QED
  BY <1>5 DEF HeldInv

LEMMA AccessHeld ==
    ASSUME HeldInv, SlaveInv, L2P!IInv, NEW req \in Request, Access(req)
    PROVE  HeldInv'
<1>1. /\ serving' = [serving EXCEPT ![req.from] = @ + IF req.cmd = Read THEN 1 ELSE 0]
      /\ Hit(req) \/ Missed(req)
  BY DEF Access
<1>2. req.from \in Interfaces /\ serving \in [Interfaces -> Nat]
  BY DEF Request, SlaveInv
<1>3. ASSUME req.cmd # Read PROVE serving' = serving
  BY <1>1, <1>2, <1>3
<1>4. CASE Hit(req)
  <2>1. /\ ready' = [ready EXCEPT ![req.from] = @ + IF req.cmd = Read THEN 1 ELSE 0]
        /\ mshr' = mshr
    BY <1>4 DEF Hit, missVars
  <2>2. \A i \in Interfaces : WaitingIn(mshr', i) = WaitingIn(mshr, i)
    BY <2>1
  <2>3. ASSUME NEW i \in Interfaces
        PROVE  serving'[i] = ready'[i] + Cardinality(WaitingIn(mshr, i))
    <3>1. /\ Cardinality(WaitingIn(mshr, i)) \in Nat /\ ready[i] \in Nat
          /\ serving[i] = ready[i] + Cardinality(WaitingIn(mshr, i))
      BY WaitingCounts DEF HeldInv
    <3>2. \E d \in {0, 1} : serving'[i] = serving[i] + d /\ ready'[i] = ready[i] + d
      <4>1. CASE i = req.from
        BY <1>1, <1>2, <2>1, <4>1 DEF HeldInv
      <4>2. CASE i # req.from
        BY <1>1, <1>2, <2>1, <3>1, <4>2 DEF HeldInv
      <4> QED
        BY <4>1, <4>2
    <3> QED
      BY <3>1, <3>2
  <2>4. ready' \in [Interfaces -> Nat]
    BY <1>2, <2>1 DEF HeldInv
  <2> QED
    BY <2>2, <2>3, <2>4 DEF HeldInv
<1>5. CASE Missed(req)
  <2>1. CASE req.cmd = Read
    <3>1. PICK b \in Blocks : L2!Miss(req.from, b, Read)
      BY <1>5, <2>1 DEF Missed
    <3>2. ready' = ready /\ serving' = [serving EXCEPT ![req.from] = @ + 1]
      BY <1>1, <1>5, <2>1 DEF Missed
    <3> QED
      BY <1>2, <3>1, <3>2, MissHeld
  <2>2. CASE req.cmd # Read
    <3>1. UNCHANGED <<mshr, ready>>
      BY <1>5, <2>2 DEF Missed, L2!WriteOut
    <3> QED
      BY <1>3, <2>2, <3>1, HeldKept
  <2> QED
    BY <2>1, <2>2
<1> QED
  BY <1>1, <1>4, <1>5

\* A fill turns the targets of its MSHR into answers.
LEMMA CacheFilledHeld ==
    ASSUME HeldInv, L2P!IInv, NEW m \in Mshrs, CacheFilled(m)
    PROVE  HeldInv'
<1>1. PICK evicts \in BOOLEAN : L2!Fill(m, Len(mshr[m].targets), evicts)
  BY DEF CacheFilled
<1>2. /\ mshr[m] # Free /\ mshr' = [mshr EXCEPT ![m] = Free]
      /\ mshr[m].targets \in Seq(L2P!Target)
  <2>1. L2P!Fill(m, Len(mshr[m].targets), evicts)
    BY <1>1, SameFill
  <2> QED
    BY <2>1, CacheConstants, L2P!FillEmpties
<1>3. /\ ready' = [i \in Interfaces |-> ready[i] + Cardinality(TargetsOf(m, i))]
      /\ serving' = serving
  BY DEF CacheFilled, AnswerTargets
<1>4. \A i : TargetsOf(m, i) = TargetsIn(mshr, m, i)
  BY <1>2 DEF TargetsOf, TargetsIn
<1>5. mshr'[m] = Free /\ \A l \in Mshrs \ {m} : mshr'[l] = mshr[l]
  BY <1>2 DEF L2P!IInv, L2P!TypeOK
<1>6. ASSUME NEW i \in Interfaces
      PROVE  /\ IsFiniteSet(WaitingIn(mshr', i)) /\ ready'[i] \in Nat
             /\ serving'[i] = ready'[i] + Cardinality(WaitingIn(mshr', i))
  <2>1. /\ IsFiniteSet(WaitingIn(mshr, i)) /\ Cardinality(WaitingIn(mshr, i)) \in Nat
        /\ serving[i] = ready[i] + Cardinality(WaitingIn(mshr, i)) /\ ready[i] \in Nat
    BY WaitingCounts DEF HeldInv
  <2>2. IsFiniteSet(TargetsIn(mshr, m, i)) /\ Cardinality(TargetsIn(mshr, m, i)) \in Nat
    <3>1. DOMAIN mshr[m].targets = 1 .. Len(mshr[m].targets) /\ Len(mshr[m].targets) \in Nat
      BY <1>2, LenProperties
    <3>2. IsFiniteSet(DOMAIN mshr[m].targets)
      BY <3>1, FS_Interval
    <3>3. TargetsIn(mshr, m, i) \in SUBSET DOMAIN mshr[m].targets
      BY DEF TargetsIn
    <3> QED
      BY <3>2, <3>3, FS_Subset, FS_CardinalityType
  <2>3. /\ TargetsIn(mshr', m, i) = {}
        /\ \A l \in Mshrs \ {m} : TargetsIn(mshr', l, i) = TargetsIn(mshr, l, i)
    BY <1>5 DEF TargetsIn
  <2>4. /\ IsFiniteSet(WaitingIn(mshr', i))
        /\ Cardinality(WaitingIn(mshr', i))
               = Cardinality(WaitingIn(mshr, i)) - Cardinality(TargetsIn(mshr, m, i))
    BY <2>1, <2>2, <2>3, WaitingFewer
  <2>5. /\ ready'[i] = ready[i] + Cardinality(TargetsIn(mshr, m, i))
        /\ serving'[i] = serving[i]
    BY <1>3, <1>4
  <2> QED
    BY <2>1, <2>2, <2>4, <2>5
<1>7. ready' \in [Interfaces -> Nat]
  BY <1>3, <1>6
<1> QED
  BY <1>6, <1>7 DEF HeldInv

LEMMA CacheIssuesHeld ==
    ASSUME HeldInv, L2P!IInv, CacheIssuesMiss \/ CacheIssuesWrite
    PROVE  HeldInv'
<1>1. L2P!IssueMiss \/ L2P!IssueWrite
  BY SameIssue DEF CacheIssuesMiss, CacheIssuesWrite, CacheIssues
<1>2. UNCHANGED <<ready, serving>>
  BY DEF CacheIssuesMiss, CacheIssuesWrite, CacheIssues
<1>3. ASSUME NEW i \in Interfaces PROVE WaitingIn(mshr', i) = WaitingIn(mshr, i)
  <2>1. CASE L2P!IssueMiss
    <3>1. \A m \in Mshrs : /\ mshr'[m] = Free <=> mshr[m] = Free
                           /\ mshr[m] # Free => mshr'[m].targets = mshr[m].targets
      BY <2>1, CacheConstants, L2P!IssueKeepsTargets
    <3>2. \A m \in Mshrs : TargetsIn(mshr', m, i) = TargetsIn(mshr, m, i)
      BY <3>1 DEF TargetsIn
    <3> QED
      BY <3>2, WaitingSame
  <2>2. CASE L2P!IssueWrite
    BY <2>2 DEF L2P!IssueWrite
  <2> QED
    BY <1>1, <2>1, <2>2
<1> QED
  BY <1>2, <1>3 DEF HeldInv

LEMMA CacheRespondsHeld ==
    ASSUME HeldInv, SlaveInv, NEW t \in Interfaces, CacheResponds(t)
    PROVE  HeldInv'
<1>1. /\ ready[t] > 0 /\ ready' = [ready EXCEPT ![t] = @ - 1]
      /\ serving' = [serving EXCEPT ![t] = @ - 1] /\ mshr' = mshr
  BY DEF CacheResponds, SlaveResponds, missVars
<1>2. ASSUME NEW i \in Interfaces
      PROVE  ready'[i] \in Nat /\ serving'[i] = ready'[i] + Cardinality(WaitingIn(mshr, i))
  <2>1. /\ Cardinality(WaitingIn(mshr, i)) \in Nat
        /\ serving[i] = ready[i] + Cardinality(WaitingIn(mshr, i)) /\ ready[i] \in Nat
    BY WaitingCounts DEF HeldInv
  <2>2. CASE i = t
    BY <1>1, <2>1, <2>2 DEF HeldInv, SlaveInv
  <2>3. CASE i # t
    BY <1>1, <2>1, <2>3 DEF HeldInv, SlaveInv
  <2> QED
    BY <2>2, <2>3
<1>3. ready' \in [Interfaces -> Nat]
  BY <1>1, <1>2 DEF HeldInv
<1>4. \A i \in Interfaces : WaitingIn(mshr', i) = WaitingIn(mshr, i)
  BY <1>1
<1> QED
  BY <1>2, <1>3, <1>4 DEF HeldInv

LEMMA HeldNext ==
    ASSUME PairInv, HeldInv, [CacheNext]_allVars
    PROVE  HeldInv'
<1>1. SlaveInv /\ L2P!IInv /\ TransferInv
  BY DEF PairInv, IInv
<1>2. ASSUME UNCHANGED <<l2Vars, serving>> PROVE HeldInv'
  BY <1>2, HeldKept DEF l2Vars, missVars
<1>3. ASSUME NEW A, LinkOnly(A), UNCHANGED serving PROVE HeldInv'
  BY <1>2, <1>3 DEF LinkOnly
<1>4. CASE UnblockLink
  <2>1. CASE deliveryBuffer = <<>>
    BY <1>2, <1>4, <2>1 DEF UnblockLink
  <2>2. CASE deliveryBuffer # <<>>
    <3>1. Access(Head(deliveryBuffer)) /\ Head(deliveryBuffer) \in Request
      BY <1>1, <1>4, <2>2 DEF UnblockLink, SlaveInv
    <3> QED
      BY <1>1, <3>1, AccessHeld
  <2> QED
    BY <2>1, <2>2
<1>5. CASE DeliverAccess
  <2>1. Access(Head(toSlave).req) /\ Head(toSlave).req \in Request
    BY <1>1, <1>5, HeadArrives DEF DeliverAccess, Delivered, ArrivesAtSlave
  <2> QED
    BY <1>1, <2>1, AccessHeld
<1>6. ASSUME NEW i \in Interfaces, Above(i) PROVE HeldInv'
  BY <1>2, <1>6 DEF Above, LinkOnly, CacheRequests, CacheSquashes, slaveVars
<1>7. ASSUME NEW i \in Interfaces, LinkOnly(Retrieve(i)) PROVE HeldInv'
  BY <1>2, <1>7 DEF LinkOnly, Retrieve, RetrieveLater, RetrieveNothing, RetrieveRequest, slaveVars
<1>8. ASSUME NEW i \in Interfaces, CacheResponds(i) PROVE HeldInv'
  BY <1>1, <1>8, CacheRespondsHeld
<1>9. CASE LinkOnly(Arbitrate)
  BY <1>2, <1>9 DEF LinkOnly, Arbitrate, slaveVars
<1>10. CASE LinkOnly(DeliverToBuffer)
  BY <1>2, <1>10 DEF LinkOnly, DeliverToBuffer
<1>11. CASE LinkOnly(DeliverToMaster)
  BY <1>2, <1>11 DEF LinkOnly, DeliverToMaster, slaveVars
<1>12. CASE LinkOnly(Tick)
  BY <1>2, <1>12 DEF LinkOnly, Tick, slaveVars
<1>13. CASE CacheIssuesMiss \/ CacheIssuesWrite
  BY <1>1, <1>13, CacheIssuesHeld
<1>14. ASSUME NEW m \in Mshrs, CacheFilled(m) PROVE HeldInv'
  BY <1>1, <1>14, CacheFilledHeld
<1>15. CASE UNCHANGED allVars
  BY <1>2, <1>15 DEF allVars, vars, slaveVars
<1> QED
  BY <1>4, <1>5, <1>6, <1>7, <1>8, <1>9, <1>10, <1>11, <1>12, <1>13, <1>14, <1>15
     DEF CacheNext, Event

LEMMA HeldInit == CacheInit => HeldInv
<1> SUFFICES ASSUME CacheInit PROVE HeldInv
  OBVIOUS
<1>1. /\ ready = [i \in Interfaces |-> 0] /\ serving = [i \in Interfaces |-> 0]
      /\ mshr = [m \in Mshrs |-> Free]
  BY DEF CacheInit, Init, L2!Init
<1>2. \A i \in Interfaces : WaitingIn(mshr, i) = {}
  BY <1>1 DEF WaitingIn, TargetsIn
<1> QED
  BY <1>1, <1>2, FS_EmptySet DEF HeldInv

LEMMA HeldInductive == CacheSpec => [](PairInv /\ HeldInv)
<1>1. CacheInit => PairInv /\ HeldInv
  BY PairInit, HeldInit
<1>2. PairInv /\ HeldInv /\ [CacheNext]_allVars => (PairInv /\ HeldInv)'
  BY PairNext, HeldNext
<1> QED
  BY <1>1, <1>2, PTL DEF CacheSpec

\* A read is lost or answered twice nowhere between the link and memory: each the
\* link waits for is a target of one MSHR or an answer on its way, whatever merges,
\* fills, blocks and unblocks (Cache::handleResponse answers every target).
THEOREM EveryReadIsHeld == CacheSpec => []ReadsAreHeld
BY HeldInductive, HeldIsHeld, PTL

\* Every variable of the pair has its type.
THEOREM PairTypeCorrect == CacheSpec => []CacheTypeOK
<1>1. PairInv /\ HeldInv => CacheTypeOK
  <2> SUFFICES ASSUME PairInv, HeldInv PROVE CacheTypeOK
    OBVIOUS
  <2>1. L2P!TypeOK
    BY DEF PairInv, L2P!IInv
  <2>2. L2!TypeOK
    BY <2>1 DEF L2!TypeOK, L2P!TypeOK, L2!MSHR, L2P!MSHR, L2!Target, L2P!Target
  <2> QED
    BY <2>2 DEF CacheTypeOK, PairInv, HeldInv
<1> QED
  BY HeldInductive, <1>1, PTL

=============================================================================
