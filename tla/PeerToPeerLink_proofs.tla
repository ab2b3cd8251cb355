------------------------- MODULE PeerToPeerLink_proofs -------------------------
(***************************************************************************)
(* For any delay and size of the link and any number of caches above it:   *)
(* at most one request is on its way to a blocked cache, an arbitration is *)
(* scheduled for whatever it can serve, and the queue and the flag of the  *)
(* processor agree; the link is a channel, as Channels says, and its       *)
(* response queue holds whatever the caches above it can ask for.          *)
(***************************************************************************)
EXTENDS PeerToPeerLink, Selection_proofs

-----------------------------------------------------------------------------
(* The invariant.  What keeps a second request from the buffer is that the *)
(* next arbitration is never before the delivery of the last grant.        *)

CacheInv ==
    /\ wants \in [Interfaces -> [Commands -> Nat]]
    /\ events \in [Interfaces -> Nat]
    /\ notRetrieved \in [Interfaces -> Nat]

QueueInv ==
    /\ p2pRequestQueue \in Seq(Request)
    /\ p2pResponseQueue \in Seq(Interfaces)
    /\ blockedLocal \in BOOLEAN
    /\ QueuesFit

SlaveInv ==
    /\ slaveBlocked \in BOOLEAN
    /\ deliveryBuffer \in Seq(Request)
    /\ serving \in [Interfaces -> Nat]
    /\ fills \in 0 .. slaveMSHRs

TransferInv ==
    /\ toSlave \in Seq(Delivery)
    /\ toMaster \in Seq(Answer)

ArrivesInTime ==
    /\ \A n \in DOMAIN toSlave : toSlave[n].left <= nextLegalArbTime
    /\ arbEvent # NotScheduled => nextLegalArbTime <= arbEvent

ArbInv ==
    /\ arbEvent \in {NotScheduled} \union (0 .. transferDelay)
    /\ nextLegalArbTime \in 0 .. transferDelay
    /\ ArrivesInTime

IInv ==
    /\ CacheInv /\ QueueInv /\ SlaveInv /\ TransferInv /\ ArbInv
    /\ OneIsBuffered /\ WorkIsScheduled

-----------------------------------------------------------------------------
(* Lemmas.                                                                 *)

LEMMA Constants ==
    /\ queueSize \in Nat \ {0} /\ transferDelay \in Nat \ {0} /\ slaveMSHRs \in Nat
BY LinkAssumption

LEMMA CountsAreNat ==
    ASSUME NEW T, NEW s \in Seq(T), NEW i, NEW cmd
    PROVE  Sent(s, i, cmd) \in Nat /\ Reads(s, i) \in Nat
<1>1. DOMAIN s = 1 .. Len(s) /\ Len(s) \in Nat
  BY LenProperties
<1>2. IsFiniteSet(DOMAIN s)
  BY <1>1, FS_Interval
<1>3. \A D \in SUBSET DOMAIN s : Cardinality(D) \in Nat
  BY <1>2, FS_Subset, FS_CardinalityType
<1>4. ASSUME NEW c
      PROVE  {n \in DOMAIN s : s[n].from = i /\ s[n].cmd = c} \in SUBSET DOMAIN s
  OBVIOUS
<1> QED
  BY <1>3, <1>4 DEF Sent, Reads, Times

LEMMA ArbIsLegal ==
    ASSUME ArbInv
    PROVE  /\ ArbScheduled \in 0 .. transferDelay
           /\ nextLegalArbTime <= ArbScheduled
           /\ ArbScheduled # NotScheduled
BY Constants DEF ArbInv, ArrivesInTime, ArbScheduled, SoonestArb, NotScheduled

\* Where nothing of it changes.
LEMMA CacheKept == ASSUME CacheInv, UNCHANGED cacheVars PROVE CacheInv'
BY DEF CacheInv, cacheVars

LEMMA QueueKept == ASSUME QueueInv, UNCHANGED <<queueVars, notRetrieved>> PROVE QueueInv'
BY DEF QueueInv, QueuesFit, queueVars

LEMMA SlaveKept == ASSUME SlaveInv, UNCHANGED slaveVars PROVE SlaveInv'
BY DEF SlaveInv, slaveVars

LEMMA TransferKept == ASSUME TransferInv, UNCHANGED transferVars PROVE TransferInv'
BY DEF TransferInv, transferVars

LEMMA ArbKept == ASSUME ArbInv, UNCHANGED <<arbVars, toSlave>> PROVE ArbInv'
BY DEF ArbInv, ArrivesInTime, arbVars

\* A request or an answer that is queued has an arbitration scheduled for it.
LEMMA ArbScheduledKept ==
    ASSUME ArbInv, arbEvent' = ArbScheduled, UNCHANGED <<nextLegalArbTime, toSlave>>
    PROVE  ArbInv' /\ WorkIsScheduled'
BY ArbIsLegal DEF ArbInv, ArrivesInTime, WorkIsScheduled

LEMMA BufferKept ==
    ASSUME OneIsBuffered, UNCHANGED <<toSlave, deliveryBuffer, slaveBlocked>>
    PROVE  OneIsBuffered'
BY DEF OneIsBuffered

LEMMA WorkKept ==
    ASSUME WorkIsScheduled, UNCHANGED <<queueVars, arbEvent>>, slaveBlocked => slaveBlocked'
    PROVE  WorkIsScheduled'
BY DEF WorkIsScheduled, MoreToDo, queueVars

\* What an access leaves of the counts.
LEMMA AccessedKeeps ==
    ASSUME SlaveInv, NEW reqs \in Seq(Request), NEW misses \in 0 .. slaveMSHRs,
           Accessed(reqs, misses)
    PROVE  serving' \in [Interfaces -> Nat] /\ fills' \in 0 .. slaveMSHRs
<1>1. \A i \in Interfaces : Reads(reqs, i) \in Nat
  BY CountsAreNat
<1>2. Len(reqs) \in Nat
  BY LenProperties
<1>3. serving' \in [Interfaces -> Nat]
  BY <1>1 DEF Accessed, SlaveInv
<1>4. fills' \in 0 .. slaveMSHRs
  BY <1>2, Constants DEF Accessed, FillsAfter
<1> QED
  BY <1>3, <1>4

-----------------------------------------------------------------------------
(* The caches above.                                                       *)

LEMMA InitInv == Init => IInv
<1> SUFFICES ASSUME Init PROVE IInv
  OBVIOUS
<1>1. CacheInv
  BY DEF Init, CacheInv
<1>2. QueueInv
  <2>1. p2pRequestQueue = <<>> /\ p2pResponseQueue = <<>> /\ blockedLocal = FALSE
    BY DEF Init
  <2>2. \A i \in Interfaces : notRetrieved[i] = 0
    BY DEF Init
  <2>3. p2pRequestQueue \in Seq(Request) /\ p2pResponseQueue \in Seq(Interfaces)
    BY <2>1
  <2>4. Len(p2pRequestQueue) = 0
    BY <2>1
  <2>5. QueuesFit
    BY <2>1, <2>2, <2>4, Constants DEF QueuesFit
  <2> QED
    BY <2>1, <2>3, <2>5 DEF QueueInv
<1>3. SlaveInv /\ TransferInv
  <2>1. serving \in [Interfaces -> Nat] /\ fills \in 0 .. slaveMSHRs
    BY Constants DEF Init
  <2>2. deliveryBuffer = <<>> /\ toSlave = <<>> /\ toMaster = <<>> /\ slaveBlocked = FALSE
    BY DEF Init
  <2>3. /\ deliveryBuffer \in Seq(Request)
        /\ toSlave \in Seq(Delivery) /\ toMaster \in Seq(Answer)
    BY <2>2
  <2> QED
    BY <2>1, <2>2, <2>3 DEF SlaveInv, TransferInv
<1>4. ArbInv
  BY Constants DEF Init, ArbInv, ArrivesInTime, NotScheduled
<1>5. OneIsBuffered /\ WorkIsScheduled
  BY DEF Init, OneIsBuffered, WorkIsScheduled, MoreToDo
<1> QED
  BY <1>1, <1>2, <1>3, <1>4, <1>5 DEF IInv

LEMMA CacheRequestsKeeps ==
    ASSUME IInv, NEW i \in Interfaces, NEW cmd \in Commands, CacheRequests(i, cmd)
    PROVE  IInv'
<1>1. UNCHANGED <<notRetrieved, queueVars, arbVars, transferVars, slaveVars>>
  BY DEF CacheRequests
<1>2. CacheInv'
  BY <1>1 DEF IInv, CacheInv, CacheRequests
<1> QED
  BY <1>1, <1>2, QueueKept, SlaveKept, TransferKept, ArbKept, BufferKept, WorkKept
     DEF IInv, arbVars, transferVars, slaveVars

LEMMA CacheSquashesKeeps ==
    ASSUME IInv, NEW i \in Interfaces, CacheSquashes(i)
    PROVE  IInv'
<1>1. UNCHANGED <<events, notRetrieved, queueVars, arbVars, transferVars, slaveVars>>
  BY DEF CacheSquashes
<1>2. Read \in Commands
  BY DEF Commands
<1>3. CacheInv'
  BY <1>1, <1>2 DEF IInv, CacheInv, CacheSquashes
<1> QED
  BY <1>1, <1>3, QueueKept, SlaveKept, TransferKept, ArbKept, BufferKept, WorkKept
     DEF IInv, arbVars, transferVars, slaveVars

LEMMA RetrieveLaterKeeps ==
    ASSUME IInv, NEW i \in Interfaces, RetrieveLater(i)
    PROVE  IInv'
<1>1. UNCHANGED <<wants, queueVars, arbVars, transferVars, slaveVars>>
  BY DEF RetrieveLater
<1>2. CacheInv'
  BY <1>1 DEF IInv, CacheInv, RetrieveLater
<1>3. QueueInv'
  BY <1>1 DEF IInv, QueueInv, QueuesFit, RetrieveLater, queueVars
<1> QED
  BY <1>1, <1>2, <1>3, SlaveKept, TransferKept, ArbKept, BufferKept, WorkKept
     DEF IInv, arbVars, transferVars, slaveVars

LEMMA RetrieveNothingKeeps ==
    ASSUME IInv, NEW i \in Interfaces, RetrieveNothing(i)
    PROVE  IInv'
<1>1. UNCHANGED <<wants, notRetrieved, queueVars, arbVars, transferVars, slaveVars>>
  BY DEF RetrieveNothing
<1>2. CacheInv'
  BY <1>1 DEF IInv, CacheInv, RetrieveNothing
<1> QED
  BY <1>1, <1>2, QueueKept, SlaveKept, TransferKept, ArbKept, BufferKept, WorkKept
     DEF IInv, arbVars, transferVars, slaveVars

LEMMA RetrieveRequestKeeps ==
    ASSUME IInv, NEW i \in Interfaces, RetrieveRequest(i)
    PROVE  IInv'
<1> PICK cmd \in Commands :
        /\ wants[i][cmd] > 0
        /\ wants' = [wants EXCEPT ![i][cmd] = @ - 1]
        /\ p2pRequestQueue' = Append(p2pRequestQueue, [from |-> i, cmd |-> cmd])
  BY DEF RetrieveRequest, Queued
<1>1. UNCHANGED <<notRetrieved, p2pResponseQueue, nextLegalArbTime, transferVars, slaveVars>>
  BY DEF RetrieveRequest
<1>2. CacheInv'
  BY <1>1 DEF IInv, CacheInv, RetrieveRequest
<1>3. QueueInv'
  <2>1. [from |-> i, cmd |-> cmd] \in Request
    BY DEF Request
  <2>2. p2pRequestQueue \in Seq(Request) /\ Len(p2pRequestQueue) \in Nat
    BY LenProperties DEF IInv, QueueInv
  <2>3. /\ p2pRequestQueue' \in Seq(Request)
        /\ Len(p2pRequestQueue') = Len(p2pRequestQueue) + 1
    BY <2>1, <2>2, AppendProperties
  <2>4. Len(p2pRequestQueue) < queueSize /\ \A j \in Interfaces : ~(notRetrieved[j] > 0)
    BY <2>2, Constants DEF RetrieveRequest, IInv, QueueInv, QueuesFit
  <2>5. blockedLocal' = (Len(p2pRequestQueue') = queueSize)
    BY DEF RetrieveRequest, Filled
  <2>6. QueuesFit'
    <3>1. Len(p2pRequestQueue') <= queueSize
      BY <2>2, <2>3, <2>4, Constants
    <3> QED
      BY <1>1, <2>4, <2>5, <3>1 DEF QueuesFit
  <2>7. p2pResponseQueue' \in Seq(Interfaces) /\ blockedLocal' \in BOOLEAN
    BY <1>1, <2>5 DEF IInv, QueueInv
  <2> QED
    BY <2>3, <2>6, <2>7 DEF QueueInv
<1>4. ArbInv' /\ WorkIsScheduled'
  BY <1>1, ArbScheduledKept DEF IInv, RetrieveRequest, transferVars
<1> QED
  BY <1>1, <1>2, <1>3, <1>4, SlaveKept, TransferKept, BufferKept
     DEF IInv, transferVars, slaveVars

LEMMA SlaveRespondsKeeps ==
    ASSUME IInv, NEW i \in Interfaces, SlaveResponds(i)
    PROVE  IInv'
<1>1. UNCHANGED <<cacheVars, p2pRequestQueue, blockedLocal, nextLegalArbTime, transferVars,
                  slaveBlocked, deliveryBuffer, fills>>
  BY DEF SlaveResponds
<1>2. QueueInv'
  <2>1. p2pResponseQueue' \in Seq(Interfaces)
    BY AppendProperties DEF SlaveResponds, IInv, QueueInv
  <2> QED
    BY <1>1, <2>1 DEF IInv, QueueInv, QueuesFit, cacheVars
<1>3. SlaveInv'
  BY <1>1 DEF IInv, SlaveInv, SlaveResponds
<1>4. ArbInv' /\ WorkIsScheduled'
  BY <1>1, ArbScheduledKept DEF IInv, SlaveResponds, transferVars
<1> QED
  BY <1>1, <1>2, <1>3, <1>4, CacheKept, TransferKept, BufferKept DEF IInv, transferVars

-----------------------------------------------------------------------------
(* Arbitration.                                                            *)

\* All that was granted has arrived.
LEMMA ArbitrateFindsNone ==
    ASSUME IInv, Arbitrate
    PROVE  toSlave = <<>> /\ nextLegalArbTime = 0
<1>1. nextLegalArbTime = 0
  BY Constants DEF IInv, ArbInv, ArrivesInTime, Arbitrate, NotScheduled
<1>2. ASSUME toSlave # <<>> PROVE FALSE
  <2>1. toSlave \in Seq(Delivery) /\ DOMAIN toSlave = 1 .. Len(toSlave) /\ Len(toSlave) \in Nat \ {0}
    BY <1>2, LenProperties, EmptySeq DEF IInv, TransferInv
  <2>2. 1 \in DOMAIN toSlave /\ toSlave[1] \in Delivery
    BY <2>1, ElementOfSeq
  <2>3. toSlave[1].left \in Nat
    BY <2>2, Constants DEF Delivery
  <2>4. toSlave[1].left <= 0 /\ toSlave[1].left > 0
    BY <1>1, <2>2 DEF IInv, ArbInv, ArrivesInTime, Arbitrate, NothingArrives
  <2> QED
    BY <2>3, <2>4
<1> QED
  BY <1>1, <1>2

LEMMA ArbitrateKeeps ==
    ASSUME IInv, Arbitrate
    PROVE  IInv'
<1> DEFINE left == IF Granted THEN Tail(p2pRequestQueue) ELSE p2pRequestQueue
           room == queueSize - Len(left)
<1>1. PICK sent \in SeqOf(Request, room),
           kept \in [Interfaces -> UNION {0 .. notRetrieved[i] : i \in Interfaces}] :
        /\ Retrieves(room, sent, kept)
        /\ notRetrieved' = kept
        /\ wants' = [i \in Interfaces |-> [c \in Commands |-> wants[i][c] - Sent(sent, i, c)]]
        /\ p2pRequestQueue' = left \o sent
        /\ blockedLocal' = Filled(p2pRequestQueue')
        /\ arbEvent' = IF sent # <<>> \/ MoreToDo(p2pRequestQueue', p2pResponseQueue')
                       THEN transferDelay ELSE NotScheduled
  BY DEF Arbitrate
<1>2. UNCHANGED <<events, slaveVars>> /\ nextLegalArbTime' = transferDelay
  BY DEF Arbitrate
<1>3. toSlave = <<>>
  BY ArbitrateFindsNone
<1>4. p2pRequestQueue \in Seq(Request) /\ Len(p2pRequestQueue) \in 0 .. queueSize
  BY LenProperties, Constants DEF IInv, QueueInv, QueuesFit
<1>5. left \in Seq(Request) /\ Len(left) \in 0 .. queueSize
  <2>1. CASE Granted
    <3>1. p2pRequestQueue # <<>>
      BY <2>1 DEF Granted
    <3> QED
      BY <1>4, <2>1, <3>1, HeadTailProperties, Constants
  <2>2. CASE ~Granted
    BY <1>4, <2>2
  <2> QED
    BY <2>1, <2>2
<1> HIDE DEF left
<1>6. room \in Nat
  BY <1>5, Constants
<1> HIDE DEF room
<1>7. sent \in Seq(Request)
  <2>1. PICK k \in 0 .. room : sent \in [1 .. k -> Request]
    BY <1>1 DEF SeqOf
  <2>2. k \in Nat
    BY <1>6, <2>1
  <2> QED
    BY <2>1, <2>2
<1>8. Len(sent) \in Nat /\ Len(sent) <= room
  BY <1>1, <1>7, LenProperties DEF Retrieves
<1>9. CacheInv'
  <2>1. \A i \in Interfaces : kept[i] \in Nat
    <3>1. \A i \in Interfaces : notRetrieved[i] \in Nat
      BY DEF IInv, CacheInv
    <3>2. UNION {0 .. notRetrieved[i] : i \in Interfaces} \subseteq Nat
      BY <3>1
    <3> QED
      BY <3>2
  <2>2. notRetrieved' \in [Interfaces -> Nat]
    BY <1>1, <2>1
  <2>3. \A i \in Interfaces, c \in Commands : wants[i][c] - Sent(sent, i, c) \in Nat
    <3>1. \A i \in Interfaces, c \in Commands : Sent(sent, i, c) \in Nat
      BY <1>7, CountsAreNat
    <3>2. \A i \in Interfaces, c \in Commands : Sent(sent, i, c) <= wants[i][c]
      BY <1>1 DEF Retrieves
    <3>3. \A i \in Interfaces, c \in Commands : wants[i][c] \in Nat
      BY DEF IInv, CacheInv
    <3> QED
      BY <3>1, <3>2, <3>3
  <2>4. wants' \in [Interfaces -> [Commands -> Nat]]
    BY <1>1, <2>3
  <2> QED
    BY <1>2, <2>2, <2>4 DEF IInv, CacheInv
<1>10. p2pRequestQueue' \in Seq(Request) /\ Len(p2pRequestQueue') = Len(left) + Len(sent)
  BY <1>1, <1>5, <1>7, ConcatProperties
<1>11. p2pResponseQueue' \in Seq(Interfaces)
  <2>1. p2pResponseQueue' = IF p2pResponseQueue # <<>> THEN Tail(p2pResponseQueue)
                            ELSE p2pResponseQueue
    BY DEF Arbitrate
  <2>2. p2pResponseQueue \in Seq(Interfaces)
    BY DEF IInv, QueueInv
  <2> QED
    BY <2>1, <2>2, HeadTailProperties
<1>12. QueuesFit'
  <2>1. Len(p2pRequestQueue') <= queueSize
    BY <1>5, <1>8, <1>10, Constants DEF room
  <2>2. blockedLocal' <=> Len(p2pRequestQueue') = queueSize
    BY <1>1 DEF Filled
  <2>3. ASSUME NEW i \in Interfaces, notRetrieved'[i] > 0 PROVE blockedLocal'
    <3>1. kept[i] > 0
      BY <1>1, <2>3
    <3>2. Len(sent) = room
      <4>1. CASE sent # <<>> /\ Len(sent) = room
        BY <4>1
      <4>2. CASE ~(sent # <<>> /\ Len(sent) = room)
        <5>1. room > 0 => kept[i] = 0
          BY <1>1, <4>2 DEF Retrieves
        <5> QED
          BY <1>6, <1>8, <3>1, <5>1
      <4> QED
        BY <4>1, <4>2
    <3> QED
      BY <1>5, <1>10, <2>2, <3>2, Constants DEF room
  <2> QED
    BY <2>1, <2>2, <2>3 DEF QueuesFit
<1>13. QueueInv'
  BY <1>1, <1>10, <1>11, <1>12 DEF QueueInv, Filled
<1>14. toSlave' \in Seq(Delivery) /\ Len(toSlave') \in 0 .. 1
       /\ (\A n \in DOMAIN toSlave' : toSlave'[n].left = transferDelay)
       /\ (Len(toSlave') = 1 => ~slaveBlocked)
  <2>1. CASE Granted
    <3> DEFINE d == [req |-> Head(p2pRequestQueue), left |-> transferDelay]
    <3>1. p2pRequestQueue # <<>> /\ ~slaveBlocked
      BY <2>1 DEF Granted
    <3>2. Head(p2pRequestQueue) \in Request
      BY <1>4, <3>1, HeadTailProperties
    <3>3. d \in Delivery
      BY <3>2, Constants DEF Delivery
    <3>4. toSlave' = <<d>>
      BY <1>3, <2>1 DEF Arbitrate
    <3>5. d.left = transferDelay
      OBVIOUS
    <3> HIDE DEF d
    <3> QED
      BY <3>1, <3>3, <3>4, <3>5
  <2>2. CASE ~Granted
    <3>1. toSlave' = <<>>
      BY <1>3, <2>2 DEF Arbitrate
    <3> QED
      BY <3>1
  <2> QED
    BY <2>1, <2>2
<1>15. toMaster' \in Seq(Answer)
  <2>1. CASE p2pResponseQueue # <<>>
    <3>1. Head(p2pResponseQueue) \in Interfaces
      BY <2>1, HeadTailProperties DEF IInv, QueueInv
    <3>2. [to |-> Head(p2pResponseQueue), left |-> transferDelay] \in Answer
      BY <3>1, Constants DEF Answer
    <3> QED
      BY <2>1, <3>2, AppendProperties DEF Arbitrate, IInv, TransferInv
  <2>2. CASE p2pResponseQueue = <<>>
    BY <2>2 DEF Arbitrate, IInv, TransferInv
  <2> QED
    BY <2>1, <2>2
<1>16. ArbInv'
  BY <1>1, <1>2, <1>14, Constants DEF ArbInv, ArrivesInTime, NotScheduled
<1>17. OneIsBuffered'
  <2>1. deliveryBuffer \in Seq(Request) /\ Len(deliveryBuffer) \in Nat /\ Len(deliveryBuffer) <= 1
    BY <1>3, LenProperties, EmptySeq DEF IInv, SlaveInv, OneIsBuffered
  <2>2. ~slaveBlocked => deliveryBuffer = <<>>
    BY DEF IInv, OneIsBuffered
  <2>3. deliveryBuffer = <<>> => Len(deliveryBuffer) = 0
    OBVIOUS
  <2>4. Len(toSlave') + Len(deliveryBuffer) <= 1
    BY <1>14, <2>1, <2>2, <2>3
  <2> QED
    BY <1>2, <2>2, <2>4 DEF OneIsBuffered, slaveVars
<1>18. WorkIsScheduled'
  <2>1. slaveBlocked' = slaveBlocked
    BY <1>2 DEF slaveVars
  <2>2. MoreToDo(p2pRequestQueue, p2pResponseQueue)'
        <=> MoreToDo(p2pRequestQueue', p2pResponseQueue')
    BY <2>1 DEF MoreToDo
  <2>3. transferDelay # NotScheduled
    BY Constants DEF NotScheduled
  <2> QED
    BY <1>1, <2>2, <2>3 DEF WorkIsScheduled
<1> QED
  BY <1>2, <1>9, <1>13, <1>14, <1>15, <1>16, <1>17, <1>18, SlaveKept DEF IInv, TransferInv

-----------------------------------------------------------------------------
(* Delivery, the slave, and time.                                          *)

LEMMA ArrivingRequest ==
    ASSUME IInv, ArrivesAtSlave
    PROVE  /\ Head(toSlave).req \in Request
           /\ Len(toSlave) = 1 /\ deliveryBuffer = <<>> /\ Tail(toSlave) = <<>>
<1>1. toSlave \in Seq(Delivery) /\ toSlave # <<>>
  BY DEF IInv, TransferInv, ArrivesAtSlave
<1>2. Len(toSlave) \in Nat \ {0} /\ Head(toSlave) \in Delivery
  BY <1>1, LenProperties, EmptySeq, HeadTailProperties
<1>3. deliveryBuffer \in Seq(Request) /\ Len(deliveryBuffer) \in Nat
  BY LenProperties DEF IInv, SlaveInv
<1>4. Len(toSlave) = 1 /\ Len(deliveryBuffer) = 0
  <2>1. Len(toSlave) + Len(deliveryBuffer) <= 1
    BY DEF IInv, OneIsBuffered
  <2>2. \A m \in Nat \ {0}, n \in Nat : m + n <= 1 => m = 1 /\ n = 0
    OBVIOUS
  <2> QED
    BY <1>2, <1>3, <2>1, <2>2
<1>5. deliveryBuffer = <<>>
  BY <1>3, <1>4, EmptySeq
<1>6. Tail(toSlave) = <<>>
  <2>1. Tail(toSlave) \in Seq(Delivery) /\ Len(Tail(toSlave)) = 0
    BY <1>1, <1>4, HeadTailProperties
  <2> QED
    BY <2>1, EmptySeq
<1> QED
  BY <1>2, <1>4, <1>5, <1>6 DEF Delivery

\* Nothing is left on its way to the slave.
LEMMA ArrivedKeeps ==
    ASSUME IInv, toSlave' = <<>>, UNCHANGED arbVars
    PROVE  ArbInv'
BY DEF IInv, ArbInv, ArrivesInTime, arbVars

LEMMA DeliverToBufferKeeps ==
    ASSUME IInv, DeliverToBuffer
    PROVE  IInv'
<1>1. UNCHANGED <<cacheVars, queueVars, arbVars, toMaster, slaveBlocked, serving, fills>>
  BY DEF DeliverToBuffer
<1>2. /\ Head(toSlave).req \in Request /\ deliveryBuffer = <<>> /\ Tail(toSlave) = <<>>
  BY ArrivingRequest DEF DeliverToBuffer
<1>3. toSlave' = <<>> /\ deliveryBuffer' = <<Head(toSlave).req>> /\ slaveBlocked
  BY <1>2 DEF DeliverToBuffer
<1>4. deliveryBuffer' \in Seq(Request) /\ Len(deliveryBuffer') = 1
  BY <1>2, <1>3
<1>5. SlaveInv'
  BY <1>1, <1>4 DEF IInv, SlaveInv
<1>6. TransferInv'
  BY <1>1, <1>3 DEF IInv, TransferInv
<1>7. OneIsBuffered'
  BY <1>1, <1>3, <1>4 DEF OneIsBuffered
<1> QED
  BY <1>1, <1>3, <1>5, <1>6, <1>7, CacheKept, QueueKept, ArrivedKeeps, WorkKept
     DEF IInv, cacheVars, arbVars

LEMMA DeliverToSlaveKeeps ==
    ASSUME IInv, DeliverToSlave
    PROVE  IInv'
<1>1. UNCHANGED <<cacheVars, queueVars, arbVars, toMaster, deliveryBuffer>>
  BY DEF DeliverToSlave, Delivered
<1>2. /\ Head(toSlave).req \in Request /\ deliveryBuffer = <<>> /\ Tail(toSlave) = <<>>
  BY ArrivingRequest DEF DeliverToSlave, Delivered
<1>3. toSlave' = <<>> /\ ~slaveBlocked /\ slaveBlocked' \in BOOLEAN
  BY <1>2 DEF DeliverToSlave, Delivered
<1>4. SlaveInv'
  <2>1. <<Head(toSlave).req>> \in Seq(Request)
    BY <1>2
  <2>2. fills \in 0 .. slaveMSHRs
    BY DEF IInv, SlaveInv
  <2>3. serving' \in [Interfaces -> Nat] /\ fills' \in 0 .. slaveMSHRs
    BY <2>1, <2>2, AccessedKeeps DEF DeliverToSlave, IInv
  <2> QED
    BY <1>1, <1>3, <2>3 DEF IInv, SlaveInv
<1>5. TransferInv'
  BY <1>1, <1>3 DEF IInv, TransferInv
<1>6. OneIsBuffered'
  BY <1>1, <1>2, <1>3 DEF OneIsBuffered
<1>7. WorkIsScheduled'
  BY <1>1, <1>3, WorkKept DEF IInv, arbVars
<1> QED
  BY <1>1, <1>3, <1>4, <1>5, <1>6, <1>7, CacheKept, QueueKept, ArrivedKeeps
     DEF IInv, cacheVars

LEMMA DeliverToMasterKeeps ==
    ASSUME IInv, DeliverToMaster
    PROVE  IInv'
<1>1. UNCHANGED <<cacheVars, queueVars, arbVars, toSlave, slaveVars>>
  BY DEF DeliverToMaster
<1>2. TransferInv'
  BY <1>1, HeadTailProperties DEF DeliverToMaster, IInv, TransferInv
<1> QED
  BY <1>1, <1>2, CacheKept, QueueKept, SlaveKept, ArbKept, BufferKept, WorkKept
     DEF IInv, cacheVars, arbVars, slaveVars

\* The slave may unblock and take what waits in the buffer; if it stays unblocked,
\* an arbitration is scheduled.
LEMMA SlaveUnblocksKeeps ==
    ASSUME IInv, SlaveUnblocks
    PROVE  IInv'
<1> PICK n \in 0 .. Len(deliveryBuffer), again \in BOOLEAN, misses \in {fills - 1, fills} :
        /\ misses >= 0
        /\ Unbuffered(n, again)
        /\ Accessed(SubSeq(deliveryBuffer, 1, n), misses)
  BY DEF SlaveUnblocks
<1>1. UNCHANGED <<cacheVars, queueVars, nextLegalArbTime, transferVars>>
  BY DEF Unbuffered
<1>2. /\ deliveryBuffer \in Seq(Request) /\ Len(deliveryBuffer) \in Nat
      /\ Len(deliveryBuffer) + Len(toSlave) <= 1 /\ Len(toSlave) \in Nat
  <2>1. Len(deliveryBuffer) \in Nat /\ Len(toSlave) \in Nat /\ deliveryBuffer \in Seq(Request)
    BY LenProperties DEF IInv, SlaveInv, TransferInv
  <2> QED
    BY <2>1 DEF IInv, OneIsBuffered
<1>3. /\ SubSeq(deliveryBuffer, 1, n) \in Seq(Request)
      /\ SubSeq(deliveryBuffer, n + 1, Len(deliveryBuffer)) \in Seq(Request)
      /\ Len(SubSeq(deliveryBuffer, n + 1, Len(deliveryBuffer))) = Len(deliveryBuffer) - n
  <2>1. \A k \in 1 .. Len(deliveryBuffer) : deliveryBuffer[k] \in Request
    BY <1>2, ElementOfSeq
  <2> QED
    BY <1>2, <2>1, SubSeqProperties
<1>4. deliveryBuffer' \in Seq(Request) /\ Len(deliveryBuffer') = Len(deliveryBuffer) - n
  BY <1>3 DEF Unbuffered
<1>5. slaveBlocked /\ slaveBlocked' = again /\ (again \/ n = Len(deliveryBuffer))
  BY DEF Unbuffered
<1>6. SlaveInv'
  <2>1. misses \in 0 .. slaveMSHRs
    BY Constants DEF IInv, SlaveInv
  <2>2. serving' \in [Interfaces -> Nat] /\ fills' \in 0 .. slaveMSHRs
    BY <1>3, <2>1, AccessedKeeps DEF IInv
  <2> QED
    BY <1>4, <1>5, <2>2 DEF SlaveInv
<1>7. OneIsBuffered'
  <2>1. toSlave' = toSlave
    BY <1>1 DEF transferVars
  <2>2. Len(toSlave) + Len(deliveryBuffer') <= 1
    BY <1>2, <1>4
  <2>3. ~slaveBlocked' => Len(deliveryBuffer') = 0
    BY <1>2, <1>4, <1>5
  <2> QED
    BY <1>4, <2>1, <2>2, <2>3, EmptySeq DEF OneIsBuffered
<1>8. ArbInv' /\ WorkIsScheduled'
  <2>1. CASE again
    <3>1. arbEvent' = arbEvent
      BY <2>1 DEF Unbuffered
    <3> QED
      BY <1>1, <1>5, <2>1, <3>1, ArbKept, WorkKept DEF IInv, arbVars, transferVars
  <2>2. CASE ~again
    <3>1. arbEvent' = ArbScheduled
      BY <2>2 DEF Unbuffered
    <3> QED
      BY <1>1, <3>1, ArbScheduledKept DEF IInv, transferVars
  <2> QED
    BY <2>1, <2>2
<1> QED
  BY <1>1, <1>6, <1>7, <1>8, CacheKept, QueueKept, TransferKept DEF IInv, cacheVars

LEMMA SlaveFillsKeeps ==
    ASSUME IInv, SlaveFills
    PROVE  IInv'
<1>1. UNCHANGED <<cacheVars, queueVars, arbVars, transferVars, deliveryBuffer, serving>>
  BY DEF SlaveFills
<1>2. slaveBlocked' \in BOOLEAN /\ (slaveBlocked => slaveBlocked')
  <2>1. slaveBlocked \in BOOLEAN
    BY DEF IInv, SlaveInv
  <2>2. slaveBlocked' = slaveBlocked \/ slaveBlocked' = TRUE
    BY DEF SlaveFills
  <2> QED
    BY <2>1, <2>2
<1>3. fills' \in 0 .. slaveMSHRs
  BY Constants DEF SlaveFills, IInv, SlaveInv
<1>4. SlaveInv'
  BY <1>1, <1>2, <1>3 DEF IInv, SlaveInv
<1>5. OneIsBuffered'
  BY <1>1, <1>2 DEF IInv, OneIsBuffered, transferVars
<1>6. WorkIsScheduled'
  BY <1>1, <1>2, WorkKept DEF IInv, arbVars
<1> QED
  BY <1>1, <1>4, <1>5, <1>6, CacheKept, QueueKept, TransferKept, ArbKept
     DEF IInv, cacheVars, transferVars

LEMMA NearerKeeps ==
    ASSUME NEW s, NEW m, s \in Seq(Delivery) \/ s \in Seq(Answer),
           \A k \in DOMAIN s : s[k].left > 0
    PROVE  /\ s \in Seq(Delivery) => Nearer(s) \in Seq(Delivery)
           /\ s \in Seq(Answer) => Nearer(s) \in Seq(Answer)
           /\ Len(Nearer(s)) = Len(s) /\ DOMAIN Nearer(s) = DOMAIN s
           /\ \A k \in DOMAIN s : s[k].left \in Nat /\ Nearer(s)[k].left = s[k].left - 1
<1>1. DOMAIN s = 1 .. Len(s) /\ Len(s) \in Nat
  BY LenProperties
<1>2. ASSUME NEW T, T = Delivery \/ T = Answer, s \in Seq(T)
      PROVE  /\ Nearer(s) \in Seq(T) /\ Len(Nearer(s)) = Len(s)
             /\ \A k \in DOMAIN s : s[k].left \in Nat /\ Nearer(s)[k].left = s[k].left - 1
  <2>1. \A k \in 1 .. Len(s) : s[k] \in T
    BY <1>1, <1>2, ElementOfSeq
  <2>2. ASSUME NEW k \in 1 .. Len(s)
        PROVE  /\ [s[k] EXCEPT !.left = @ - 1] \in T
               /\ s[k].left \in Nat /\ [s[k] EXCEPT !.left = @ - 1].left = s[k].left - 1
    <3>1. s[k].left > 0
      BY <1>1
    <3>2. CASE T = Delivery
      <4>1. s[k].left \in 0 .. transferDelay /\ s[k].req \in Request
        BY <2>1, <3>2 DEF Delivery
      <4>2. [s[k] EXCEPT !.left = @ - 1] = [req |-> s[k].req, left |-> s[k].left - 1]
        BY <2>1, <3>2 DEF Delivery
      <4>3. s[k].left - 1 \in 0 .. transferDelay
        BY <3>1, <4>1, Constants
      <4>4. [req |-> s[k].req, left |-> s[k].left - 1] \in Delivery
        BY <4>1, <4>3 DEF Delivery
      <4> QED
        BY <3>2, <4>1, <4>2, <4>4, Constants
    <3>3. CASE T = Answer
      BY <2>1, <3>1, <3>3, Constants DEF Answer
    <3> QED
      BY <1>2, <3>2, <3>3
  <2>3. Nearer(s) = [k \in 1 .. Len(s) |-> [s[k] EXCEPT !.left = @ - 1]]
    BY <1>1 DEF Nearer
  <2>4. Nearer(s) \in [1 .. Len(s) -> T]
    BY <2>2, <2>3
  <2>5. Nearer(s) \in Seq(T) /\ Len(Nearer(s)) = Len(s)
    BY <1>1, <2>4
  <2> QED
    BY <1>1, <2>2, <2>3, <2>5
<1>3. DOMAIN Nearer(s) = DOMAIN s
  BY DEF Nearer
<1> QED
  BY <1>2, <1>3

LEMMA TickKeeps ==
    ASSUME IInv, Tick
    PROVE  IInv'
<1>1. UNCHANGED <<cacheVars, queueVars, slaveVars>>
  BY DEF Tick
<1>2. /\ toSlave \in Seq(Delivery) /\ toMaster \in Seq(Answer)
      /\ \A k \in DOMAIN toSlave : toSlave[k].left > 0
      /\ \A k \in DOMAIN toMaster : toMaster[k].left > 0
  BY DEF Tick, NothingArrives, IInv, TransferInv
<1>3. /\ toSlave' = Nearer(toSlave) /\ toMaster' = Nearer(toMaster)
  BY DEF Tick
<1>4. /\ toSlave' \in Seq(Delivery)
      /\ Len(toSlave') = Len(toSlave) /\ DOMAIN toSlave' = DOMAIN toSlave
      /\ \A k \in DOMAIN toSlave : toSlave[k].left \in Nat /\ toSlave'[k].left = toSlave[k].left - 1
  BY <1>2, <1>3, NearerKeeps
<1>5. toMaster' \in Seq(Answer)
  BY <1>2, <1>3, NearerKeeps
<1>6. TransferInv'
  BY <1>4, <1>5 DEF TransferInv
<1>7. ArbInv'
  <2>1. /\ nextLegalArbTime' = IF nextLegalArbTime = 0 THEN 0 ELSE nextLegalArbTime - 1
        /\ arbEvent' = IF arbEvent = NotScheduled THEN arbEvent ELSE arbEvent - 1
        /\ arbEvent # 0
    BY DEF Tick
  <2>2. /\ nextLegalArbTime \in 0 .. transferDelay
        /\ arbEvent \in {NotScheduled} \union (0 .. transferDelay)
        /\ \A k \in DOMAIN toSlave : toSlave[k].left <= nextLegalArbTime
        /\ arbEvent # NotScheduled => nextLegalArbTime <= arbEvent
    BY DEF IInv, ArbInv, ArrivesInTime
  <2>3. /\ nextLegalArbTime' \in 0 .. transferDelay
        /\ arbEvent' \in {NotScheduled} \union (0 .. transferDelay)
        /\ arbEvent' # NotScheduled => nextLegalArbTime' <= arbEvent'
    BY <2>1, <2>2, Constants DEF NotScheduled
  <2>4. \A k \in DOMAIN toSlave' : toSlave'[k].left <= nextLegalArbTime'
    BY <1>2, <1>4, <2>1, <2>2
  <2> QED
    BY <2>3, <2>4 DEF ArbInv, ArrivesInTime
<1>8. OneIsBuffered'
  BY <1>1, <1>4 DEF IInv, OneIsBuffered, slaveVars
<1>9. WorkIsScheduled'
  <2>1. arbEvent # NotScheduled => arbEvent' # NotScheduled
    BY Constants DEF Tick, IInv, ArbInv, NotScheduled
  <2> QED
    BY <1>1, <2>1 DEF IInv, WorkIsScheduled, MoreToDo, queueVars, slaveVars
<1> QED
  BY <1>1, <1>6, <1>7, <1>8, <1>9, CacheKept, QueueKept, SlaveKept DEF IInv, cacheVars

-----------------------------------------------------------------------------
(* Theorems.                                                               *)

LEMMA NextKeeps == IInv /\ [Next]_vars => IInv'
<1> SUFFICES ASSUME IInv, [Next]_vars PROVE IInv'
  OBVIOUS
<1>1. ASSUME NEW i \in Interfaces, NEW cmd \in Commands, CacheRequests(i, cmd) PROVE IInv'
  BY <1>1, CacheRequestsKeeps
<1>2. ASSUME NEW i \in Interfaces, CacheSquashes(i) PROVE IInv'
  BY <1>2, CacheSquashesKeeps
<1>3. ASSUME NEW i \in Interfaces, Retrieve(i) PROVE IInv'
  BY <1>3, RetrieveLaterKeeps, RetrieveNothingKeeps, RetrieveRequestKeeps DEF Retrieve
<1>4. ASSUME NEW i \in Interfaces, SlaveResponds(i) PROVE IInv'
  BY <1>4, SlaveRespondsKeeps
<1>5. CASE Arbitrate
  BY <1>5, ArbitrateKeeps
<1>6. CASE Deliver
  BY <1>6, DeliverToBufferKeeps, DeliverToSlaveKeeps, DeliverToMasterKeeps DEF Deliver
<1>7. CASE Tick
  BY <1>7, TickKeeps
<1>8. CASE SlaveUnblocks
  BY <1>8, SlaveUnblocksKeeps
<1>9. CASE SlaveFills
  BY <1>9, SlaveFillsKeeps
<1>10. CASE UNCHANGED vars
  BY <1>10, CacheKept, QueueKept, SlaveKept, TransferKept, ArbKept, BufferKept, WorkKept
     DEF IInv, vars, cacheVars, arbVars, transferVars, slaveVars
<1> QED
  BY <1>1, <1>2, <1>3, <1>4, <1>5, <1>6, <1>7, <1>8, <1>9, <1>10 DEF Next

LEMMA Invariance == Spec => []IInv
<1> QED
  BY InitInv, NextKeeps, PTL DEF Spec

\* The variables have their types.
THEOREM TypeCorrect == Spec => []TypeOK
<1>1. IInv => TypeOK
  BY DEF IInv, CacheInv, QueueInv, SlaveInv, TransferInv, ArbInv, TypeOK
<1> QED
  BY <1>1, Invariance, PTL

\* A blocked second level cache gets one request at most, and it is delivered in
\* full when the cache unblocks: the assert on deliveryBuffer never fails.
THEOREM OneIsBufferedHolds == Spec => []OneIsBuffered
<1>1. IInv => OneIsBuffered
  BY DEF IInv
<1> QED
  BY <1>1, Invariance, PTL

\* The link never sleeps on work it could do.
THEOREM WorkIsScheduledHolds == Spec => []WorkIsScheduled
<1>1. IInv => WorkIsScheduled
  BY DEF IInv
<1> QED
  BY <1>1, Invariance, PTL

\* The request queue never exceeds queueSize, and the processor is blocked exactly
\* while it is full.
THEOREM QueuesFitHolds == Spec => []QueuesFit
<1>1. IInv => QueuesFit
  BY DEF IInv, QueueInv
<1> QED
  BY <1>1, Invariance, PTL

-----------------------------------------------------------------------------
(* The reads in a sequence, by Count.                                      *)

ReadsOf(i) == {r \in Request : r.from = i /\ r.cmd = Read}

LEMMA ReadsAreCounted ==
    ASSUME NEW s \in Seq(Request), NEW i
    PROVE  Reads(s, i) = Count(s, ReadsOf(i)) /\ Reads(s, i) \in Nat
<1>1. \A n \in DOMAIN s : s[n] \in Request
  BY LenProperties, ElementOfSeq
<1>2. {n \in DOMAIN s : s[n].from = i /\ s[n].cmd = Read} = Places(s, ReadsOf(i))
  BY <1>1 DEF Places, ReadsOf
<1>3. Reads(s, i) = Count(s, ReadsOf(i))
  BY <1>2, Zenon DEF Reads, Sent, Times, Count
<1> QED
  BY <1>3, CountIsNat

LEMMA ReadsOfConcat ==
    ASSUME NEW s \in Seq(Request), NEW t \in Seq(Request), NEW i
    PROVE  Reads(s \o t, i) = Reads(s, i) + Reads(t, i)
<1>1. s \o t \in Seq(Request)
  BY ConcatProperties
<1>2. Count(s \o t, ReadsOf(i)) = Count(s, ReadsOf(i)) + Count(t, ReadsOf(i))
  BY CountConcat
<1>3. \A q \in Seq(Request) : Reads(q, i) = Count(q, ReadsOf(i))
  BY ReadsAreCounted
<1> QED
  BY <1>1, <1>2, <1>3, Zenon

LEMMA ReadsOfOne ==
    ASSUME NEW req \in Request, NEW i \in Interfaces
    PROVE  Reads(<<req>>, i) = IF req.from = i /\ req.cmd = Read THEN 1 ELSE 0
<1> DEFINE s == <<req>>
           D == {n \in DOMAIN s : s[n].from = i /\ s[n].cmd = Read}
<1>1. DOMAIN s = {1} /\ s[1] = req
  OBVIOUS
<1>2. D = IF req.from = i /\ req.cmd = Read THEN {1} ELSE {}
  BY <1>1
<1>3. Cardinality({1}) = 1 /\ Cardinality({}) = 0
  BY FS_Singleton, FS_EmptySet
<1>4. Cardinality(D) = IF req.from = i /\ req.cmd = Read THEN 1 ELSE 0
  BY <1>2, <1>3
<1> QED
  BY <1>4 DEF Reads, Sent, Times

-----------------------------------------------------------------------------
(* The link is a channel.                                                  *)

LEMMA PathIsSeq ==
    ASSUME NEW buffer \in Seq(Request), NEW transfers \in Seq(Delivery),
           NEW queue \in Seq(Request)
    PROVE  /\ ReqsOf(transfers) \in Seq(Request) /\ Len(ReqsOf(transfers)) = Len(transfers)
           /\ buffer \o ReqsOf(transfers) \o queue \in Seq(Request)
<1>1. DOMAIN transfers = 1 .. Len(transfers) /\ Len(transfers) \in Nat
  BY LenProperties
<1>2. \A n \in 1 .. Len(transfers) : transfers[n].req \in Request
  <2>1. \A n \in 1 .. Len(transfers) : transfers[n] \in Delivery
    BY ElementOfSeq
  <2> QED
    BY <2>1 DEF Delivery
<1>3. ReqsOf(transfers) \in [1 .. Len(transfers) -> Request]
  BY <1>1, <1>2 DEF ReqsOf
<1>4. ReqsOf(transfers) \in Seq(Request) /\ Len(ReqsOf(transfers)) = Len(transfers)
  BY <1>1, <1>3
<1> QED
  BY <1>4, ConcatProperties

LEMMA PathType ==
    ASSUME IInv
    PROVE  /\ ReqsOf(toSlave) \in Seq(Request) /\ Len(ReqsOf(toSlave)) = Len(toSlave)
           /\ deliveryBuffer \in Seq(Request) /\ p2pRequestQueue \in Seq(Request)
           /\ Path \in Seq(Request)
BY PathIsSeq DEF IInv, TransferInv, SlaveInv, QueueInv, Path

LEMMA PathAfter ==
    ASSUME IInv, [Next]_vars
    PROVE  Path' \in Seq(Request)
<1>1. IInv'
  BY NextKeeps
<1>2. /\ deliveryBuffer' \in Seq(Request) /\ toSlave' \in Seq(Delivery)
      /\ p2pRequestQueue' \in Seq(Request)
  BY <1>1 DEF IInv, TransferInv, SlaveInv, QueueInv
<1> QED
  BY <1>2, PathIsSeq DEF Path, ReqsOf

LEMMA ReqsOfNone == ReqsOf(<<>>) = <<>>
BY DEF ReqsOf

LEMMA ReqsOfOne ==
    ASSUME NEW d \in Delivery
    PROVE  ReqsOf(<<d>>) = <<d.req>>
BY DEF ReqsOf

\* Returning in counts.
ToMaster(i) == {a \in Answer : a.to = i}

LEMMA AnswerCounts ==
    ASSUME NEW queue \in Seq(Interfaces), NEW transfers \in Seq(Answer)
    PROVE  /\ AnswersIn(queue, transfers) \in [Interfaces -> Nat]
           /\ \A i \in Interfaces :
                 /\ Count(queue, {i}) \in Nat /\ Count(transfers, ToMaster(i)) \in Nat
                 /\ AnswersIn(queue, transfers)[i]
                       = Count(queue, {i}) + Count(transfers, ToMaster(i))
<1>1. \A n \in DOMAIN transfers : transfers[n] \in Answer
  BY LenProperties, ElementOfSeq
<1>2. \A i \in Interfaces :
          Count(queue, {i}) \in Nat /\ Count(transfers, ToMaster(i)) \in Nat
  BY CountIsNat
<1>3. ASSUME NEW i \in Interfaces
      PROVE  /\ {n \in DOMAIN queue : queue[n] = i} = Places(queue, {i})
             /\ {n \in DOMAIN transfers : transfers[n].to = i} = Places(transfers, ToMaster(i))
  BY <1>1 DEF Places, ToMaster
<1> DEFINE a == [i \in Interfaces |-> Count(queue, {i}) + Count(transfers, ToMaster(i))]
<1>4. AnswersIn(queue, transfers) = a
  BY <1>3, Zenon DEF AnswersIn, Times, Count
<1>5. a \in [Interfaces -> Nat]
  <2> SUFFICES ASSUME NEW i \in Interfaces
               PROVE  Count(queue, {i}) + Count(transfers, ToMaster(i)) \in Nat
    OBVIOUS
  <2>1. Count(queue, {i}) \in Nat /\ Count(transfers, ToMaster(i)) \in Nat
    BY <1>2
  <2> QED
    BY <2>1
<1> QED
  BY <1>2, <1>4, <1>5, Zenon

LEMMA SameCardinality ==
    ASSUME NEW S
    PROVE  Channel!Cardinality(S) = Cardinality(S)
BY DEF Channel!Cardinality, Cardinality, Channel!IsFiniteSet, IsFiniteSet

\* The mapped variables at the only processor and bank there are.
LEMMA OnePath ==
    /\ Paths[0][0] = Path /\ Paths'[0][0] = Path' /\ Serving[0] = serving
    /\ Paths = [c \in {0} |-> [b \in {0} |-> Path]]
    /\ Paths' = [c \in {0} |-> [b \in {0} |-> Path']]
    /\ Serving = [b \in {0} |-> serving]
    /\ Serving' = [b \in {0} |-> serving']
BY DEF Paths, Serving

LEMMA StutterStep ==
    ASSUME UNCHANGED <<Path, serving, Returning>>
    PROVE  UNCHANGED Channel!vars
BY OnePath DEF Channel!vars

LEMMA SendStep ==
    ASSUME Path \in Seq(Request), NEW t \in Seq(Request), Path' = Path \o t,
           UNCHANGED <<serving, Returning>>
    PROVE  Channel!Next
<1>1. Channel!IsPrefix(Path, Path')
  BY PrefixOfConcat DEF Channel!IsPrefix, IsPrefix
<1>2. UNCHANGED Serving
  BY OnePath
<1>3. \A c \in {0}, b \in {0} : Channel!IsPrefix(Paths[c][b], Paths'[c][b])
  BY <1>1, OnePath
<1>4. Channel!Send
  BY <1>2, <1>3 DEF Channel!Send
<1> QED
  BY <1>4 DEF Channel!Next

LEMMA TakeStep ==
    ASSUME NEW s \in Seq(Request), NEW t \in Seq(Request), NEW n \in 0 .. Len(s),
           Path = s \o t, Path' = SubSeq(s, n + 1, Len(s)) \o t,
           serving' = [i \in Interfaces |-> serving[i] + Reads(SubSeq(s, 1, n), i)],
           UNCHANGED Returning
    PROVE  Channel!Take(0)
<1>1. /\ SubSeq(s \o t, 1, n) = SubSeq(s, 1, n)
      /\ SubSeq(s \o t, n + 1, Len(s \o t)) = SubSeq(s, n + 1, Len(s)) \o t
      /\ Len(SubSeq(s, n + 1, Len(s)) \o t) = Len(s \o t) - n
  <2>1. SubSeq(s \o t, 1, n) = SubSeq(s, 1, n)
    BY FrontOfConcat
  <2>2. SubSeq(s \o t, n + 1, Len(s \o t)) = SubSeq(s, n + 1, Len(s)) \o t
    BY FrontOfConcat, Zenon
  <2>3. Len(SubSeq(s, n + 1, Len(s)) \o t) = Len(s \o t) - n
    BY LengthOfRest, Zenon
  <2> QED
    BY <2>1, <2>2, <2>3
<1>2. Len(s \o t) \in Nat /\ n \in Nat
  BY LenProperties, ConcatProperties
<1>3. Len(Path) - Len(Path') = n /\ n >= 0
  BY <1>1, <1>2
<1>4. ASSUME NEW i PROVE Channel!Reads(SubSeq(Path, 1, n), i) = Reads(SubSeq(s, 1, n), i)
  BY <1>1, SameCardinality DEF Channel!Reads, Reads, Sent, Times
<1>5. Path' = SubSeq(Path, n + 1, Len(Path))
  BY <1>1
<1> DEFINE taken == [c \in {0} |-> Len(Paths[c][0]) - Len(Paths'[c][0])]
<1>6. taken[0] = n /\ \A c \in {0} : taken[c] = n
  BY <1>3, OnePath
<1> HIDE DEF taken
<1>7. Paths' = [c \in {0} |-> [Paths[c] EXCEPT ![0] = SubSeq(@, taken[c] + 1, Len(@))]]
  BY <1>5, <1>6, OnePath
<1>8. Serving' = [Serving EXCEPT ![0] = [i \in Interfaces |->
                    @[i] + Channel!Reads(SubSeq(Paths[0][0], 1, taken[0]), i)]]
  BY <1>4, <1>6, OnePath
<1> QED
  BY <1>3, <1>6, <1>7, <1>8 DEF Channel!Take, taken

LEMMA InitRefines == Init => Channel!Init
<1> SUFFICES ASSUME Init PROVE Channel!Init
  OBVIOUS
<1>1. Path = <<>>
  <2>1. deliveryBuffer = <<>> /\ toSlave = <<>> /\ p2pRequestQueue = <<>>
    BY DEF Init
  <2>2. <<>> \o <<>> \o <<>> = <<>>
    OBVIOUS
  <2> QED
    BY <2>1, <2>2, ReqsOfNone DEF Path
<1>2. Returning = [i \in Interfaces |-> 0]
  <2>1. Returning = AnswersIn(<<>>, <<>>)
    BY DEF Init, Returning
  <2>2. <<>> \in Seq(Interfaces) /\ <<>> \in Seq(Answer)
    OBVIOUS
  <2>3. \A V : Count(<<>>, V) = 0
    <3>1. \A V : Places(<<>>, V) = {}
      BY DEF Places
    <3> QED
      BY <3>1, FS_EmptySet DEF Count
  <2>4. /\ AnswersIn(<<>>, <<>>) \in [Interfaces -> Nat]
        /\ \A i \in Interfaces : AnswersIn(<<>>, <<>>)[i] = 0
    <3>1. AnswersIn(<<>>, <<>>) \in [Interfaces -> Nat]
      BY <2>2, AnswerCounts
    <3>2. ASSUME NEW i \in Interfaces PROVE AnswersIn(<<>>, <<>>)[i] = 0
      <4>1. AnswersIn(<<>>, <<>>)[i] = Count(<<>>, {i}) + Count(<<>>, ToMaster(i))
        BY <2>2, AnswerCounts, Zenon
      <4>2. Count(<<>>, {i}) = 0 /\ Count(<<>>, ToMaster(i)) = 0
        BY <2>3, Zenon
      <4> QED
        BY <4>1, <4>2
    <3> QED
      BY <3>1, <3>2
  <2> QED
    BY <2>1, <2>4
<1>3. Serving = [b \in {0} |-> [i \in Interfaces |-> 0]]
  BY DEF Init, Serving
<1> QED
  BY <1>1, <1>2, <1>3, OnePath DEF Channel!Init

\* The caches, and the answers.
LEMMA KeptPath ==
    ASSUME UNCHANGED <<deliveryBuffer, toSlave, p2pRequestQueue>>
    PROVE  Path' = Path
BY DEF Path

LEMMA KeptReturning ==
    ASSUME UNCHANGED <<p2pResponseQueue, toMaster>>
    PROVE  Returning' = Returning
BY DEF Returning

LEMMA CacheStutters ==
    ASSUME UNCHANGED <<queueVars, transferVars, slaveVars>>
    PROVE  UNCHANGED Channel!vars
BY KeptPath, KeptReturning, StutterStep DEF queueVars, transferVars, slaveVars

LEMMA RetrieveRequestSends ==
    ASSUME IInv, NEW i \in Interfaces, RetrieveRequest(i)
    PROVE  \E sent \in Seq(Request) :
              /\ Path' = Path \o sent /\ UNCHANGED <<serving, Returning>>
              /\ \A j \in Interfaces : wants'[j][Read] = wants[j][Read] - Reads(sent, j)
<1> PICK cmd \in Commands :
        /\ wants' = [wants EXCEPT ![i][cmd] = @ - 1]
        /\ p2pRequestQueue' = Append(p2pRequestQueue, [from |-> i, cmd |-> cmd])
  BY DEF RetrieveRequest, Queued
<1> DEFINE r == [from |-> i, cmd |-> cmd]
<1>1. r \in Request /\ <<r>> \in Seq(Request)
  BY DEF Request
<1> DEFINE before == deliveryBuffer \o ReqsOf(toSlave)
<1>2. before \in Seq(Request) /\ p2pRequestQueue \in Seq(Request) /\ Path \in Seq(Request)
      /\ Path = before \o p2pRequestQueue
  BY PathType, ConcatProperties DEF Path
<1>3. Path' = before \o p2pRequestQueue'
  BY DEF RetrieveRequest, transferVars, slaveVars, Path
<1> HIDE DEF before, r
<1>4. p2pRequestQueue' = p2pRequestQueue \o <<r>>
  BY <1>1, <1>2, AppendIsConcat DEF r
<1>5. Path' = Path \o <<r>>
  <2>1. \A q, t, u \in Seq(Request) : (q \o t) \o u = q \o (t \o u)
    BY ConcatAssociative
  <2>2. (before \o p2pRequestQueue) \o <<r>> = before \o (p2pRequestQueue \o <<r>>)
    BY <1>1, <1>2, <2>1, Zenon, SMTT(30)
  <2>3. Path \o <<r>> = (before \o p2pRequestQueue) \o <<r>>
    BY <1>2, Zenon
  <2>4. Path' = before \o (p2pRequestQueue \o <<r>>)
    BY <1>3, <1>4, Zenon
  <2> QED
    BY <2>2, <2>3, <2>4, Zenon
<1>6. Returning' = Returning /\ serving' = serving
  BY KeptReturning DEF RetrieveRequest, transferVars, slaveVars
<1>7. ASSUME NEW j \in Interfaces
      PROVE  wants'[j][Read] = wants[j][Read] - Reads(<<r>>, j)
  <2>1. Reads(<<r>>, j) = IF j = i /\ cmd = Read THEN 1 ELSE 0
    <3>1. Reads(<<r>>, j) = IF r.from = j /\ r.cmd = Read THEN 1 ELSE 0
      BY <1>1, ReadsOfOne
    <3>2. r.from = i /\ r.cmd = cmd
      BY DEF r
    <3> QED
      BY <3>1, <3>2
  <2>2. wants \in [Interfaces -> [Commands -> Nat]] /\ Read \in Commands
    BY DEF IInv, CacheInv, Commands
  <2>3. wants'[j][Read] = wants[j][Read] - IF j = i /\ cmd = Read THEN 1 ELSE 0
    BY <2>2
  <2> QED
    BY <2>1, <2>3
<1> QED
  BY <1>1, <1>5, <1>6, <1>7

LEMMA SlaveRespondsAnswers ==
    ASSUME IInv, NEW i \in Interfaces, SlaveResponds(i)
    PROVE  Channel!Answer(0, i)
<1>1. /\ p2pResponseQueue \in Seq(Interfaces) /\ toMaster \in Seq(Answer)
      /\ serving \in [Interfaces -> Nat]
      /\ p2pResponseQueue' = Append(p2pResponseQueue, i) /\ toMaster' = toMaster
      /\ p2pResponseQueue' \in Seq(Interfaces)
  BY AppendProperties DEF IInv, QueueInv, TransferInv, SlaveInv, SlaveResponds, transferVars
<1>2. \A j \in Interfaces :
          Count(p2pResponseQueue', {j}) = Count(p2pResponseQueue, {j}) + IF i \in {j} THEN 1 ELSE 0
  BY <1>1, CountAppend
<1>3. /\ Returning \in [Interfaces -> Nat] /\ Returning' \in [Interfaces -> Nat]
      /\ \A j \in Interfaces :
            /\ Count(p2pResponseQueue, {j}) \in Nat /\ Count(toMaster, ToMaster(j)) \in Nat
            /\ Returning[j] = Count(p2pResponseQueue, {j}) + Count(toMaster, ToMaster(j))
            /\ Returning'[j] = Count(p2pResponseQueue', {j}) + Count(toMaster, ToMaster(j))
  BY <1>1, AnswerCounts DEF Returning
<1>4. Returning' = [Returning EXCEPT ![i] = @ + 1]
  <2>1. \A j \in Interfaces : Returning'[j] = Returning[j] + IF j = i THEN 1 ELSE 0
    <3> TAKE j \in Interfaces
    <3>1. /\ Count(p2pResponseQueue, {j}) \in Nat /\ Count(toMaster, ToMaster(j)) \in Nat
          /\ Returning[j] = Count(p2pResponseQueue, {j}) + Count(toMaster, ToMaster(j))
          /\ Returning'[j] = Count(p2pResponseQueue', {j}) + Count(toMaster, ToMaster(j))
          /\ Count(p2pResponseQueue', {j})
             = Count(p2pResponseQueue, {j}) + IF i \in {j} THEN 1 ELSE 0
      BY <1>2, <1>3, Zenon
    <3> QED
      BY <3>1
  <2> QED
    BY <1>3, <2>1
<1>5. /\ serving[i] > 0 /\ serving' = [serving EXCEPT ![i] = @ - 1]
      /\ Path' = Path
  BY KeptPath DEF SlaveResponds, transferVars
<1>6. Serving' = [Serving EXCEPT ![0][i] = @ - 1] /\ Paths' = Paths
  BY <1>1, <1>5, OnePath
<1> QED
  BY <1>4, <1>5, <1>6, OnePath DEF Channel!Answer

LEMMA DeliverToMasterReceives ==
    ASSUME IInv, DeliverToMaster
    PROVE  \E i \in Interfaces : Channel!Receive(i)
<1> DEFINE i == Head(toMaster).to
<1>1. /\ p2pResponseQueue \in Seq(Interfaces) /\ toMaster \in Seq(Answer) /\ toMaster # <<>>
      /\ toMaster' = Tail(toMaster) /\ p2pResponseQueue' = p2pResponseQueue
      /\ Head(toMaster) \in Answer /\ toMaster' \in Seq(Answer)
  BY HeadTailProperties DEF IInv, QueueInv, TransferInv, DeliverToMaster, queueVars
<1>2. i \in Interfaces
  BY <1>1 DEF Answer
<1>3. \A j \in Interfaces :
          Count(toMaster, ToMaster(j))
             = Count(toMaster', ToMaster(j)) + IF Head(toMaster) \in ToMaster(j) THEN 1 ELSE 0
  BY <1>1, CountTail
<1>4. \A j \in Interfaces : Head(toMaster) \in ToMaster(j) <=> j = i
  BY <1>1 DEF ToMaster
<1>5. /\ Returning \in [Interfaces -> Nat] /\ Returning' \in [Interfaces -> Nat]
      /\ \A j \in Interfaces :
            /\ Count(p2pResponseQueue, {j}) \in Nat /\ Count(toMaster', ToMaster(j)) \in Nat
            /\ Returning[j] = Count(p2pResponseQueue, {j}) + Count(toMaster, ToMaster(j))
            /\ Returning'[j] = Count(p2pResponseQueue, {j}) + Count(toMaster', ToMaster(j))
  BY <1>1, AnswerCounts DEF Returning
<1> HIDE DEF i
<1>6. Returning[i] > 0 /\ Returning' = [Returning EXCEPT ![i] = @ - 1]
  <2>1. \A j \in Interfaces : Returning'[j] + (IF j = i THEN 1 ELSE 0) = Returning[j]
    <3> TAKE j \in Interfaces
    <3>1. /\ Count(p2pResponseQueue, {j}) \in Nat /\ Count(toMaster', ToMaster(j)) \in Nat
          /\ Returning[j] = Count(p2pResponseQueue, {j}) + Count(toMaster, ToMaster(j))
          /\ Returning'[j] = Count(p2pResponseQueue, {j}) + Count(toMaster', ToMaster(j))
          /\ Count(toMaster, ToMaster(j))
             = Count(toMaster', ToMaster(j)) + IF Head(toMaster) \in ToMaster(j) THEN 1 ELSE 0
      BY <1>3, <1>5, Zenon
    <3> QED
      BY <1>4, <3>1
  <2> QED
    BY <1>2, <1>5, <2>1
<1>7. UNCHANGED <<Paths, Serving>>
  BY KeptPath, OnePath DEF DeliverToMaster, queueVars, slaveVars
<1>8. Channel!Receive(i)
  BY <1>6, <1>7 DEF Channel!Receive
<1> QED
  BY <1>2, <1>8

\* An arbitration moves requests and answers along, and appends what it retrieves.
LEMMA ArbitrateKeepsAnswers ==
    ASSUME IInv, Arbitrate
    PROVE  Returning' = Returning
<1>1. /\ p2pResponseQueue \in Seq(Interfaces) /\ toMaster \in Seq(Answer)
      /\ toMaster' = IF p2pResponseQueue # <<>>
                     THEN Append(toMaster, [to |-> Head(p2pResponseQueue), left |-> transferDelay])
                     ELSE toMaster
      /\ p2pResponseQueue' = IF p2pResponseQueue # <<>> THEN Tail(p2pResponseQueue)
                             ELSE p2pResponseQueue
  BY DEF IInv, QueueInv, TransferInv, Arbitrate
<1>2. CASE p2pResponseQueue = <<>>
  BY <1>1, <1>2 DEF Returning
<1>3. CASE p2pResponseQueue # <<>>
  <2> DEFINE i == Head(p2pResponseQueue)
             a == [to |-> i, left |-> transferDelay]
  <2>1. /\ i \in Interfaces /\ a \in Answer /\ a.to = i
        /\ p2pResponseQueue' = Tail(p2pResponseQueue) /\ p2pResponseQueue' \in Seq(Interfaces)
        /\ toMaster' = Append(toMaster, a)
    BY <1>1, <1>3, HeadTailProperties, Constants DEF Answer
  <2> HIDE DEF a
  <2>2. toMaster' \in Seq(Answer)
    BY <1>1, <2>1, AppendProperties
  <2>3. \A j \in Interfaces :
            /\ Count(p2pResponseQueue, {j})
               = Count(p2pResponseQueue', {j}) + IF i \in {j} THEN 1 ELSE 0
            /\ Count(toMaster', ToMaster(j))
               = Count(toMaster, ToMaster(j)) + IF a \in ToMaster(j) THEN 1 ELSE 0
    BY <1>1, <1>3, <2>1, CountTail, CountAppend
  <2> HIDE DEF i
  <2>4. /\ Returning \in [Interfaces -> Nat] /\ Returning' \in [Interfaces -> Nat]
        /\ \A j \in Interfaces :
              /\ Count(p2pResponseQueue', {j}) \in Nat /\ Count(toMaster, ToMaster(j)) \in Nat
              /\ Returning[j] = Count(p2pResponseQueue, {j}) + Count(toMaster, ToMaster(j))
              /\ Returning'[j] = Count(p2pResponseQueue', {j}) + Count(toMaster', ToMaster(j))
    <3>1. /\ AnswersIn(p2pResponseQueue, toMaster) \in [Interfaces -> Nat]
          /\ \A j \in Interfaces :
                /\ Count(toMaster, ToMaster(j)) \in Nat
                /\ AnswersIn(p2pResponseQueue, toMaster)[j]
                   = Count(p2pResponseQueue, {j}) + Count(toMaster, ToMaster(j))
      BY <1>1, AnswerCounts, Zenon
    <3>2. /\ AnswersIn(p2pResponseQueue', toMaster') \in [Interfaces -> Nat]
          /\ \A j \in Interfaces :
                /\ Count(p2pResponseQueue', {j}) \in Nat
                /\ AnswersIn(p2pResponseQueue', toMaster')[j]
                   = Count(p2pResponseQueue', {j}) + Count(toMaster', ToMaster(j))
      BY <2>1, <2>2, AnswerCounts, Zenon
    <3> QED
      BY <3>1, <3>2, Zenon DEF Returning
  <2>5. ASSUME NEW j \in Interfaces PROVE Returning'[j] = Returning[j]
    <3>1. /\ Count(p2pResponseQueue', {j}) \in Nat /\ Count(toMaster, ToMaster(j)) \in Nat
          /\ Returning[j] = Count(p2pResponseQueue, {j}) + Count(toMaster, ToMaster(j))
          /\ Returning'[j] = Count(p2pResponseQueue', {j}) + Count(toMaster', ToMaster(j))
          /\ Count(p2pResponseQueue, {j})
             = Count(p2pResponseQueue', {j}) + IF i \in {j} THEN 1 ELSE 0
          /\ Count(toMaster', ToMaster(j))
             = Count(toMaster, ToMaster(j)) + IF a \in ToMaster(j) THEN 1 ELSE 0
      BY <2>3, <2>4, Zenon
    <3>2. a \in ToMaster(j) <=> i \in {j}
      BY <2>1 DEF ToMaster
    <3> QED
      BY <3>1, <3>2
  <2> QED
    BY <2>4, <2>5
<1> QED
  BY <1>2, <1>3

LEMMA ArbitrateSends ==
    ASSUME IInv, Arbitrate
    PROVE  \E sent \in Seq(Request) :
              /\ Path' = Path \o sent /\ UNCHANGED <<serving, Returning>>
              /\ \A j \in Interfaces : wants'[j][Read] = wants[j][Read] - Reads(sent, j)
<1> DEFINE left == IF Granted THEN Tail(p2pRequestQueue) ELSE p2pRequestQueue
           room == queueSize - Len(left)
<1>1. PICK sent \in SeqOf(Request, room) :
        /\ p2pRequestQueue' = left \o sent
        /\ wants' = [i \in Interfaces |-> [c \in Commands |-> wants[i][c] - Sent(sent, i, c)]]
  BY DEF Arbitrate
<1>2. /\ p2pRequestQueue \in Seq(Request) /\ deliveryBuffer \in Seq(Request)
      /\ Path \in Seq(Request) /\ toSlave = <<>>
  BY PathType, ArbitrateFindsNone
<1>3. left \in Seq(Request)
  <2>1. CASE Granted
    BY <1>2, <2>1, HeadTailProperties DEF Granted
  <2>2. CASE ~Granted
    BY <1>2, <2>2
  <2> QED
    BY <2>1, <2>2
<1>4. sent \in Seq(Request)
  <2>1. room \in Int
    BY <1>3, LenProperties, Constants
  <2>2. PICK k \in 0 .. room : sent \in [1 .. k -> Request]
    BY <1>1 DEF SeqOf
  <2>3. k \in Nat
    BY <2>1, <2>2
  <2> QED
    BY <2>2, <2>3
<1>5. deliveryBuffer' = deliveryBuffer /\ serving' = serving
  BY DEF Arbitrate, slaveVars
<1> HIDE DEF room
<1>6. Path = deliveryBuffer \o p2pRequestQueue
  BY <1>2, ReqsOfNone, ConcatEmptySeq DEF Path
<1>7. Path' = Path \o sent
  <2>1. CASE Granted
    <3> DEFINE d == [req |-> Head(p2pRequestQueue), left |-> transferDelay]
    <3>1. p2pRequestQueue # <<>> /\ deliveryBuffer = <<>> /\ left = Tail(p2pRequestQueue)
      BY <2>1 DEF Granted, IInv, OneIsBuffered
    <3>2. /\ Head(p2pRequestQueue) \in Request
          /\ p2pRequestQueue = <<Head(p2pRequestQueue)>> \o Tail(p2pRequestQueue)
      BY <1>2, <3>1, HeadTailProperties
    <3>3. d \in Delivery /\ d.req = Head(p2pRequestQueue)
      BY <3>2, Constants DEF Delivery
    <3>4. toSlave' = <<d>>
      BY <1>2, <2>1 DEF Arbitrate
    <3> HIDE DEF d, left
    <3>5. ReqsOf(toSlave)' = <<Head(p2pRequestQueue)>>
      BY <3>3, <3>4, ReqsOfOne DEF ReqsOf
    <3>6. Path' = <<>> \o <<Head(p2pRequestQueue)>> \o (left \o sent)
      BY <1>1, <1>5, <3>1, <3>5 DEF Path
    <3>7. <<Head(p2pRequestQueue)>> \in Seq(Request)
      BY <3>2
    <3>8. Path' = (<<Head(p2pRequestQueue)>> \o left) \o sent
      BY <1>3, <1>4, <3>6, <3>7, ConcatEmptySeq, ConcatAssociative
    <3>9. Path = p2pRequestQueue
      BY <1>2, <1>6, <3>1, ConcatEmptySeq
    <3> QED
      BY <3>1, <3>2, <3>8, <3>9
  <2>2. CASE ~Granted
    <3>1. toSlave' = <<>> /\ left = p2pRequestQueue
      BY <1>2, <2>2 DEF Arbitrate
    <3> HIDE DEF left
    <3>2. ReqsOf(toSlave)' = <<>>
      BY <3>1, ReqsOfNone DEF ReqsOf
    <3>3. Path' = deliveryBuffer \o <<>> \o (p2pRequestQueue \o sent)
      BY <1>1, <1>5, <3>1, <3>2 DEF Path
    <3>4. Path' = (deliveryBuffer \o p2pRequestQueue) \o sent
      BY <1>2, <1>4, <3>3, ConcatEmptySeq, ConcatAssociative, SMTT(30)
    <3> QED
      BY <1>6, <3>4
  <2> QED
    BY <2>1, <2>2
<1>8. \A j \in Interfaces : wants'[j][Read] = wants[j][Read] - Reads(sent, j)
  BY <1>1 DEF Commands, Reads
<1> QED
  BY <1>4, <1>5, <1>7, <1>8, ArbitrateKeepsAnswers

LEMMA ArrivingPath ==
    ASSUME IInv, ArrivesAtSlave
    PROVE  /\ Head(toSlave).req \in Request
           /\ Path = <<Head(toSlave).req>> \o p2pRequestQueue
           /\ deliveryBuffer = <<>> /\ Tail(toSlave) = <<>>
<1>1. /\ Head(toSlave).req \in Request /\ Len(toSlave) = 1
      /\ deliveryBuffer = <<>> /\ Tail(toSlave) = <<>>
  BY ArrivingRequest
<1>2. toSlave = <<Head(toSlave)>> /\ Head(toSlave) \in Delivery
  <2>1. toSlave \in Seq(Delivery) /\ toSlave # <<>>
    BY DEF IInv, TransferInv, ArrivesAtSlave
  <2> QED
    BY <1>1, <2>1, HeadTailProperties
<1>3. ReqsOf(toSlave) = <<Head(toSlave).req>>
  BY <1>2, ReqsOfOne
<1>4. Path = <<>> \o <<Head(toSlave).req>> \o p2pRequestQueue
  BY <1>1, <1>3 DEF Path
<1>5. <<Head(toSlave).req>> \in Seq(Request) /\ p2pRequestQueue \in Seq(Request)
  BY <1>1, PathType
<1> QED
  BY <1>1, <1>4, <1>5, ConcatEmptySeq

LEMMA DeliverToBufferStutters ==
    ASSUME IInv, DeliverToBuffer
    PROVE  UNCHANGED Channel!vars
<1>1. /\ Head(toSlave).req \in Request
      /\ Path = <<Head(toSlave).req>> \o p2pRequestQueue
      /\ deliveryBuffer = <<>> /\ Tail(toSlave) = <<>>
  BY ArrivingPath DEF DeliverToBuffer
<1>2. /\ deliveryBuffer' = <<Head(toSlave).req>> /\ toSlave' = <<>>
      /\ p2pRequestQueue' = p2pRequestQueue
  BY <1>1 DEF DeliverToBuffer, queueVars
<1>3. Path' = <<Head(toSlave).req>> \o <<>> \o p2pRequestQueue
  BY <1>2, ReqsOfNone DEF Path, ReqsOf
<1>4. <<Head(toSlave).req>> \in Seq(Request)
  BY <1>1
<1>5. Path' = Path
  BY <1>1, <1>3, <1>4, ConcatEmptySeq
<1> QED
  BY <1>5, KeptReturning, StutterStep DEF DeliverToBuffer, queueVars

LEMMA DeliverToSlaveTakes ==
    ASSUME IInv, DeliverToSlave
    PROVE  Channel!Take(0)
<1> DEFINE s == <<Head(toSlave).req>>
<1>1. /\ s \in Seq(Request) /\ Path = s \o p2pRequestQueue /\ p2pRequestQueue \in Seq(Request)
      /\ deliveryBuffer = <<>> /\ Tail(toSlave) = <<>>
  BY ArrivingPath, PathType DEF DeliverToSlave, Delivered
<1>2. /\ deliveryBuffer' = <<>> /\ toSlave' = <<>> /\ p2pRequestQueue' = p2pRequestQueue
      /\ serving' = [i \in Interfaces |-> serving[i] + Reads(s, i)]
  BY <1>1 DEF DeliverToSlave, Delivered, Accessed, queueVars
<1>3. 1 \in 0 .. Len(s) /\ SubSeq(s, 1, 1) = s /\ SubSeq(s, 1 + 1, Len(s)) = <<>>
  <2>1. Len(s) = 1
    BY LenProperties
  <2> HIDE DEF s
  <2>2. SubSeq(s, 1, 1) = s
    BY <1>1, <2>1, SubSeqFull
  <2>3. SubSeq(s, 1 + 1, Len(s)) = <<>>
    BY <1>1, <2>1, SubSeqEmpty
  <2> QED
    BY <2>1, <2>2, <2>3
<1>4. Path' = <<>> \o <<>> \o p2pRequestQueue /\ <<>> \o <<>> = <<>>
  BY <1>2, ReqsOfNone DEF Path, ReqsOf
<1> HIDE DEF s
<1>5. Path' = SubSeq(s, 1 + 1, Len(s)) \o p2pRequestQueue
  BY <1>3, <1>4
<1>6. UNCHANGED Returning
  BY KeptReturning DEF DeliverToSlave, Delivered, queueVars
<1> QED
  BY <1>1, <1>2, <1>3, <1>5, <1>6, TakeStep

LEMMA SlaveUnblocksTakes ==
    ASSUME IInv, SlaveUnblocks
    PROVE  Channel!Take(0)
<1> PICK n \in 0 .. Len(deliveryBuffer), again \in BOOLEAN, misses \in {fills - 1, fills} :
        /\ Unbuffered(n, again)
        /\ Accessed(SubSeq(deliveryBuffer, 1, n), misses)
  BY DEF SlaveUnblocks
<1> DEFINE t == ReqsOf(toSlave) \o p2pRequestQueue
<1>1. /\ deliveryBuffer \in Seq(Request) /\ ReqsOf(toSlave) \in Seq(Request)
      /\ p2pRequestQueue \in Seq(Request) /\ t \in Seq(Request)
  BY PathType, ConcatProperties
<1>2. Path = deliveryBuffer \o t
  BY <1>1, ConcatAssociative DEF Path
<1>3. /\ deliveryBuffer' = SubSeq(deliveryBuffer, n + 1, Len(deliveryBuffer))
      /\ UNCHANGED <<toSlave, p2pRequestQueue>>
  BY DEF Unbuffered, queueVars, transferVars
<1>4. deliveryBuffer' \in Seq(Request)
  <2>1. \A k \in n + 1 .. Len(deliveryBuffer) : deliveryBuffer[k] \in Request
    BY <1>1, ElementOfSeq, LenProperties
  <2>2. n + 1 \in Int /\ Len(deliveryBuffer) \in Int
    BY <1>1, LenProperties
  <2> QED
    BY <1>3, <2>1, <2>2, SubSeqProperties
<1>5. Path' = deliveryBuffer' \o ReqsOf(toSlave) \o p2pRequestQueue
  BY <1>3 DEF Path, ReqsOf
<1>6. Path' = SubSeq(deliveryBuffer, n + 1, Len(deliveryBuffer)) \o t
  <2>1. \A q, r, u \in Seq(Request) : (q \o r) \o u = q \o (r \o u)
    BY ConcatAssociative
  <2>2. \A q \in Seq(Request) : q \o ReqsOf(toSlave) \o p2pRequestQueue = q \o t
    BY <1>1, <2>1, ZenonT(60)
  <2>3. Path' = deliveryBuffer' \o t
    BY <1>4, <1>5, <2>2, Zenon
  <2> QED
    BY <1>3, <2>3, Zenon
<1>7. /\ serving' = [i \in Interfaces |-> serving[i] + Reads(SubSeq(deliveryBuffer, 1, n), i)]
      /\ UNCHANGED Returning
  BY KeptReturning DEF Accessed, Unbuffered, queueVars, transferVars
<1> HIDE DEF t
<1> QED
  BY <1>1, <1>2, <1>6, <1>7, TakeStep

LEMMA TickStutters ==
    ASSUME IInv, Tick
    PROVE  UNCHANGED Channel!vars
<1>1. /\ toSlave \in Seq(Delivery) /\ toMaster \in Seq(Answer)
      /\ toSlave' = Nearer(toSlave) /\ toMaster' = Nearer(toMaster)
      /\ UNCHANGED <<deliveryBuffer, p2pRequestQueue, p2pResponseQueue, serving>>
  BY DEF IInv, TransferInv, Tick, slaveVars, queueVars
<1>2. /\ DOMAIN Nearer(toSlave) = DOMAIN toSlave
      /\ \A n \in DOMAIN toSlave : Nearer(toSlave)[n].req = toSlave[n].req
  <2>1. \A n \in DOMAIN toSlave : toSlave[n] \in Delivery
    BY <1>1, LenProperties, ElementOfSeq
  <2> QED
    BY <2>1 DEF Nearer, Delivery
<1>3. /\ DOMAIN Nearer(toMaster) = DOMAIN toMaster
      /\ \A n \in DOMAIN toMaster : Nearer(toMaster)[n].to = toMaster[n].to
  <2>1. \A n \in DOMAIN toMaster : toMaster[n] \in Answer
    BY <1>1, LenProperties, ElementOfSeq
  <2> QED
    BY <2>1 DEF Nearer, Answer
<1>4. Path' = Path
  <2>1. ReqsOf(Nearer(toSlave)) = ReqsOf(toSlave)
    BY <1>2 DEF ReqsOf
  <2>2. ReqsOf(toSlave)' = ReqsOf(Nearer(toSlave))
    BY <1>1 DEF ReqsOf
  <2> QED
    BY <1>1, <2>1, <2>2 DEF Path
<1>5. Returning' = Returning
  <2>1. \A i \in Interfaces :
            {n \in DOMAIN Nearer(toMaster) : Nearer(toMaster)[n].to = i}
            = {n \in DOMAIN toMaster : toMaster[n].to = i}
    BY <1>3
  <2>2. AnswersIn(p2pResponseQueue, Nearer(toMaster)) = AnswersIn(p2pResponseQueue, toMaster)
    BY <2>1, Zenon DEF AnswersIn, Times
  <2> QED
    BY <1>1, <2>2 DEF Returning
<1> QED
  BY <1>1, <1>4, <1>5, StutterStep

LEMMA StepRefines == IInv /\ [Next]_vars => [Channel!Next]_(Channel!vars)
<1> SUFFICES ASSUME IInv, [Next]_vars PROVE [Channel!Next]_(Channel!vars)
  OBVIOUS
<1>1. ASSUME NEW i \in Interfaces, Retrieve(i) PROVE [Channel!Next]_(Channel!vars)
  BY <1>1, PathType, RetrieveRequestSends, SendStep, CacheStutters
     DEF Retrieve, RetrieveLater, RetrieveNothing
<1>2. CASE \E i \in Interfaces : CacheSquashes(i) \/ \E cmd \in Commands : CacheRequests(i, cmd)
  BY <1>2, CacheStutters DEF CacheRequests, CacheSquashes
<1>3. CASE Deliver
  BY <1>3, DeliverToBufferStutters, DeliverToSlaveTakes, DeliverToMasterReceives
     DEF Deliver, Channel!Next
<1>4. CASE SlaveFills
  BY <1>4, KeptPath, KeptReturning, StutterStep DEF SlaveFills, queueVars, transferVars
<1>5. CASE UNCHANGED vars
  BY <1>5, CacheStutters DEF vars
<1>6. CASE Arbitrate
  BY <1>6, PathType, ArbitrateSends, SendStep
<1>7. CASE SlaveUnblocks
  BY <1>7, SlaveUnblocksTakes DEF Channel!Next
<1>8. ASSUME NEW i \in Interfaces, SlaveResponds(i) PROVE Channel!Next
  BY <1>8, SlaveRespondsAnswers DEF Channel!Next
<1> QED
  BY <1>1, <1>2, <1>3, <1>4, <1>5, <1>6, <1>7, <1>8, TickStutters DEF Next

\* The link implements the channel: the second level cache gets what the first
\* level caches send in the order it was sent, each request once, whatever is
\* queued, buffered or blocked meanwhile; and each read is answered once.
THEOREM LinkIsAChannel == Spec => ChannelSpec
BY InitRefines, StepRefines, Invariance, PTL DEF Spec, ChannelSpec, Channel!Spec

-----------------------------------------------------------------------------
(* The reads of a cache, from its MSHRs to the delivery of the answer, are *)
(* never more than it has MSHRs; so the response queue, where each of them *)
(* is once at most, holds them all.  Here the channel helps: what is in it *)
(* is counted as a whole.                                                  *)

Load(i) == wants[i][Read] + Reads(Path, i) + serving[i] + Returning[i]
LoadFits == \A i \in Interfaces : Load(i) <= Outstanding[i][Read]

LEMMA LoadType ==
    ASSUME IInv
    PROVE  /\ Path \in Seq(Request) /\ Returning \in [Interfaces -> Nat]
           /\ serving \in [Interfaces -> Nat]
           /\ \A i \in Interfaces :
                 /\ wants[i][Read] \in Nat /\ Reads(Path, i) \in Nat
                 /\ serving[i] \in Nat /\ Returning[i] \in Nat
<1>1. /\ wants \in [Interfaces -> [Commands -> Nat]] /\ serving \in [Interfaces -> Nat]
      /\ p2pResponseQueue \in Seq(Interfaces) /\ toMaster \in Seq(Answer)
  BY DEF IInv, CacheInv, SlaveInv, QueueInv, TransferInv
<1>2. Returning \in [Interfaces -> Nat]
  BY <1>1, AnswerCounts DEF Returning
<1>3. Path \in Seq(Request)
  BY PathType
<1> QED
  BY <1>1, <1>2, <1>3, ReadsAreCounted DEF Commands

LEMMA OutstandingIsNat == \A i \in Interfaces : Outstanding[i][Read] \in Nat
BY LinkAssumption DEF Commands

\* A cache sends a read when it has an MSHR for it.
LEMMA LoadIsUnderWay ==
    ASSUME IInv, NEW i \in Interfaces
    PROVE  Load(i) = UnderWay(i, Read)
<1>1. /\ toSlave \in Seq(Delivery) /\ ReqsOf(toSlave) \in Seq(Request)
      /\ deliveryBuffer \in Seq(Request) /\ p2pRequestQueue \in Seq(Request)
      /\ deliveryBuffer \o ReqsOf(toSlave) \in Seq(Request)
  BY PathType, ConcatProperties DEF IInv, TransferInv
<1>2. Reads(Path, i)
         = Reads(deliveryBuffer, i) + Reads(ReqsOf(toSlave), i) + Reads(p2pRequestQueue, i)
  <2>1. Reads(Path, i)
           = Reads(deliveryBuffer \o ReqsOf(toSlave), i) + Reads(p2pRequestQueue, i)
    BY <1>1, ReadsOfConcat, Zenon DEF Path
  <2>2. Reads(deliveryBuffer \o ReqsOf(toSlave), i)
           = Reads(deliveryBuffer, i) + Reads(ReqsOf(toSlave), i)
    BY <1>1, ReadsOfConcat, Zenon
  <2> QED
    BY <2>1, <2>2
<1>3. Reads(ReqsOf(toSlave), i)
         = Times(toSlave, LAMBDA d : d.req = [from |-> i, cmd |-> Read])
  <2>1. \A n \in DOMAIN toSlave : toSlave[n].req \in Request
    <3>1. \A n \in DOMAIN toSlave : toSlave[n] \in Delivery
      BY <1>1, LenProperties, ElementOfSeq
    <3> QED
      BY <3>1 DEF Delivery
  <2>2. {n \in DOMAIN ReqsOf(toSlave) :
            ReqsOf(toSlave)[n].from = i /\ ReqsOf(toSlave)[n].cmd = Read}
         = {n \in DOMAIN toSlave : toSlave[n].req = [from |-> i, cmd |-> Read]}
    BY <2>1 DEF ReqsOf, Request
  <2> QED
    BY <2>2, Zenon DEF Reads, Sent, Times
<1>4. Returning[i] = Times(p2pResponseQueue, LAMBDA j : j = i)
                     + Times(toMaster, LAMBDA a : a.to = i)
  BY DEF Returning, AnswersIn
<1>5. Read # Writeback
  BY LinkAssumption
<1> DEFINE way == Times(toSlave, LAMBDA d : d.req = [from |-> i, cmd |-> Read])
           queued == Times(p2pResponseQueue, LAMBDA j : j = i)
           sent == Times(toMaster, LAMBDA a : a.to = i)
<1>6. UnderWay(i, Read)
         = wants[i][Read] + Reads(p2pRequestQueue, i) + Reads(deliveryBuffer, i) + way
           + (serving[i] + queued + sent)
  BY <1>5 DEF UnderWay, Reads
<1>7. queued \in Nat /\ sent \in Nat
  <2>1. /\ p2pResponseQueue \in Seq(Interfaces) /\ toMaster \in Seq(Answer)
    BY DEF IInv, QueueInv, TransferInv
  <2>2. \A n \in DOMAIN toMaster : toMaster[n] \in Answer
    BY <2>1, LenProperties, ElementOfSeq
  <2>3. /\ {n \in DOMAIN p2pResponseQueue : p2pResponseQueue[n] = i}
            = Places(p2pResponseQueue, {i})
        /\ {n \in DOMAIN toMaster : toMaster[n].to = i} = Places(toMaster, ToMaster(i))
    BY <2>2 DEF Places, ToMaster
  <2>4. queued = Count(p2pResponseQueue, {i}) /\ sent = Count(toMaster, ToMaster(i))
    BY <2>3, Zenon DEF Times, Count
  <2> QED
    BY <2>1, <2>4, CountIsNat
<1>8. /\ Reads(deliveryBuffer, i) \in Nat /\ Reads(p2pRequestQueue, i) \in Nat
      /\ Reads(ReqsOf(toSlave), i) \in Nat
  BY <1>1, ReadsAreCounted
<1>9. wants[i][Read] \in Nat /\ serving[i] \in Nat
  BY LoadType
<1> HIDE DEF way, queued, sent
<1>10. Reads(ReqsOf(toSlave), i) = way /\ Returning[i] = queued + sent
  BY <1>3, <1>4 DEF way, queued, sent
<1> QED
  BY <1>2, <1>6, <1>7, <1>8, <1>9, <1>10 DEF Load

LEMMA InitLoad == Init => LoadFits
<1> SUFFICES ASSUME Init, NEW i \in Interfaces PROVE Load(i) <= Outstanding[i][Read]
  BY DEF LoadFits
<1>1. IInv
  BY InitInv
<1>2. Load(i) = UnderWay(i, Read)
  BY <1>1, LoadIsUnderWay
<1>3. Reads(Path, i) = 0
  <2>1. Path = <<>>
    <3>1. deliveryBuffer = <<>> /\ toSlave = <<>> /\ p2pRequestQueue = <<>>
      BY DEF Init
    <3> QED
      BY <3>1, ReqsOfNone, ConcatEmptySeq DEF Path
  <2>2. {n \in DOMAIN <<>> : <<>>[n].from = i /\ <<>>[n].cmd = Read} = {}
    OBVIOUS
  <2> QED
    BY <2>1, <2>2, FS_EmptySet DEF Reads, Sent, Times
<1>4. Returning[i] = 0
  <2>1. p2pResponseQueue = <<>> /\ toMaster = <<>>
    BY DEF Init
  <2>2. /\ {n \in DOMAIN <<>> : <<>>[n] = i} = {}
        /\ {n \in DOMAIN <<>> : <<>>[n].to = i} = {}
    OBVIOUS
  <2> QED
    BY <2>1, <2>2, FS_EmptySet DEF Returning, AnswersIn, Times
<1>5. wants[i][Read] = 0 /\ serving[i] = 0
  BY DEF Init, Commands
<1> QED
  BY <1>3, <1>4, <1>5, OutstandingIsNat DEF Load

-----------------------------------------------------------------------------
(* One lemma per kind of step: what it takes off one count it adds to      *)
(* another.                                                                *)

LEMMA StutterLoad ==
    ASSUME IInv, LoadFits, UNCHANGED Channel!vars,
           \A i \in Interfaces : wants'[i][Read] <= wants[i][Read] /\ wants'[i][Read] \in Nat
    PROVE  LoadFits'
<1>1. UNCHANGED <<Path, serving, Returning>>
  BY OnePath DEF Channel!vars
<1> SUFFICES ASSUME NEW i \in Interfaces
             PROVE  wants'[i][Read] + Reads(Path, i) + serving[i] + Returning[i]
                    <= Outstanding[i][Read]
  BY <1>1 DEF LoadFits, Load
<1>2. wants[i][Read] + Reads(Path, i) + serving[i] + Returning[i] <= Outstanding[i][Read]
  BY DEF LoadFits, Load
<1> QED
  BY <1>2, LoadType, OutstandingIsNat, SMTT(30)

LEMMA SendLoad ==
    ASSUME IInv, LoadFits, NEW sent \in Seq(Request), Path' = Path \o sent,
           UNCHANGED <<serving, Returning>>,
           \A i \in Interfaces : wants'[i][Read] = wants[i][Read] - Reads(sent, i)
    PROVE  LoadFits'
<1> SUFFICES ASSUME NEW i \in Interfaces
             PROVE  wants'[i][Read] + Reads(Path', i) + serving[i] + Returning[i]
                    <= Outstanding[i][Read]
  BY DEF LoadFits, Load, Reads
<1>1. wants[i][Read] + Reads(Path, i) + serving[i] + Returning[i] <= Outstanding[i][Read]
  BY DEF LoadFits, Load
<1>2. /\ wants[i][Read] \in Nat /\ Reads(Path, i) \in Nat
      /\ serving[i] \in Nat /\ Returning[i] \in Nat
  BY LoadType
<1>3. Reads(Path', i) = Reads(Path, i) + Reads(sent, i) /\ Reads(sent, i) \in Nat
  BY LoadType, ReadsOfConcat, ReadsAreCounted, Zenon
<1>4. wants'[i][Read] = wants[i][Read] - Reads(sent, i)
  OBVIOUS
<1> QED
  BY <1>1, <1>2, <1>3, <1>4, OutstandingIsNat

LEMMA TakeLoad ==
    ASSUME IInv, LoadFits, Channel!Take(0), UNCHANGED wants, Path' \in Seq(Request)
    PROVE  LoadFits'
<1> DEFINE n == Len(Path) - Len(Path')
           taken == SubSeq(Path, 1, n)
           rest == SubSeq(Path, n + 1, Len(Path))
<1>1. /\ n >= 0
      /\ Path' = rest
      /\ serving' = [i \in Interfaces |-> serving[i] + Reads(taken, i)]
      /\ Returning' = Returning
  <2> DEFINE t == [c \in {0} |-> Len(Paths[c][0]) - Len(Paths'[c][0])]
  <2>1. t[0] = n /\ t = [c \in {0} |-> n]
    BY OnePath
  <2>2. /\ \A c \in {0} : t[c] >= 0
        /\ Paths' = [c \in {0} |-> [Paths[c] EXCEPT ![0] = SubSeq(@, t[c] + 1, Len(@))]]
        /\ Serving' = [Serving EXCEPT ![0] = [i \in Interfaces |->
                            @[i] + Channel!Reads(SubSeq(Paths[0][0], 1, t[0]), i)]]
        /\ Returning' = Returning
    BY DEF Channel!Take
  <2> HIDE DEF t
  <2>3. Paths'[0][0] = SubSeq(Paths[0][0], t[0] + 1, Len(Paths[0][0]))
    BY <2>2, OnePath
  <2>4. Serving'[0] = [i \in Interfaces |->
            serving[i] + Channel!Reads(SubSeq(Paths[0][0], 1, t[0]), i)]
    BY <2>2, OnePath
  <2>5. \A i : Channel!Reads(taken, i) = Reads(taken, i)
    BY SameCardinality DEF Channel!Reads, Reads, Sent, Times
  <2>6. Serving'[0] = serving'
    BY DEF Serving
  <2> QED
    BY <2>1, <2>2, <2>3, <2>4, <2>5, <2>6, OnePath
<1>2. /\ Path \in Seq(Request) /\ Len(Path) \in Nat /\ Len(Path') \in Nat
  BY LoadType, LenProperties
<1>3. n \in 0 .. Len(Path)
  BY <1>1, <1>2
<1> HIDE DEF n
<1>4. taken \in Seq(Request) /\ rest \in Seq(Request) /\ Path = taken \o rest
  <2>1. SubSeq(Path, 1, n) \o SubSeq(Path, n + 1, Len(Path)) = SubSeq(Path, 1, Len(Path))
    <3>1. 1 \in 1 .. Len(Path) + 1 /\ n \in 1 - 1 .. Len(Path) /\ Len(Path) \in n .. Len(Path)
      BY <1>2, <1>3
    <3> QED
      BY <1>2, <3>1, ConcatAdjacentSubSeq
  <2>2. \A k \in 1 .. Len(Path) : Path[k] \in Request
    BY <1>2, ElementOfSeq
  <2>3. taken \in Seq(Request) /\ rest \in Seq(Request)
    <3>1. \A k \in 1 .. n : Path[k] \in Request
      BY <1>2, <1>3, <2>2
    <3>2. \A k \in n + 1 .. Len(Path) : Path[k] \in Request
      BY <1>2, <1>3, <2>2
    <3>3. n \in Int /\ n + 1 \in Int /\ Len(Path) \in Int /\ 1 \in Int
      BY <1>2, <1>3
    <3>4. taken \in Seq(Request)
      BY <3>1, <3>3, SubSeqProperties
    <3>5. rest \in Seq(Request)
      BY <3>2, <3>3, SubSeqProperties
    <3> QED
      BY <3>4, <3>5
  <2> QED
    BY <1>2, <2>1, <2>3, SubSeqFull
<1> HIDE DEF taken, rest
<1> SUFFICES ASSUME NEW i \in Interfaces
             PROVE  wants[i][Read] + Reads(Path', i) + serving'[i] + Returning[i]
                    <= Outstanding[i][Read]
  BY <1>1 DEF LoadFits, Load, Reads
<1>5. wants[i][Read] + Reads(Path, i) + serving[i] + Returning[i] <= Outstanding[i][Read]
  BY DEF LoadFits, Load
<1>6. /\ Reads(Path, i) = Reads(taken, i) + Reads(Path', i)
      /\ Reads(taken, i) \in Nat /\ Reads(Path', i) \in Nat
  <2>1. Reads(taken \o rest, i) = Reads(taken, i) + Reads(rest, i)
    BY <1>4, ReadsOfConcat, Zenon
  <2>2. Reads(taken, i) \in Nat /\ Reads(rest, i) \in Nat
    BY <1>4, ReadsAreCounted, Zenon
  <2> QED
    BY <1>1, <1>4, <2>1, <2>2, Zenon
<1>7. serving'[i] = serving[i] + Reads(taken, i)
  BY <1>1
<1>8. wants[i][Read] \in Nat /\ serving[i] \in Nat /\ Returning[i] \in Nat
  BY LoadType
<1> QED
  BY <1>5, <1>6, <1>7, <1>8, OutstandingIsNat

LEMMA AnswerLoad ==
    ASSUME IInv, LoadFits, NEW i \in Interfaces, Channel!Answer(0, i), UNCHANGED wants
    PROVE  LoadFits'
<1>1. /\ serving' = [serving EXCEPT ![i] = @ - 1]
      /\ Returning' = [Returning EXCEPT ![i] = @ + 1]
      /\ Path' = Path
  <2>1. /\ Serving' = [Serving EXCEPT ![0][i] = @ - 1]
        /\ Returning' = [Returning EXCEPT ![i] = @ + 1]
        /\ Paths' = Paths
    BY DEF Channel!Answer
  <2>2. Serving'[0] = [serving EXCEPT ![i] = @ - 1]
    BY <2>1, OnePath
  <2>3. Serving'[0] = serving'
    BY DEF Serving
  <2> QED
    BY <2>1, <2>2, <2>3, OnePath
<1>2. ASSUME NEW j \in Interfaces
      PROVE  serving'[j] + Returning'[j] = serving[j] + Returning[j]
  BY <1>1, LoadType
<1> SUFFICES ASSUME NEW j \in Interfaces
             PROVE  wants[j][Read] + Reads(Path, j) + serving'[j] + Returning'[j]
                    <= Outstanding[j][Read]
  BY <1>1 DEF LoadFits, Load
<1>3. wants[j][Read] + Reads(Path, j) + serving[j] + Returning[j] <= Outstanding[j][Read]
  BY DEF LoadFits, Load
<1>4. serving'[j] \in Int /\ Returning'[j] \in Int
  BY <1>1, LoadType
<1>5. /\ wants[j][Read] \in Nat /\ Reads(Path, j) \in Nat
      /\ serving[j] \in Nat /\ Returning[j] \in Nat
  BY LoadType
<1>6. serving'[j] + Returning'[j] = serving[j] + Returning[j]
  BY <1>2
<1> QED
  BY <1>3, <1>4, <1>5, <1>6, OutstandingIsNat

LEMMA ReceiveLoad ==
    ASSUME IInv, LoadFits, NEW i \in Interfaces, Channel!Receive(i), UNCHANGED wants
    PROVE  LoadFits'
<1>1. /\ Returning' = [Returning EXCEPT ![i] = @ - 1]
      /\ serving' = serving /\ Path' = Path
  BY OnePath DEF Channel!Receive
<1> SUFFICES ASSUME NEW j \in Interfaces
             PROVE  wants[j][Read] + Reads(Path, j) + serving[j] + Returning'[j]
                    <= Outstanding[j][Read]
  BY <1>1 DEF LoadFits, Load
<1>2. wants[j][Read] + Reads(Path, j) + serving[j] + Returning[j] <= Outstanding[j][Read]
  BY DEF LoadFits, Load
<1>3. Returning'[j] \in Int /\ Returning'[j] <= Returning[j]
  BY <1>1, LoadType
<1>4. /\ wants[j][Read] \in Nat /\ Reads(Path, j) \in Nat
      /\ serving[j] \in Nat /\ Returning[j] \in Nat
  BY LoadType
<1> QED
  BY <1>2, <1>3, <1>4, OutstandingIsNat

\* A cache that has a request to send has an MSHR or a write buffer for it.
LEMMA CacheRequestsLoad ==
    ASSUME IInv, LoadFits, NEW i \in Interfaces, NEW cmd \in Commands, CacheRequests(i, cmd)
    PROVE  LoadFits'
<1>1. /\ UnderWay(i, cmd) < Outstanding[i][cmd]
      /\ wants' = [wants EXCEPT ![i][cmd] = @ + 1]
      /\ UNCHANGED <<Path, serving, Returning>>
  BY KeptPath, KeptReturning DEF CacheRequests, queueVars, transferVars, slaveVars
<1> SUFFICES ASSUME NEW j \in Interfaces
             PROVE  wants'[j][Read] + Reads(Path, j) + serving[j] + Returning[j]
                    <= Outstanding[j][Read]
  BY <1>1 DEF LoadFits, Load
<1>2. wants[j][Read] + Reads(Path, j) + serving[j] + Returning[j] <= Outstanding[j][Read]
  BY DEF LoadFits, Load
<1>3. wants \in [Interfaces -> [Commands -> Nat]] /\ Read \in Commands
  BY DEF IInv, CacheInv, Commands
<1>4. wants'[j][Read] = wants[j][Read] + IF j = i /\ cmd = Read THEN 1 ELSE 0
  BY <1>1, <1>3
<1>5. CASE j = i /\ cmd = Read
  <2>1. wants[j][Read] + Reads(Path, j) + serving[j] + Returning[j] < Outstanding[j][Read]
    BY <1>1, <1>5, LoadIsUnderWay DEF Load
  <2> QED
    BY <1>4, <1>5, <2>1, LoadType, OutstandingIsNat, SMTT(30)
<1>6. CASE ~(j = i /\ cmd = Read)
  BY <1>2, <1>4, <1>6, LoadType
<1> QED
  BY <1>5, <1>6

LEMMA NextLoad == IInv /\ LoadFits /\ [Next]_vars => LoadFits'
<1> SUFFICES ASSUME IInv, LoadFits, [Next]_vars PROVE LoadFits'
  OBVIOUS
<1>1. ASSUME UNCHANGED wants
      PROVE  \A i \in Interfaces : wants'[i][Read] <= wants[i][Read] /\ wants'[i][Read] \in Nat
  BY <1>1, LoadType
<1>2. ASSUME NEW i \in Interfaces, NEW cmd \in Commands, CacheRequests(i, cmd) PROVE LoadFits'
  BY <1>2, CacheRequestsLoad
<1>3. ASSUME NEW i \in Interfaces, CacheSquashes(i) PROVE LoadFits'
  <2>1. UNCHANGED Channel!vars
    BY <1>3, CacheStutters DEF CacheSquashes
  <2>2. /\ wants[i][Read] > 0 /\ wants' = [wants EXCEPT ![i][Read] = @ - 1]
        /\ wants \in [Interfaces -> [Commands -> Nat]] /\ Read \in Commands
    BY <1>3 DEF CacheSquashes, IInv, CacheInv, Commands
  <2>3. ASSUME NEW j \in Interfaces
        PROVE  wants'[j][Read] <= wants[j][Read] /\ wants'[j][Read] \in Nat
    <3>1. wants[j][Read] \in Nat
      BY <2>2
    <3>2. wants'[j][Read] = IF j = i THEN wants[j][Read] - 1 ELSE wants[j][Read]
      BY <2>2
    <3> QED
      BY <2>2, <3>1, <3>2
  <2> QED
    BY <2>1, <2>3, StutterLoad
<1>4. ASSUME NEW i \in Interfaces, Retrieve(i) PROVE LoadFits'
  <2>1. CASE RetrieveRequest(i)
    BY <2>1, RetrieveRequestSends, SendLoad
  <2>2. CASE RetrieveLater(i) \/ RetrieveNothing(i)
    <3>1. UNCHANGED Channel!vars /\ UNCHANGED wants
      BY <2>2, CacheStutters DEF RetrieveLater, RetrieveNothing
    <3> QED
      BY <1>1, <3>1, StutterLoad
  <2> QED
    BY <1>4, <2>1, <2>2 DEF Retrieve
<1>5. ASSUME NEW i \in Interfaces, SlaveResponds(i) PROVE LoadFits'
  BY <1>5, SlaveRespondsAnswers, AnswerLoad DEF SlaveResponds, cacheVars
<1>6. CASE Arbitrate
  BY <1>6, ArbitrateSends, SendLoad
<1>7. CASE Deliver
  <2>1. UNCHANGED wants
    BY <1>7 DEF Deliver, DeliverToBuffer, DeliverToSlave, Delivered, DeliverToMaster, cacheVars
  <2>2. CASE DeliverToBuffer
    BY <1>1, <2>1, <2>2, DeliverToBufferStutters, StutterLoad
  <2>3. CASE DeliverToSlave
    BY <2>1, <2>3, DeliverToSlaveTakes, PathAfter, TakeLoad
  <2>4. CASE DeliverToMaster
    BY <2>1, <2>4, DeliverToMasterReceives, ReceiveLoad
  <2> QED
    BY <1>7, <2>2, <2>3, <2>4 DEF Deliver
<1>8. CASE Tick
  BY <1>1, <1>8, TickStutters, StutterLoad DEF Tick, cacheVars
<1>9. CASE SlaveUnblocks
  BY <1>9, SlaveUnblocksTakes, PathAfter, TakeLoad DEF SlaveUnblocks, Unbuffered, cacheVars
<1>10. CASE SlaveFills
  <2>1. UNCHANGED Channel!vars
    BY <1>10, KeptPath, KeptReturning, StutterStep DEF SlaveFills, queueVars, transferVars
  <2> QED
    BY <1>1, <1>10, <2>1, StutterLoad DEF SlaveFills, cacheVars
<1>11. CASE UNCHANGED vars
  BY <1>1, <1>11, CacheStutters, StutterLoad DEF vars, cacheVars
<1> QED
  BY <1>2, <1>3, <1>4, <1>5, <1>6, <1>7, <1>8, <1>9, <1>10, <1>11 DEF Next

-----------------------------------------------------------------------------
(* The pigeonholes: a queue in which i is allowed[i] times at most is no   *)
(* longer than the pairs of an i and a number up to allowed[i] are many.   *)

LEMMA Pigeonholes ==
    ASSUME NEW T, IsFiniteSet(T), NEW q \in Seq(T), NEW allowed \in [T -> Nat],
           \A i \in T : Count(q, {i}) <= allowed[i]
    PROVE  /\ Cardinality(UNION {{i} \X (1 .. allowed[i]) : i \in T}) \in Nat
           /\ Len(q) <= Cardinality(UNION {{i} \X (1 .. allowed[i]) : i \in T})
<1> DEFINE holes(i) == {i} \X (1 .. allowed[i])
           Holes == UNION {holes(i) : i \in T}
           before(n) == {m \in 1 .. n : q[m] = q[n]}
           f == [n \in DOMAIN q |-> <<q[n], Cardinality(before(n))>>]
<1>1. /\ DOMAIN q = 1 .. Len(q) /\ Len(q) \in Nat
      /\ \A n \in 1 .. Len(q) : q[n] \in T
  BY LenProperties, ElementOfSeq
<1>2. IsFiniteSet(Holes)
  <2>1. ASSUME NEW i \in T PROVE IsFiniteSet(holes(i))
    <3>1. IsFiniteSet({i})
      BY FS_Singleton
    <3>2. IsFiniteSet(1 .. allowed[i])
      <4>1. 1 \in Int /\ allowed[i] \in Int
        OBVIOUS
      <4> QED
        BY <4>1, FS_Interval
    <3> QED
      BY <3>1, <3>2, FS_Product
  <2>2. IsFiniteSet({holes(i) : i \in T})
    <3> DEFINE g == [i \in T |-> holes(i)]
    <3> HIDE DEF holes
    <3>1. g \in Surjection(T, {holes(i) : i \in T})
      BY DEF Surjection
    <3> HIDE DEF g
    <3> QED
      BY <3>1, FS_Surjection
  <2> QED
    BY <2>1, <2>2, FS_UNION
<1>3. ASSUME NEW n \in 1 .. Len(q)
      PROVE  /\ IsFiniteSet(before(n)) /\ Cardinality(before(n)) \in 1 .. allowed[q[n]]
  <2>1. IsFiniteSet(Places(q, {q[n]})) /\ Count(q, {q[n]}) \in Nat
    BY CountIsNat
  <2>2. before(n) \in SUBSET Places(q, {q[n]})
    BY <1>1 DEF Places
  <2>3. IsFiniteSet(before(n)) /\ Cardinality(before(n)) <= Count(q, {q[n]})
    BY <2>1, <2>2, FS_Subset DEF Count
  <2>4. Cardinality(before(n)) \in Nat /\ Cardinality(before(n)) # 0
    <3>1. n \in before(n)
      BY <1>1
    <3> HIDE DEF before
    <3> QED
      BY <2>3, <3>1, FS_CardinalityType, FS_EmptySet
  <2>5. Count(q, {q[n]}) <= allowed[q[n]] /\ allowed[q[n]] \in Nat
    BY <1>1
  <2> HIDE DEF before
  <2> QED
    BY <2>1, <2>3, <2>4, <2>5
<1>4. ASSUME NEW m \in 1 .. Len(q), NEW n \in 1 .. Len(q), m < n, q[m] = q[n]
      PROVE  Cardinality(before(m)) # Cardinality(before(n))
  <2>1. before(m) \in SUBSET before(n) /\ n \in before(n) /\ n \notin before(m)
    BY <1>1, <1>4
  <2> QED
    BY <1>3, <2>1, FS_Subset
<1> HIDE DEF before
<1>5. f \in Injection(DOMAIN q, Holes)
  <2>1. ASSUME NEW n \in 1 .. Len(q) PROVE <<q[n], Cardinality(before(n))>> \in Holes
    <3>1. <<q[n], Cardinality(before(n))>> \in holes(q[n])
      BY <1>3
    <3> HIDE DEF holes
    <3> QED
      BY <1>1, <3>1
  <2>2. f \in [DOMAIN q -> Holes]
    <3> HIDE DEF Holes
    <3> QED
      BY <1>1, <2>1
  <2>3. ASSUME NEW m \in DOMAIN q, NEW n \in DOMAIN q, f[m] = f[n] PROVE m = n
    <3>1. q[m] = q[n] /\ Cardinality(before(m)) = Cardinality(before(n))
      BY <2>3
    <3>2. m \in 1 .. Len(q) /\ n \in 1 .. Len(q)
      BY <1>1
    <3> QED
      BY <1>4, <3>1, <3>2
  <2> HIDE DEF f, Holes
  <2> QED
    BY <2>2, <2>3 DEF Injection, IsInjective
<1> HIDE DEF f, Holes
<1>6. Cardinality(DOMAIN q) <= Cardinality(Holes) /\ Cardinality(Holes) \in Nat
  BY <1>2, <1>5, FS_Injection, FS_CardinalityType
<1>7. Cardinality(DOMAIN q) = Len(q)
  <2>1. \A k \in Nat : Cardinality(1 .. k) = k
    <3> TAKE k \in Nat
    <3>1. Cardinality(1 .. k) = IF 1 > k THEN 0 ELSE k - 1 + 1
      BY FS_Interval
    <3> QED
      BY <3>1
  <2> QED
    BY <1>1, <2>1
<1> QED
  BY <1>6, <1>7 DEF Holes

LEMMA LoadBoundsResponses == IInv /\ LoadFits => ResponsesFit
<1> SUFFICES ASSUME IInv, LoadFits PROVE ResponsesFit
  OBVIOUS
<1> DEFINE allowed == [i \in Interfaces |-> Outstanding[i][Read]]
<1>1. allowed \in [Interfaces -> Nat] /\ IsFiniteSet(Interfaces)
  BY OutstandingIsNat, LinkAssumption
<1>2. p2pResponseQueue \in Seq(Interfaces) /\ toMaster \in Seq(Answer)
  BY DEF IInv, QueueInv, TransferInv
<1>3. ASSUME NEW i \in Interfaces PROVE Count(p2pResponseQueue, {i}) <= allowed[i]
  <2>1. /\ Count(p2pResponseQueue, {i}) \in Nat /\ Count(toMaster, ToMaster(i)) \in Nat
        /\ Returning[i] = Count(p2pResponseQueue, {i}) + Count(toMaster, ToMaster(i))
    BY <1>2, AnswerCounts DEF Returning
  <2>2. wants[i][Read] + Reads(Path, i) + serving[i] + Returning[i] <= Outstanding[i][Read]
    BY DEF LoadFits, Load
  <2>3. /\ wants[i][Read] \in Nat /\ Reads(Path, i) \in Nat
        /\ serving[i] \in Nat /\ Outstanding[i][Read] \in Nat
    BY LoadType, OutstandingIsNat
  <2>4. allowed[i] = Outstanding[i][Read]
    OBVIOUS
  <2> HIDE DEF allowed
  <2> QED
    BY <2>1, <2>2, <2>3, <2>4
<1>4. UNION {{i} \X (1 .. allowed[i]) : i \in Interfaces} = ReadsAllowed
  BY DEF ReadsAllowed
<1> HIDE DEF allowed
<1>5. Cardinality(ReadsAllowed) \in Nat /\ Len(p2pResponseQueue) <= Cardinality(ReadsAllowed)
  <2>1. /\ Cardinality(UNION {{i} \X (1 .. allowed[i]) : i \in Interfaces}) \in Nat
        /\ Len(p2pResponseQueue)
              <= Cardinality(UNION {{i} \X (1 .. allowed[i]) : i \in Interfaces})
    <3>1. \A i \in Interfaces : Count(p2pResponseQueue, {i}) <= allowed[i]
      BY <1>3
    <3>2. \A b \in [Interfaces -> Nat] :
              (\A i \in Interfaces : Count(p2pResponseQueue, {i}) <= b[i]) =>
                  /\ Cardinality(UNION {{i} \X (1 .. b[i]) : i \in Interfaces}) \in Nat
                  /\ Len(p2pResponseQueue)
                        <= Cardinality(UNION {{i} \X (1 .. b[i]) : i \in Interfaces})
      BY <1>1, <1>2, Pigeonholes
    <3> QED
      BY <1>1, <3>1, <3>2, Zenon
  <2> QED
    BY <1>4, <2>1
<1>6. Len(p2pResponseQueue) \in Nat /\ queueSize \in Nat
  BY <1>2, LenProperties, Constants
<1> QED
  BY <1>5, <1>6 DEF ResponsesFit

\* respond() has room for every answer, although nothing stops the second level
\* cache while the queue is full: the first level caches' MSHRs bound what can be
\* in it, wherever their reads are between the request and the answer.
THEOREM ResponsesFitHolds == Spec => []ResponsesFit
<1>1. Spec => []LoadFits
  BY InitLoad, NextLoad, Invariance, PTL DEF Spec
<1> QED
  BY <1>1, Invariance, LoadBoundsResponses, PTL
=============================================================================
