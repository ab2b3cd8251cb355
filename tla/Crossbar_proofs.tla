---------------------------- MODULE Crossbar_proofs ----------------------------
(***************************************************************************)
(* The queues, buffers and counters of the crossbar stay consistent, and   *)
(* the arbitration event and the retrieve events are there when they are   *)
(* needed, for any number of processors, banks, interfaces and stages; and *)
(* the crossbar implements Channels.                                       *)
(***************************************************************************)
EXTENDS Crossbar, Selection_proofs

-----------------------------------------------------------------------------
(* The invariant, by the part of the crossbar it is about.                 *)

\* The caches and their retrieve events.
CacheInv ==
    /\ wants \in [Interfaces -> Nat]
    /\ events \in [Interfaces -> Nat]
    /\ notRetrieved \in [Interfaces -> Nat]
    /\ EveryWantHasEvent

\* The queues of the processors.
QueueInv ==
    /\ requests \in [Cpus -> Seq(Request)]
    /\ blockedLocal \subseteq Cpus
    /\ LocalQueueFits
    /\ \A c \in blockedLocal : requests[c] # <<>>

\* Where a retrieve event may be put off.
PutOffInv == \A i \in Interfaces : notRetrieved[i] > 0 => CpuOf[i] \in blockedLocal

\* The pipelines and the buffers of the banks.
BankInv ==
    /\ pipe \in [Banks -> Seq(Transfer)]
    /\ inProgress \in [Banks -> Nat]
    /\ blockedBanks \subseteq Banks
    /\ buffer \in [Banks -> Seq(Transfer)]
    /\ serving \in [Banks -> [Interfaces -> Nat]]
    /\ InProgressCounts
    /\ \A b \in Banks : inProgress[b] <= Stages
    /\ \A b \in Banks : b \notin blockedBanks => buffer[b] = <<>>

\* The way back.
BackInv ==
    /\ responses \in [Banks -> Seq(Response)]
    /\ back \in [Cpus -> Seq(Interfaces)]

EventInv == arbScheduled \in BOOLEAN /\ WorkIsScheduled

IInv == CacheInv /\ QueueInv /\ PutOffInv /\ BankInv /\ BackInv /\ EventInv

-----------------------------------------------------------------------------
(* What the helpers return.                                                *)

LEMMA Constants ==
    /\ QueueSize \in Nat /\ QueueSize > 2 /\ Stages \in Nat
    /\ \A i \in Interfaces : CpuOf[i] \in Cpus
BY CrossbarAssumption

LEMMA CountsAreNat ==
    ASSUME NEW T, NEW s \in Seq(T), NEW i
    PROVE  From(s, i) \in Nat /\ ReadsFrom(s, i) \in Nat
<1>1. DOMAIN s = 1 .. Len(s) /\ Len(s) \in Nat
  BY LenProperties
<1>2. IsFiniteSet(DOMAIN s)
  BY <1>1, FS_Interval
<1>3. \A D \in SUBSET DOMAIN s : Cardinality(D) \in Nat
  BY <1>2, FS_Subset, FS_CardinalityType
<1>4. {n \in DOMAIN s : s[n].from = i} \in SUBSET DOMAIN s
  OBVIOUS
<1>5. {n \in DOMAIN s : s[n].from = i /\ s[n].cmd = Read} \in SUBSET DOMAIN s
  OBVIOUS
<1> QED
  BY <1>3, <1>4, <1>5 DEF From, ReadsFrom, Times

LEMMA MinOfTwo ==
    ASSUME NEW a \in Int, NEW b \in Int
    PROVE  Min({a, b}) = IF a <= b THEN a ELSE b
<1>1. \E x \in {a, b} : \A y \in {a, b} : x <= y
  OBVIOUS
<1>2. Min({a, b}) \in {a, b} /\ \A y \in {a, b} : Min({a, b}) <= y
  BY <1>1 DEF Min
<1> QED
  BY <1>2

\* The queues of both directions, when time passes.
Ageable(E) == \A e \in E : e.age \in Nat /\ \A n \in Nat : [e EXCEPT !.age = n] \in E

LEMMA AgeableQueues == Ageable(Request) /\ Ageable(Response)
BY DEF Ageable, Request, Response

LEMMA AgedKeeps ==
    ASSUME NEW E, Ageable(E), NEW Q, NEW queues \in [Q -> Seq(E)]
    PROVE  /\ Aged(queues) \in [Q -> Seq(E)]
           /\ \A q \in Q : Len(Aged(queues)[q]) = Len(queues[q])
<1> DEFINE rank(e) == 1 + Cardinality({a \in Ages(queues) : a < e.age})
<1>1. \A q \in Q : queues[q] \in Seq(E) /\ DOMAIN queues[q] = 1 .. Len(queues[q]) /\ Len(queues[q]) \in Nat
  BY LenProperties
<1>2. \A q \in Q : \A n \in 1 .. Len(queues[q]) : queues[q][n] \in E
  BY <1>1, ElementOfSeq
<1>3. Ages(queues) \subseteq Nat
  <2>1. \A q \in Q : Range(queues[q]) \subseteq E
    BY <1>1, <1>2 DEF Range
  <2> QED
    BY <2>1 DEF Ages, Ageable
<1>4. ASSUME NEW e \in E PROVE rank(e) \in Nat
  <2> DEFINE A == {a \in Ages(queues) : a < e.age}
  <2>1. e.age \in Nat
    BY DEF Ageable
  <2>2. A \in SUBSET (0 .. e.age)
    BY <1>3, <2>1
  <2>21. IsFiniteSet(0 .. e.age)
    BY <2>1, FS_Interval
  <2> HIDE DEF A
  <2>3. IsFiniteSet(A)
    BY <2>2, <2>21, FS_Subset
  <2>4. Cardinality(A) \in Nat
    BY <2>3, FS_CardinalityType
  <2>5. 1 + Cardinality(A) \in Nat
    BY <2>4
  <2> QED
    BY <2>5 DEF A
<1> HIDE DEF rank
<1>5. Aged(queues) = [q \in Q |-> [n \in DOMAIN queues[q] |->
                         [queues[q][n] EXCEPT !.age = rank(queues[q][n])]]]
  BY DEF Aged, rank
<1> HIDE DEF Aged
<1>6. ASSUME NEW q \in Q
      PROVE  Aged(queues)[q] \in Seq(E) /\ Len(Aged(queues)[q]) = Len(queues[q])
  <2> DEFINE s == queues[q]
             k == Len(queues[q])
  <2>1. k \in Nat /\ DOMAIN s = 1 .. k /\ \A n \in 1 .. k : s[n] \in E
    BY <1>1, <1>2
  <2>2. Aged(queues)[q] = [n \in DOMAIN s |-> [s[n] EXCEPT !.age = rank(s[n])]]
    BY <1>5
  <2> HIDE DEF s, k
  <2>3. \A n \in 1 .. k : [s[n] EXCEPT !.age = rank(s[n])] \in E
    BY <1>4, <2>1 DEF Ageable
  <2>4. Aged(queues)[q] \in [1 .. k -> E]
    BY <2>1, <2>2, <2>3
  <2>5. Aged(queues)[q] \in Seq(E) /\ Len(Aged(queues)[q]) = k
    BY <2>1, <2>4
  <2> QED
    BY <2>5 DEF k
<1> QED
  BY <1>5, <1>6

\* Whether there is work depends on which queues are empty only.
LEMMA SameWork ==
    ASSUME \A c \in Cpus : requests'[c] = <<>> <=> requests[c] = <<>>,
           \A b \in Banks : responses'[b] = <<>> <=> responses[b] = <<>>
    PROVE  MoreToDo(requests', responses') <=> MoreToDo(requests, responses)
BY DEF MoreToDo

-----------------------------------------------------------------------------
(* Steps that leave a part alone.                                          *)

LEMMA CacheUntouched ==
    ASSUME CacheInv, UNCHANGED cacheVars PROVE CacheInv'
BY DEF CacheInv, cacheVars, EveryWantHasEvent

LEMMA QueueUntouched ==
    ASSUME QueueInv, UNCHANGED <<requests, blockedLocal>> PROVE QueueInv'
BY DEF QueueInv, LocalQueueFits

LEMMA PutOffUntouched ==
    ASSUME PutOffInv, UNCHANGED <<notRetrieved, blockedLocal>> PROVE PutOffInv'
BY DEF PutOffInv

LEMMA BankUntouched ==
    ASSUME BankInv, UNCHANGED bankVars PROVE BankInv'
BY DEF BankInv, bankVars, InProgressCounts

LEMMA BackUntouched ==
    ASSUME BackInv, UNCHANGED backVars PROVE BackInv'
BY DEF BackInv, backVars

LEMMA EventUntouched ==
    ASSUME EventInv, UNCHANGED <<arbScheduled, requests, responses>> PROVE EventInv'
BY DEF EventInv, WorkIsScheduled, MoreToDo

-----------------------------------------------------------------------------
(* The actions.                                                            *)

LEMMA InitEstablishes == Init => IInv
<1> SUFFICES ASSUME Init PROVE IInv
  OBVIOUS
<1> USE Constants DEF Init
<1>1. CacheInv
  BY DEF CacheInv, EveryWantHasEvent
<1>2. QueueInv
  <2>1. \A c \in Cpus : requests[c] = <<>> /\ Len(requests[c]) = 0
    BY EmptySeq
  <2> QED
    BY <2>1 DEF QueueInv, LocalQueueFits
<1>3. PutOffInv
  BY DEF PutOffInv
<1>4. BankInv
  <2>1. \A b \in Banks : /\ pipe[b] = <<>> /\ buffer[b] = <<>> /\ inProgress[b] = 0
                         /\ Len(pipe[b]) = 0 /\ Len(buffer[b]) = 0
    BY EmptySeq
  <2> QED
    BY <2>1 DEF BankInv, InProgressCounts
<1>5. BackInv
  BY DEF BackInv
<1>6. EventInv
  BY DEF EventInv, WorkIsScheduled, MoreToDo
<1> QED
  BY <1>1, <1>2, <1>3, <1>4, <1>5, <1>6 DEF IInv

LEMMA CacheRequestsPreserves ==
    ASSUME IInv, NEW i \in Interfaces, CacheRequests(i) PROVE IInv'
<1>1. CacheInv'
  BY DEF CacheRequests, IInv, CacheInv, EveryWantHasEvent
<1> QED
  BY <1>1, QueueUntouched, PutOffUntouched, BankUntouched, BackUntouched, EventUntouched
     DEF CacheRequests, IInv, queueVars, backVars

LEMMA CacheSquashesPreserves ==
    ASSUME IInv, NEW i \in Interfaces, CacheSquashes(i) PROVE IInv'
<1>1. CacheInv'
  BY DEF CacheSquashes, IInv, CacheInv, EveryWantHasEvent
<1> QED
  BY <1>1, QueueUntouched, PutOffUntouched, BankUntouched, BackUntouched, EventUntouched
     DEF CacheSquashes, IInv, queueVars, backVars

LEMMA RetrieveLaterPreserves ==
    ASSUME IInv, NEW i \in Interfaces, RetrieveLater(i) PROVE IInv'
<1>1. CacheInv'
  BY DEF RetrieveLater, IInv, CacheInv, EveryWantHasEvent
<1>2. PutOffInv'
  BY DEF RetrieveLater, IInv, CacheInv, PutOffInv, queueVars
<1> QED
  BY <1>1, <1>2, QueueUntouched, BankUntouched, BackUntouched, EventUntouched
     DEF RetrieveLater, IInv, queueVars, backVars

LEMMA RetrieveNothingPreserves ==
    ASSUME IInv, NEW i \in Interfaces, RetrieveNothing(i) PROVE IInv'
<1>1. CacheInv'
  BY DEF RetrieveNothing, IInv, CacheInv, EveryWantHasEvent
<1> QED
  BY <1>1, QueueUntouched, PutOffUntouched, BankUntouched, BackUntouched, EventUntouched
     DEF RetrieveNothing, IInv, queueVars, backVars

LEMMA RetrieveRequestPreserves ==
    ASSUME IInv, NEW i \in Interfaces, RetrieveRequest(i) PROVE IInv'
<1> USE Constants
<1> DEFINE c == CpuOf[i]
<1>1. PICK b \in Banks, cmd \in {Read, Writeback} :
         requests' = [requests EXCEPT ![c] =
                        Append(@, [from |-> i, bank |-> b, cmd |-> cmd, age |-> 0])]
  BY DEF RetrieveRequest
<1> DEFINE r == [from |-> i, bank |-> b, cmd |-> cmd, age |-> 0]
<1>2. c \in Cpus /\ c \notin blockedLocal /\ r \in Request
  BY DEF RetrieveRequest, Request
<1> HIDE DEF r, c
<1>3. /\ requests'[c] = Append(requests[c], r)
      /\ \A d \in Cpus \ {c} : requests'[d] = requests[d]
  BY <1>1, <1>2 DEF IInv, QueueInv, r
<1>4. /\ requests[c] \in Seq(Request)
      /\ Append(requests[c], r) \in Seq(Request)
      /\ Len(Append(requests[c], r)) = Len(requests[c]) + 1
      /\ Append(requests[c], r) # <<>>
      /\ Len(requests[c]) \in Nat
  BY <1>2, AppendProperties, LenProperties DEF IInv, QueueInv
<1>5. Len(requests[c]) < QueueSize
  BY <1>2, <1>4 DEF IInv, QueueInv, LocalQueueFits
<1>6. QueueInv'
  <2>1. requests' \in [Cpus -> Seq(Request)]
    BY <1>1, <1>2, <1>4 DEF IInv, QueueInv, r
  <2>2. blockedLocal' = blockedLocal \cup Filled(requests')
    BY DEF RetrieveRequest
  <2>3. blockedLocal' \subseteq Cpus
    BY <2>2 DEF IInv, QueueInv, Filled
  <2>4. ASSUME NEW d \in Cpus
        PROVE  /\ Len(requests'[d]) <= QueueSize
               /\ Len(requests'[d]) = QueueSize => d \in blockedLocal'
    <3>1. Len(requests'[d]) <= QueueSize
      BY <1>3, <1>4, <1>5 DEF IInv, QueueInv, LocalQueueFits
    <3> QED
      BY <2>2, <3>1 DEF Filled
  <2>5. ASSUME NEW d \in blockedLocal'
        PROVE  requests'[d] # <<>>
    <3>1. CASE d \in blockedLocal
      BY <1>2, <1>3, <3>1 DEF IInv, QueueInv
    <3>2. CASE d \in Filled(requests')
      BY <3>2, EmptySeq DEF Filled
    <3> QED
      BY <2>2, <3>1, <3>2
  <2> QED
    BY <2>1, <2>3, <2>4, <2>5 DEF QueueInv, LocalQueueFits
<1>7. CacheInv'
  BY DEF RetrieveRequest, IInv, CacheInv, EveryWantHasEvent
<1>8. PutOffInv'
  BY DEF RetrieveRequest, IInv, PutOffInv
<1>9. EventInv'
  BY <1>2, <1>3, <1>4 DEF RetrieveRequest, EventInv, WorkIsScheduled, MoreToDo
<1> QED
  BY <1>6, <1>7, <1>8, <1>9, BankUntouched, BackUntouched DEF RetrieveRequest, IInv

LEMMA TickPreserves ==
    ASSUME IInv, Tick PROVE IInv'
<1>1. /\ requests' = Aged(requests) /\ responses' = Aged(responses)
      /\ UNCHANGED <<cacheVars, blockedLocal, arbScheduled, bankVars, back>>
  BY DEF Tick
<1>2. requests \in [Cpus -> Seq(Request)] /\ responses \in [Banks -> Seq(Response)]
  BY DEF IInv, QueueInv, BackInv
<1>3. /\ requests' \in [Cpus -> Seq(Request)]
      /\ \A c \in Cpus : Len(requests'[c]) = Len(requests[c])
  BY <1>1, <1>2, AgedKeeps, AgeableQueues
<1>4. /\ responses' \in [Banks -> Seq(Response)]
      /\ \A b \in Banks : Len(responses'[b]) = Len(responses[b])
  BY <1>1, <1>2, AgedKeeps, AgeableQueues
<1>5. \A E : \A s \in Seq(E) : s = <<>> <=> Len(s) = 0
  BY EmptySeq
<1>6. \A c \in Cpus : requests'[c] = <<>> <=> requests[c] = <<>>
  BY <1>2, <1>3, <1>5
<1>7. \A b \in Banks : responses'[b] = <<>> <=> responses[b] = <<>>
  BY <1>2, <1>4, <1>5
<1>8. QueueInv'
  BY <1>1, <1>3, <1>6 DEF IInv, QueueInv, LocalQueueFits
<1>9. BackInv'
  BY <1>1, <1>4 DEF IInv, BackInv
<1>10. EventInv'
  BY <1>1, <1>6, <1>7, SameWork DEF IInv, EventInv, WorkIsScheduled
<1> QED
  BY <1>1, <1>8, <1>9, <1>10, CacheUntouched, PutOffUntouched, BankUntouched DEF IInv, cacheVars

\* The access of transfers leaves the bank counts of reads.
LEMMA AccessedType ==
    ASSUME serving \in [Banks -> [Interfaces -> Nat]],
           NEW b \in Banks, NEW s \in Seq(Transfer), Accessed(b, s)
    PROVE  serving' \in [Banks -> [Interfaces -> Nat]]
<1>1. \A i \in Interfaces : ReadsFrom(s, i) \in Nat
  BY CountsAreNat
<1>2. [i \in Interfaces |-> serving[b][i] + ReadsFrom(s, i)] \in [Interfaces -> Nat]
  BY <1>1
<1>3. serving' = [serving EXCEPT ![b] = [i \in Interfaces |-> serving[b][i] + ReadsFrom(s, i)]]
  BY DEF Accessed
<1> QED
  BY <1>2, <1>3

\* A pipeline that delivers.
LEMMA Delivers ==
    ASSUME BankInv, NEW b \in Banks, pipe[b] # <<>>
    PROVE  /\ Head(pipe[b]) \in Transfer
           /\ Tail(pipe[b]) \in Seq(Transfer)
           /\ Len(Tail(pipe[b])) = Len(pipe[b]) - 1
           /\ Len(pipe[b]) \in Nat /\ Len(pipe[b]) >= 1 /\ Len(buffer[b]) \in Nat
           /\ inProgress[b] = Len(pipe[b]) + Len(buffer[b])
<1>1. pipe[b] \in Seq(Transfer) /\ buffer[b] \in Seq(Transfer)
  BY DEF BankInv
<1>2. Len(pipe[b]) \in Nat \ {0} /\ Len(buffer[b]) \in Nat
  BY <1>1, EmptySeq, LenProperties
<1> QED
  BY <1>1, <1>2, HeadTailProperties DEF BankInv, InProgressCounts

LEMMA DeliverToBufferPreserves ==
    ASSUME IInv, NEW b \in Banks, DeliverToBuffer(b) PROVE IInv'
<1>1. /\ pipe[b] # <<>> /\ b \in blockedBanks
      /\ buffer' = [buffer EXCEPT ![b] = Append(@, Head(pipe[b]))]
      /\ pipe' = [pipe EXCEPT ![b] = Tail(@)]
      /\ UNCHANGED <<cacheVars, queueVars, inProgress, blockedBanks, serving, backVars>>
  BY DEF DeliverToBuffer
<1>2. BankInv
  BY DEF IInv
<1>3. /\ Tail(pipe[b]) \in Seq(Transfer) /\ Len(Tail(pipe[b])) = Len(pipe[b]) - 1
      /\ Head(pipe[b]) \in Transfer
      /\ Len(pipe[b]) \in Nat /\ Len(buffer[b]) \in Nat
  BY <1>1, <1>2, Delivers
<1>4. /\ Append(buffer[b], Head(pipe[b])) \in Seq(Transfer)
      /\ Len(Append(buffer[b], Head(pipe[b]))) = Len(buffer[b]) + 1
  BY <1>2, <1>3, AppendProperties DEF BankInv
<1>5. /\ pipe'[b] = Tail(pipe[b]) /\ buffer'[b] = Append(buffer[b], Head(pipe[b]))
      /\ \A a \in Banks \ {b} : pipe'[a] = pipe[a] /\ buffer'[a] = buffer[a]
      /\ pipe' \in [Banks -> Seq(Transfer)] /\ buffer' \in [Banks -> Seq(Transfer)]
  BY <1>1, <1>2, <1>3, <1>4 DEF BankInv
<1>6. Len(pipe'[b]) + Len(buffer'[b]) = Len(pipe[b]) + Len(buffer[b])
  <2> DEFINE p == Len(pipe[b])
             q == Len(buffer[b])
             p2 == Len(pipe'[b])
             q2 == Len(buffer'[b])
  <2>1. p2 = p - 1 /\ q2 = q + 1 /\ p \in Nat /\ q \in Nat
    BY <1>3, <1>4, <1>5
  <2> HIDE DEF p, q, p2, q2
  <2>2. p2 + q2 = p + q
    BY <2>1
  <2> QED
    BY <2>2 DEF p, q, p2, q2
<1>7. BankInv'
  BY <1>1, <1>2, <1>5, <1>6 DEF BankInv, InProgressCounts
<1> QED
  BY <1>1, <1>7, CacheUntouched, QueueUntouched, PutOffUntouched, BackUntouched, EventUntouched
     DEF IInv, cacheVars, queueVars, backVars

\* Nothing more is under way to bank b.
LEMMA StillFits ==
    ASSUME BankInv, NEW b \in Banks, inProgress'[b] \in Nat, inProgress'[b] <= inProgress[b],
           NEW a \in Banks, a # b => inProgress'[a] = inProgress[a]
    PROVE  inProgress'[a] <= Stages
<1>1. inProgress[a] \in Nat /\ inProgress[a] <= Stages /\ inProgress[b] \in Nat /\ inProgress[b] <= Stages
  BY DEF BankInv
<1>2. CASE a = b
  BY <1>1, <1>2, Constants
<1>3. CASE a # b
  BY <1>1, <1>3
<1> QED
  BY <1>2, <1>3

LEMMA DeliverToBankPreserves ==
    ASSUME IInv, NEW b \in Banks, DeliverToBank(b) PROVE IInv'
<1>1. /\ pipe[b] # <<>> /\ b \notin blockedBanks
      /\ Accessed(b, <<Head(pipe[b])>>)
      /\ pipe' = [pipe EXCEPT ![b] = Tail(@)]
      /\ inProgress' = [inProgress EXCEPT ![b] = @ - 1]
      /\ blockedBanks' = blockedBanks \/ blockedBanks' = blockedBanks \cup {b}
      /\ UNCHANGED <<cacheVars, queueVars, buffer, backVars>>
  BY DEF DeliverToBank
<1>2. BankInv
  BY DEF IInv
<1>3. /\ Tail(pipe[b]) \in Seq(Transfer) /\ Len(Tail(pipe[b])) = Len(pipe[b]) - 1
      /\ Head(pipe[b]) \in Transfer
      /\ Len(pipe[b]) \in Nat /\ Len(pipe[b]) >= 1 /\ Len(buffer[b]) \in Nat
      /\ inProgress[b] = Len(pipe[b]) + Len(buffer[b])
  BY <1>1, <1>2, Delivers
<1>4. serving' \in [Banks -> [Interfaces -> Nat]]
  <2>1. <<Head(pipe[b])>> \in Seq(Transfer)
    BY <1>3
  <2> QED
    BY <1>1, <1>2, <2>1, AccessedType DEF BankInv
<1>5. /\ pipe'[b] = Tail(pipe[b]) /\ inProgress'[b] = inProgress[b] - 1
      /\ \A a \in Banks \ {b} : pipe'[a] = pipe[a] /\ inProgress'[a] = inProgress[a]
      /\ pipe' \in [Banks -> Seq(Transfer)]
      /\ buffer' = buffer
  BY <1>1, <1>2, <1>3 DEF BankInv
<1>6. Len(pipe'[b]) = Len(pipe[b]) - 1
  BY <1>3, <1>5
<1>7. /\ inProgress'[b] = Len(pipe'[b]) + Len(buffer'[b])
      /\ inProgress'[b] \in Nat /\ inProgress'[b] <= inProgress[b]
  <2> DEFINE p == Len(pipe[b])
             q == Len(buffer[b])
             p2 == Len(pipe'[b])
  <2>1. p2 = p - 1 /\ p \in Nat /\ p >= 1 /\ q \in Nat /\ inProgress[b] = p + q /\ Len(buffer'[b]) = q
    BY <1>3, <1>5, <1>6
  <2> HIDE DEF p, q, p2
  <2>2. inProgress'[b] = p2 + q /\ p2 + q \in Nat /\ p2 + q <= inProgress[b]
    BY <1>5, <2>1
  <2> QED
    BY <2>1, <2>2 DEF p2
<1>8. inProgress' \in [Banks -> Nat]
  BY <1>1, <1>2, <1>5, <1>7 DEF BankInv
<1>9. \A a \in Banks : inProgress'[a] <= Stages
  BY <1>2, <1>5, <1>7, StillFits
<1>10. BankInv'
  BY <1>1, <1>2, <1>4, <1>5, <1>7, <1>8, <1>9 DEF BankInv, InProgressCounts
<1> QED
  BY <1>1, <1>10, CacheUntouched, QueueUntouched, PutOffUntouched, BackUntouched, EventUntouched
     DEF IInv, cacheVars, queueVars, backVars

LEMMA BankUnblocksPreserves ==
    ASSUME IInv, NEW b \in Banks, BankUnblocks(b) PROVE IInv'
<1>1. PICK n \in 0 .. Len(buffer[b]), again \in BOOLEAN :
        /\ IF again THEN n > 0 ELSE n = Len(buffer[b])
        /\ Accessed(b, SubSeq(buffer[b], 1, n))
        /\ buffer' = [buffer EXCEPT ![b] = SubSeq(@, n + 1, Len(@))]
        /\ inProgress' = [inProgress EXCEPT ![b] = @ - n]
        /\ blockedBanks' = IF again THEN blockedBanks ELSE blockedBanks \ {b}
  BY DEF BankUnblocks
<1>2. /\ b \in blockedBanks
      /\ UNCHANGED <<cacheVars, queueVars, pipe, backVars>>
  BY DEF BankUnblocks
<1>3. BankInv
  BY DEF IInv
<1> DEFINE s    == buffer[b]
           left == SubSeq(s, n + 1, Len(s))
<1>4. s \in Seq(Transfer) /\ Len(s) \in Nat /\ n \in Nat /\ n <= Len(s) /\ Len(pipe[b]) \in Nat
  BY <1>3, LenProperties DEF BankInv
<1>5. SubSeq(s, 1, n) \in Seq(Transfer)
  <2>1. \A j \in 1 .. n : s[j] \in Transfer
    BY <1>4, ElementOfSeq
  <2> QED
    BY <1>4, <2>1, SubSeqProperties
<1>6. /\ left \in Seq(Transfer) /\ Len(left) = Len(s) - n
      /\ n = Len(s) => left = <<>>
  <2>1. \A j \in n + 1 .. Len(s) : s[j] \in Transfer
    BY <1>4, ElementOfSeq
  <2>2. left \in Seq(Transfer) /\ Len(left) = IF n + 1 <= Len(s) THEN Len(s) - (n + 1) + 1 ELSE 0
    BY <1>4, <2>1, SubSeqProperties
  <2>3. Len(left) = Len(s) - n
    BY <1>4, <2>2
  <2> QED
    BY <2>2, <2>3, <1>4, EmptySeq
<1> HIDE DEF left
<1>7. serving' \in [Banks -> [Interfaces -> Nat]]
  BY <1>1, <1>3, <1>5, AccessedType DEF BankInv
<1>8. /\ buffer'[b] = left /\ inProgress'[b] = inProgress[b] - n
      /\ \A a \in Banks \ {b} : buffer'[a] = buffer[a] /\ inProgress'[a] = inProgress[a]
      /\ buffer' \in [Banks -> Seq(Transfer)] /\ pipe' = pipe
  BY <1>1, <1>2, <1>3, <1>6 DEF BankInv, left
<1>9. /\ inProgress'[b] = Len(pipe'[b]) + Len(buffer'[b])
      /\ inProgress'[b] \in Nat /\ inProgress'[b] <= inProgress[b]
  <2> DEFINE p == Len(pipe[b])
             q == Len(s)
             q2 == Len(left)
  <2>1. p \in Nat /\ q \in Nat /\ n \in Nat /\ n <= q /\ q2 = q - n /\ inProgress[b] = p + q
    BY <1>3, <1>4, <1>6 DEF BankInv, InProgressCounts
  <2>2. Len(pipe'[b]) = p /\ Len(buffer'[b]) = q2
    BY <1>8
  <2> HIDE DEF p, q, q2
  <2>3. inProgress'[b] = p + q2 /\ p + q2 \in Nat /\ p + q2 <= inProgress[b]
    BY <1>8, <2>1
  <2> QED
    BY <2>2, <2>3
<1>10. inProgress' \in [Banks -> Nat]
  BY <1>1, <1>3, <1>8, <1>9 DEF BankInv
<1>11. \A a \in Banks : inProgress'[a] <= Stages
  BY <1>3, <1>8, <1>9, StillFits
<1>12. \A a \in Banks : a \notin blockedBanks' => buffer'[a] = <<>>
  BY <1>1, <1>2, <1>3, <1>6, <1>8 DEF BankInv
<1>13. InProgressCounts'
  BY <1>3, <1>8, <1>9 DEF BankInv, InProgressCounts
<1>14. BankInv'
  BY <1>1, <1>3, <1>7, <1>8, <1>10, <1>11, <1>12, <1>13 DEF BankInv
<1> QED
  BY <1>2, <1>14, CacheUntouched, QueueUntouched, PutOffUntouched, BackUntouched, EventUntouched
     DEF IInv, cacheVars, queueVars, backVars

LEMMA BankBlocksPreserves ==
    ASSUME IInv, NEW b \in Banks, BankBlocks(b) PROVE IInv'
<1>1. BankInv'
  BY DEF BankBlocks, IInv, BankInv, InProgressCounts
<1> QED
  BY <1>1, CacheUntouched, QueueUntouched, PutOffUntouched, BackUntouched, EventUntouched
     DEF BankBlocks, IInv, cacheVars, queueVars, backVars

LEMMA BankRespondsPreserves ==
    ASSUME IInv, NEW b \in Banks, NEW i \in Interfaces, BankResponds(b, i) PROVE IInv'
<1> DEFINE r == [to |-> i, age |-> 0]
<1>1. /\ serving[b][i] > 0
      /\ serving' = [serving EXCEPT ![b][i] = @ - 1]
      /\ responses' = [responses EXCEPT ![b] = Append(@, r)]
      /\ arbScheduled' = TRUE
      /\ UNCHANGED <<cacheVars, requests, blockedLocal, pipe, inProgress, blockedBanks, buffer, back>>
  BY DEF BankResponds
<1>2. r \in Response
  BY DEF Response
<1> HIDE DEF r
<1>3. /\ Append(responses[b], r) \in Seq(Response) /\ Append(responses[b], r) # <<>>
  BY <1>2, AppendProperties DEF IInv, BackInv
<1>4. responses' \in [Banks -> Seq(Response)] /\ responses'[b] # <<>>
  BY <1>1, <1>3 DEF IInv, BackInv
<1>5. BackInv'
  BY <1>1, <1>4 DEF IInv, BackInv
<1>6. EventInv'
  BY <1>1, <1>4 DEF EventInv, WorkIsScheduled, MoreToDo
<1>7. serving' \in [Banks -> [Interfaces -> Nat]]
  BY <1>1 DEF IInv, BankInv
<1>8. BankInv'
  BY <1>1, <1>7 DEF IInv, BankInv, InProgressCounts
<1> QED
  BY <1>1, <1>5, <1>6, <1>8, CacheUntouched, QueueUntouched, PutOffUntouched
     DEF IInv, cacheVars

LEMMA DeliverToCachePreserves ==
    ASSUME IInv, NEW c \in Cpus, DeliverToCache(c) PROVE IInv'
<1>1. /\ back[c] # <<>> /\ back' = [back EXCEPT ![c] = Tail(@)]
      /\ UNCHANGED <<cacheVars, queueVars, bankVars, responses>>
  BY DEF DeliverToCache
<1>2. Tail(back[c]) \in Seq(Interfaces)
  BY <1>1, HeadTailProperties DEF IInv, BackInv
<1>3. BackInv'
  BY <1>1, <1>2 DEF IInv, BackInv
<1> QED
  BY <1>1, <1>3, CacheUntouched, QueueUntouched, PutOffUntouched, BankUntouched, EventUntouched
     DEF IInv, cacheVars, queueVars

-----------------------------------------------------------------------------
(* The arbitration.                                                        *)

LEMMA GrantedRequest ==
    ASSUME QueueInv, NEW c \in RequestGranted
    PROVE  /\ c \in Cpus /\ requests[c] # <<>> /\ Head(requests[c]) \in Request
           /\ inProgress[Head(requests[c]).bank] < Stages
<1>1. c \in Cpus /\ requests[c] # <<>> /\ inProgress[Head(requests[c]).bank] < Stages
  BY DEF RequestGranted
<1> QED
  BY <1>1, HeadTailProperties DEF QueueInv

LEMMA GrantedResponse ==
    ASSUME BackInv, NEW b \in ResponseGranted
    PROVE  b \in Banks /\ responses[b] # <<>> /\ Head(responses[b]) \in Response
<1>1. b \in Banks /\ responses[b] # <<>>
  BY DEF ResponseGranted
<1> QED
  BY <1>1, HeadTailProperties DEF BackInv

LEMMA PoppedKeeps ==
    ASSUME NEW E, NEW Q, NEW queues \in [Q -> Seq(E)], NEW G \in SUBSET Q,
           \A q \in G : queues[q] # <<>>
    PROVE  /\ Popped(queues, G) \in [Q -> Seq(E)]
           /\ \A q \in Q : /\ Len(queues[q]) \in Nat
                           /\ q \notin G => Popped(queues, G)[q] = queues[q]
                           /\ q \in G => Len(Popped(queues, G)[q]) = Len(queues[q]) - 1
<1>1. Popped(queues, G) = [q \in Q |-> IF q \in G THEN Tail(queues[q]) ELSE queues[q]]
  BY DEF Popped
<1>2. ASSUME NEW q \in Q
      PROVE  /\ Popped(queues, G)[q] \in Seq(E)
             /\ Len(queues[q]) \in Nat
             /\ q \notin G => Popped(queues, G)[q] = queues[q]
             /\ q \in G => Len(Popped(queues, G)[q]) = Len(queues[q]) - 1
  <2>1. queues[q] \in Seq(E) /\ Len(queues[q]) \in Nat
    BY LenProperties
  <2>2. CASE q \in G
    BY <1>1, <2>1, <2>2, HeadTailProperties
  <2>3. CASE q \notin G
    BY <1>1, <2>1, <2>3
  <2> QED
    BY <2>2, <2>3
<1> QED
  BY <1>1, <1>2

\* The pipelines: each bank gets one request at most, and only if it has room.
LEMMA TransmitKeepsBanks ==
    ASSUME IInv, Transmit, UNCHANGED <<blockedBanks, buffer, serving>>
    PROVE  BankInv'
<1> DEFINE G(b) == \E c \in RequestGranted : Head(requests[c]).bank = b
           ch(b) == CHOOSE c \in RequestGranted : Head(requests[c]).bank = b
           tr(b) == [from |-> Head(requests[ch(b)]).from, cmd |-> Head(requests[ch(b)]).cmd]
<1>0. BankInv /\ QueueInv
  BY DEF IInv
<1>1. /\ pipe' = [b \in Banks |-> IF G(b) THEN Append(pipe[b], tr(b)) ELSE pipe[b]]
      /\ inProgress' = [b \in Banks |-> IF G(b) THEN inProgress[b] + 1 ELSE inProgress[b]]
  BY DEF Transmit
<1>2. ASSUME NEW b \in Banks, G(b) PROVE tr(b) \in Transfer /\ inProgress[b] < Stages
  <2>1. ch(b) \in RequestGranted /\ Head(requests[ch(b)]).bank = b
    BY <1>2
  <2>2. Head(requests[ch(b)]) \in Request /\ inProgress[b] < Stages
    BY <1>0, <2>1, GrantedRequest
  <2> HIDE DEF ch
  <2> QED
    BY <2>2 DEF Request, Transfer
<1> HIDE DEF G, tr
<1>3. ASSUME NEW b \in Banks
      PROVE  /\ pipe'[b] \in Seq(Transfer) /\ inProgress'[b] \in Nat /\ inProgress'[b] <= Stages
             /\ inProgress'[b] = Len(pipe'[b]) + Len(buffer[b])
  <2>1. /\ pipe[b] \in Seq(Transfer) /\ Len(pipe[b]) \in Nat /\ Len(buffer[b]) \in Nat
        /\ inProgress[b] = Len(pipe[b]) + Len(buffer[b]) /\ inProgress[b] <= Stages
    BY <1>0, LenProperties DEF BankInv, InProgressCounts
  <2>2. CASE G(b)
    <3>1. pipe'[b] = Append(pipe[b], tr(b)) /\ inProgress'[b] = inProgress[b] + 1
      BY <1>1, <2>2
    <3>2. Append(pipe[b], tr(b)) \in Seq(Transfer) /\ Len(Append(pipe[b], tr(b))) = Len(pipe[b]) + 1
      BY <1>2, <2>1, <2>2, AppendProperties
    <3> DEFINE p == Len(pipe[b])
               q == Len(buffer[b])
               p2 == Len(pipe'[b])
    <3>3. p \in Nat /\ q \in Nat /\ p2 = p + 1 /\ inProgress[b] = p + q
      BY <2>1, <3>1, <3>2
    <3>4. inProgress[b] < Stages
      BY <1>2, <2>2
    <3> HIDE DEF p, q, p2
    <3>5. inProgress'[b] = p2 + q /\ inProgress'[b] \in Nat /\ inProgress'[b] <= Stages
      BY <3>1, <3>3, <3>4, Constants
    <3> QED
      BY <3>1, <3>2, <3>5 DEF p2, q
  <2>3. CASE ~G(b)
    <3>1. pipe'[b] = pipe[b] /\ inProgress'[b] = inProgress[b]
      BY <1>1, <2>3
    <3>2. inProgress[b] \in Nat
      BY <1>0 DEF BankInv
    <3> QED
      BY <2>1, <3>1, <3>2
  <2> QED
    BY <2>2, <2>3
<1>4. pipe' \in [Banks -> Seq(Transfer)] /\ inProgress' \in [Banks -> Nat]
  BY <1>1, <1>3
<1>5. InProgressCounts'
  BY <1>3 DEF InProgressCounts
<1> QED
  BY <1>0, <1>3, <1>4, <1>5 DEF BankInv

\* The way back: each processor gets one response at most.
LEMMA TransmitKeepsBack ==
    ASSUME IInv, Transmit, responses' = Popped(responses, ResponseGranted)
    PROVE  BackInv'
<1> DEFINE G(c) == \E b \in ResponseGranted : Receiver(b) = c
           ch(c) == CHOOSE b \in ResponseGranted : Receiver(b) = c
           to(c) == Head(responses[ch(c)]).to
<1>0. BackInv
  BY DEF IInv
<1>1. back' = [c \in Cpus |-> IF G(c) THEN Append(back[c], to(c)) ELSE back[c]]
  BY DEF Transmit
<1>2. ASSUME NEW c \in Cpus, G(c) PROVE to(c) \in Interfaces
  <2>1. ch(c) \in ResponseGranted
    BY <1>2
  <2>2. Head(responses[ch(c)]) \in Response
    BY <1>0, <2>1, GrantedResponse
  <2> HIDE DEF ch
  <2> QED
    BY <2>2 DEF Response
<1> HIDE DEF G, to
<1>3. \A c \in Cpus : back[c] \in Seq(Interfaces)
  BY <1>0 DEF BackInv
<1>4. \A c \in Cpus : G(c) => Append(back[c], to(c)) \in Seq(Interfaces)
  BY <1>2, <1>3, AppendProperties
<1>5. back' \in [Cpus -> Seq(Interfaces)]
  BY <1>1, <1>3, <1>4
<1>6. ResponseGranted \in SUBSET Banks /\ \A b \in ResponseGranted : responses[b] # <<>>
  BY <1>0, GrantedResponse
<1>7. responses' \in [Banks -> Seq(Response)]
  BY <1>0, <1>6, PoppedKeeps DEF BackInv
<1> QED
  BY <1>5, <1>7 DEF BackInv

\* What the arbitration leaves in the queues, frees and refills.
Remaining == Popped(requests, RequestGranted)
Freed == Unblocked(Remaining)
Room == [c \in Freed |-> QueueSize - Len(Remaining[c])]

\* The first part: what is left of the queues.
RemainingInv ==
    /\ Remaining \in [Cpus -> Seq(Request)]
    /\ \A c \in Cpus : Len(Remaining[c]) \in Nat /\ Len(Remaining[c]) <= QueueSize
    /\ Freed \subseteq blockedLocal /\ Freed \subseteq Cpus
    /\ \A c \in Freed : Len(Remaining[c]) < QueueSize
    /\ \A c \in blockedLocal \ Freed : Remaining[c] # <<>>
    /\ \A c \in Cpus : Len(Remaining[c]) = QueueSize => c \in blockedLocal

LEMMA RemainingHolds ==
    ASSUME QueueInv PROVE RemainingInv
<1> USE Constants
<1>1. RequestGranted \in SUBSET Cpus /\ \A c \in RequestGranted : requests[c] # <<>>
  BY GrantedRequest
<1>2. /\ Remaining \in [Cpus -> Seq(Request)]
      /\ \A c \in Cpus : /\ Len(requests[c]) \in Nat
                         /\ c \notin RequestGranted => Remaining[c] = requests[c]
                         /\ c \in RequestGranted => Len(Remaining[c]) = Len(requests[c]) - 1
  <2>1. requests \in [Cpus -> Seq(Request)]
    BY DEF QueueInv
  <2> QED
    BY <1>1, <2>1, PoppedKeeps DEF Remaining
<1>3. \A c \in Cpus : Len(Remaining[c]) \in Nat
  BY <1>2, LenProperties
<1>4. \A c \in Cpus : /\ Len(requests[c]) <= QueueSize
                      /\ Len(requests[c]) = QueueSize => c \in blockedLocal
  BY DEF QueueInv, LocalQueueFits
<1>5. \A c \in Freed : /\ c \in blockedLocal
                       /\ \/ c \in RequestGranted /\ Len(requests[c]) < QueueSize
                          \/ Len(Remaining[c]) < QueueSize
  BY DEF Freed, Unblocked
<1>6. \A c \in blockedLocal : c \in RequestGranted /\ Len(requests[c]) < QueueSize => c \in Freed
  BY DEF Freed, Unblocked
<1>7. blockedLocal \subseteq Cpus /\ \A c \in blockedLocal : requests[c] # <<>>
  BY DEF QueueInv
<1> HIDE DEF Remaining, Freed
<1>8. \A c \in Cpus : Len(Remaining[c]) <= QueueSize /\ (Len(Remaining[c]) = QueueSize => c \in blockedLocal)
  BY <1>2, <1>3, <1>4
<1>9. \A c \in Freed : Len(Remaining[c]) < QueueSize
  BY <1>2, <1>3, <1>5, <1>7
<1>10. ASSUME NEW c \in blockedLocal, c \notin Freed PROVE Remaining[c] # <<>>
  <2>1. CASE c \in RequestGranted
    <3>1. Len(requests[c]) \in Nat /\ ~(Len(requests[c]) < QueueSize) /\ Len(Remaining[c]) = Len(requests[c]) - 1
      BY <1>2, <1>6, <1>7, <1>10, <2>1
    <3> DEFINE n == Len(requests[c])
    <3>2. n \in Nat /\ ~(n < QueueSize) /\ Len(Remaining[c]) = n - 1
      BY <3>1
    <3> HIDE DEF n
    <3>3. n - 1 # 0
      BY <3>2
    <3>4. Len(Remaining[c]) # 0
      BY <3>2, <3>3
    <3> QED
      BY <3>4, EmptySeq
  <2>2. CASE c \notin RequestGranted
    BY <1>2, <1>7, <2>2
  <2> QED
    BY <2>1, <2>2
<1> QED
  BY <1>2, <1>3, <1>5, <1>7, <1>8, <1>9, <1>10 DEF RemainingInv

\* The second part: sent fills the room it is given, kept is still put off.
Refilled(sent, kept) ==
    /\ \A c \in Freed : sent[c] \in RetrievableBy(c, Room[c]) /\ Retrieves(c, Room[c], sent[c], kept)
    /\ \A i \in Interfaces : CpuOf[i] \notin Freed => kept[i] = notRetrieved[i]
    /\ kept \in [Interfaces -> Nat]
    /\ notRetrieved' = kept
    /\ wants' = [i \in Interfaces |-> wants[i] - IF CpuOf[i] \in Freed THEN From(sent[CpuOf[i]], i) ELSE 0]
    /\ requests' = [c \in Cpus |-> IF c \in Freed THEN Remaining[c] \o sent[c] ELSE Remaining[c]]
    /\ blockedLocal' = (blockedLocal \ Freed) \cup Filled(requests')

LEMMA ArbitrateRefills ==
    ASSUME Arbitrate PROVE \E sent, kept : Refilled(sent, kept)
<1> DEFINE N == Max({notRetrieved[i] : i \in Interfaces})
<1>1. PICK sent \in [Freed -> UNION {RetrievableBy(c, Room[c]) : c \in Freed}],
           kept \in [Interfaces -> 0 .. N] :
         /\ \A c \in Freed :
              sent[c] \in RetrievableBy(c, Room[c]) /\ Retrieves(c, Room[c], sent[c], kept)
         /\ \A i \in Interfaces : CpuOf[i] \notin Freed => kept[i] = notRetrieved[i]
         /\ notRetrieved' = kept
         /\ wants' = [i \in Interfaces |->
              wants[i] - IF CpuOf[i] \in Freed THEN From(sent[CpuOf[i]], i) ELSE 0]
         /\ requests' = [c \in Cpus |-> IF c \in Freed THEN Remaining[c] \o sent[c] ELSE Remaining[c]]
         /\ blockedLocal' = (blockedLocal \ Freed) \cup Filled(requests')
  BY DEF Arbitrate, Remaining, Freed, Room
<1> HIDE DEF N
<1>2. \A n \in 0 .. N : n \in Nat
  OBVIOUS
<1>3. kept \in [Interfaces -> Nat]
  BY <1>1, <1>2
<1>4. Refilled(sent, kept)
  BY <1>1, <1>3 DEF Refilled
<1> QED
  BY <1>4

\* The requests that are fetched fit.
LEMMA SentFits ==
    ASSUME RemainingInv, NEW c \in Freed, NEW s \in RetrievableBy(c, Room[c])
    PROVE  /\ s \in Seq(Request) /\ Len(s) \in Nat
           /\ Len(Remaining[c]) + Len(s) <= QueueSize
           /\ Len(s) = Room[c] => Len(Remaining[c]) + Len(s) = QueueSize
<1> DEFINE R == [from : InterfacesOf(c), bank : Banks, cmd : {Read, Writeback}, age : {0}]
<1>1. R \subseteq Request
  BY DEF InterfacesOf, Request
<1> HIDE DEF R
<1>2. PICK k \in 0 .. Room[c] : s \in [1 .. k -> R]
  BY DEF RetrievableBy, SeqOf, R
<1>3. Room[c] = QueueSize - Len(Remaining[c]) /\ Len(Remaining[c]) \in Nat /\ Len(Remaining[c]) < QueueSize
  <2>1. c \in Cpus /\ Len(Remaining[c]) < QueueSize /\ Len(Remaining[c]) \in Nat
    BY DEF RemainingInv
  <2> QED
    BY <2>1 DEF Room
<1>4. k \in Nat
  BY <1>2, <1>3, Constants
<1>5. s \in Seq(Request) /\ Len(s) = k
  BY <1>1, <1>2, <1>4
<1>6. Room[c] \in Int /\ k <= Room[c]
  BY <1>2, <1>3, Constants
<1> DEFINE l == Len(Remaining[c])
<1>7. l \in Nat /\ Room[c] = QueueSize - l
  BY <1>3
<1> HIDE DEF l
<1>8. l + k <= QueueSize /\ (k = Room[c] => l + k = QueueSize)
  BY <1>4, <1>6, <1>7, Constants
<1> QED
  BY <1>4, <1>5, <1>8 DEF l

LEMMA FullIsFilled ==
    ASSUME NEW queues, NEW c \in Cpus, Len(queues[c]) = QueueSize
    PROVE  c \in Filled(queues)
<1> DEFINE n == Len(queues[c])
<1>1. n = QueueSize
  OBVIOUS
<1> HIDE DEF n
<1>2. n >= QueueSize
  BY <1>1, Constants
<1> QED
  BY <1>2 DEF Filled, n

LEMMA ArbitrateKeepsQueues ==
    ASSUME QueueInv, NEW sent, NEW kept, Refilled(sent, kept) PROVE QueueInv'
<1>1. RemainingInv
  BY RemainingHolds
<1>2. ASSUME NEW c \in Freed
      PROVE  /\ Remaining[c] \o sent[c] \in Seq(Request)
             /\ Len(Remaining[c] \o sent[c]) <= QueueSize
  <2>1. sent[c] \in RetrievableBy(c, Room[c])
    BY DEF Refilled
  <2>2. sent[c] \in Seq(Request) /\ Len(Remaining[c]) + Len(sent[c]) <= QueueSize
    BY <1>1, <2>1, SentFits
  <2>3. Remaining[c] \in Seq(Request)
    BY <1>1 DEF RemainingInv, QueueInv
  <2> QED
    BY <2>2, <2>3, ConcatProperties
<1>3. /\ requests' = [c \in Cpus |-> IF c \in Freed THEN Remaining[c] \o sent[c] ELSE Remaining[c]]
      /\ blockedLocal' = (blockedLocal \ Freed) \cup Filled(requests')
  BY DEF Refilled
<1>4. requests' \in [Cpus -> Seq(Request)]
  BY <1>1, <1>2, <1>3 DEF RemainingInv
<1>5. blockedLocal' \subseteq Cpus
  BY <1>3 DEF QueueInv, Filled
<1>6. \A c \in Cpus : Len(requests'[c]) <= QueueSize
  BY <1>1, <1>2, <1>3 DEF RemainingInv
<1>7. \A c \in Cpus : Len(requests'[c]) = QueueSize => c \in blockedLocal'
  <2>1. Filled(requests') \subseteq blockedLocal'
    BY <1>3
  <2> QED
    BY <2>1, FullIsFilled
<1>8. ASSUME NEW c \in blockedLocal' PROVE requests'[c] # <<>>
  <2>1. CASE c \in Filled(requests')
    BY <2>1, EmptySeq, Constants DEF Filled
  <2>2. CASE c \in blockedLocal \ Freed
    BY <1>1, <1>3, <2>2 DEF RemainingInv, QueueInv
  <2> QED
    BY <1>3, <2>1, <2>2
<1> QED
  BY <1>4, <1>5, <1>6, <1>7, <1>8 DEF QueueInv, LocalQueueFits

\* A processor with a retrieve event still put off has a full queue again.
LEMMA ArbitrateKeepsPutOff ==
    ASSUME QueueInv, PutOffInv, NEW sent, NEW kept, Refilled(sent, kept) PROVE PutOffInv'
<1>1. RemainingInv
  BY RemainingHolds
<1>2. /\ requests' = [c \in Cpus |-> IF c \in Freed THEN Remaining[c] \o sent[c] ELSE Remaining[c]]
      /\ blockedLocal' = (blockedLocal \ Freed) \cup Filled(requests')
      /\ notRetrieved' = kept /\ kept \in [Interfaces -> Nat]
  BY DEF Refilled
<1> SUFFICES ASSUME NEW i \in Interfaces, kept[i] > 0 PROVE CpuOf[i] \in blockedLocal'
  BY <1>2 DEF PutOffInv
<1> DEFINE c == CpuOf[i]
<1>3. CASE c \notin Freed
  BY <1>2, <1>3 DEF Refilled, PutOffInv
<1>4. CASE c \in Freed
  <2>1. sent[c] \in RetrievableBy(c, Room[c]) /\ Retrieves(c, Room[c], sent[c], kept)
    BY <1>4 DEF Refilled
  <2>2. i \in InterfacesOf(c)
    BY DEF InterfacesOf
  <2>3. kept[i] # 0
    BY <1>2
  <2>4. Len(sent[c]) = Room[c]
    BY <2>1, <2>2, <2>3 DEF Retrieves
  <2>5. /\ sent[c] \in Seq(Request) /\ Len(Remaining[c]) + Len(sent[c]) = QueueSize
        /\ Remaining[c] \in Seq(Request) /\ c \in Cpus
    <3>1. c \in Cpus
      BY Constants
    <3> HIDE DEF c
    <3> QED
      BY <1>1, <1>4, <2>1, <2>4, <3>1, SentFits DEF RemainingInv
  <2>6. Len(requests'[c]) = QueueSize
    BY <1>2, <1>4, <2>5, ConcatProperties
  <2> QED
    BY <1>2, <2>5, <2>6, FullIsFilled
<1> QED
  BY <1>3, <1>4

\* A retrieve event is used up for a request that is fetched.
LEMMA ArbitrateKeepsCaches ==
    ASSUME CacheInv, QueueInv, NEW sent, NEW kept, Refilled(sent, kept), events' = events
    PROVE  CacheInv'
<1>1. RemainingInv
  BY RemainingHolds
<1>2. /\ notRetrieved' = kept /\ kept \in [Interfaces -> Nat]
      /\ wants' = [i \in Interfaces |-> wants[i] - IF CpuOf[i] \in Freed THEN From(sent[CpuOf[i]], i) ELSE 0]
  BY DEF Refilled
<1>3. ASSUME NEW i \in Interfaces
      PROVE  wants'[i] \in Nat /\ wants'[i] <= events[i] + kept[i]
  <2>1. /\ wants[i] \in Nat /\ events[i] \in Nat /\ notRetrieved[i] \in Nat /\ kept[i] \in Nat
        /\ wants[i] <= events[i] + notRetrieved[i]
    BY <1>2 DEF CacheInv, EveryWantHasEvent
  <2>2. CASE CpuOf[i] \notin Freed
    <3>1. wants'[i] = wants[i] - 0 /\ kept[i] = notRetrieved[i]
      BY <1>2, <2>2 DEF Refilled
    <3> QED
      BY <2>1, <3>1
  <2>3. CASE CpuOf[i] \in Freed
    <3> DEFINE f == From(sent[CpuOf[i]], i)
    <3>1. Retrieves(CpuOf[i], Room[CpuOf[i]], sent[CpuOf[i]], kept) /\ i \in InterfacesOf(CpuOf[i])
      BY <2>3 DEF Refilled, InterfacesOf
    <3>2. kept[i] <= notRetrieved[i] /\ f = Min({notRetrieved[i] - kept[i], wants[i]})
      BY <3>1 DEF Retrieves
    <3>3. wants'[i] = wants[i] - f
      BY <1>2, <2>3
    <3> HIDE DEF f
    <3>4. f = IF notRetrieved[i] - kept[i] <= wants[i] THEN notRetrieved[i] - kept[i] ELSE wants[i]
      BY <2>1, <3>2, MinOfTwo
    <3> QED
      BY <2>1, <3>2, <3>3, <3>4
  <2> QED
    BY <2>2, <2>3
<1>4. wants' \in [Interfaces -> Nat]
  BY <1>2, <1>3
<1> QED
  BY <1>2, <1>3, <1>4 DEF CacheInv, EveryWantHasEvent

LEMMA ArbitratePreserves ==
    ASSUME IInv, Arbitrate PROVE IInv'
<1>1. /\ Transmit /\ responses' = Popped(responses, ResponseGranted)
      /\ arbScheduled' = MoreToDo(requests', responses')
      /\ UNCHANGED <<events, blockedBanks, buffer, serving>>
  BY DEF Arbitrate
<1>2. PICK sent, kept : Refilled(sent, kept)
  BY ArbitrateRefills
<1>3. CacheInv /\ QueueInv /\ PutOffInv
  BY DEF IInv
<1>4. CacheInv' /\ QueueInv' /\ PutOffInv'
  BY <1>1, <1>2, <1>3, ArbitrateKeepsQueues, ArbitrateKeepsPutOff, ArbitrateKeepsCaches
<1>5. BankInv' /\ BackInv'
  BY <1>1, TransmitKeepsBanks, TransmitKeepsBack
<1>6. EventInv'
  BY <1>1 DEF EventInv, WorkIsScheduled, MoreToDo
<1> QED
  BY <1>4, <1>5, <1>6 DEF IInv

-----------------------------------------------------------------------------
(* The theorems.                                                           *)

LEMMA NextPreserves == IInv /\ [Next]_vars => IInv'
<1> SUFFICES ASSUME IInv, [Next]_vars PROVE IInv'
  OBVIOUS
<1>1. ASSUME NEW i \in Interfaces, CacheRequests(i) \/ CacheSquashes(i) \/ Retrieve(i)
      PROVE  IInv'
  BY <1>1, CacheRequestsPreserves, CacheSquashesPreserves, RetrieveLaterPreserves,
     RetrieveNothingPreserves, RetrieveRequestPreserves DEF Retrieve
<1>2. ASSUME Arbitrate \/ Tick PROVE IInv'
  BY <1>2, ArbitratePreserves, TickPreserves
<1>3. ASSUME NEW b \in Banks, Deliver(b) \/ BankUnblocks(b) \/ BankBlocks(b)
      PROVE  IInv'
  BY <1>3, DeliverToBufferPreserves, DeliverToBankPreserves, BankUnblocksPreserves,
     BankBlocksPreserves DEF Deliver
<1>4. ASSUME NEW b \in Banks, NEW i \in Interfaces, BankResponds(b, i) PROVE IInv'
  BY <1>4, BankRespondsPreserves
<1>5. ASSUME NEW c \in Cpus, DeliverToCache(c) PROVE IInv'
  BY <1>5, DeliverToCachePreserves
<1>6. ASSUME UNCHANGED vars PROVE IInv'
  BY <1>6, CacheUntouched, QueueUntouched, PutOffUntouched, BankUntouched, BackUntouched,
     EventUntouched DEF IInv, vars, cacheVars, queueVars, bankVars, backVars
<1> QED
  BY <1>1, <1>2, <1>3, <1>4, <1>5, <1>6 DEF Next

LEMMA Inductive == Spec => []IInv
BY InitEstablishes, NextPreserves, PTL DEF Spec

\* The variables of Crossbar keep their types: in particular requestsInProgress
\* and the retrieve events put off never become negative.
THEOREM TypeCorrect == Spec => []TypeOK
<1>1. IInv => TypeOK
  BY DEF IInv, CacheInv, QueueInv, BankInv, BackInv, EventInv, TypeOK
<1> QED
  BY Inductive, <1>1, PTL

\* requestsInProgress of a bank counts its pipeline and its delivery buffer,
\* also when a bank blocks again while clearBlocked empties the buffer.
THEOREM CountsAreExact == Spec => []InProgressCounts
<1>1. IInv => InProgressCounts
  BY DEF IInv, BankInv
<1> QED
  BY Inductive, <1>1, PTL

\* A delivery buffer as long as the pipeline is enough, and it is empty when
\* its bank accepts requests (crossbar.cc:226).
THEOREM BufferSuffices == Spec => []BufferFits
<1>1. ASSUME BankInv, NEW b \in Banks PROVE Len(buffer[b]) <= Stages
  <2> DEFINE p == Len(pipe[b])
             q == Len(buffer[b])
  <2>1. p \in Nat /\ q \in Nat
    BY <1>1, LenProperties DEF BankInv
  <2>2. inProgress[b] = p + q /\ inProgress[b] <= Stages
    BY <1>1 DEF BankInv, InProgressCounts
  <2> HIDE DEF p, q
  <2>3. q <= Stages
    BY <2>1, <2>2, Constants
  <2> QED
    BY <2>3 DEF q
<1>2. IInv => BufferFits
  BY <1>1 DEF IInv, BankInv, BufferFits
<1> QED
  BY Inductive, <1>2, PTL

\* A queue of a processor never holds more than perEndPointQueueSize requests
\* and the processor is blocked while it is full.
THEOREM QueueSuffices == Spec => []LocalQueueFits
<1>1. IInv => LocalQueueFits
  BY DEF IInv, QueueInv
<1> QED
  BY Inductive, <1>1, PTL

\* crossbarArbEvent is scheduled exactly while something is queued.
THEOREM ArbitrationComes == Spec => []WorkIsScheduled
<1>1. IInv => WorkIsScheduled
  BY DEF IInv, EventInv
<1> QED
  BY Inductive, <1>1, PTL

\* A blocked processor has a request whose grant unblocks it, and only blocked
\* processors have retrieve events put off.  Of the size of the queue this uses
\* that a queue which was full is not empty after one grant.
THEOREM BlockedMoves == Spec => []BlockedQueueMoves
<1>1. IInv => BlockedQueueMoves
  BY DEF IInv, QueueInv, PutOffInv, BlockedQueueMoves
<1> QED
  BY Inductive, <1>1, PTL

\* No request in a cache is without a retrieve event that will fetch it.
THEOREM WantsHaveEvents == Spec => []EveryWantHasEvent
<1>1. IInv => EveryWantHasEvent
  BY DEF IInv, CacheInv
<1> QED
  BY Inductive, <1>1, PTL

-----------------------------------------------------------------------------
(* Whose entries are where: a queue holds the requests of its processor    *)
(* only, and what goes back to a processor is for its interfaces.          *)

RequestOf(c) == {r \in Request : CpuOf[r.from] = c}

OwnInv ==
    \A c \in Cpus :
        requests[c] \in Seq(RequestOf(c)) /\ back[c] \in Seq(InterfacesOf(c))

\* What ageing keeps of the entries of a queue.
AgedAlike(queues, q, aged) ==
    \A n \in DOMAIN queues[q] : \E a : aged[n] = [queues[q][n] EXCEPT !.age = a]

LEMMA AgedOnlyAges ==
    ASSUME NEW Q, NEW queues \in [Q -> Seq(Request) \cup Seq(Response)], NEW q \in Q
    PROVE  DOMAIN Aged(queues)[q] = DOMAIN queues[q] /\ AgedAlike(queues, q, Aged(queues)[q])
<1> DEFINE rank(e) == 1 + Cardinality({a \in Ages(queues) : a < e.age})
<1>1. Aged(queues)[q] = [n \in DOMAIN queues[q] |->
                            [queues[q][n] EXCEPT !.age = rank(queues[q][n])]]
  BY DEF Aged
<1> HIDE DEF rank
<1> QED
  BY <1>1 DEF AgedAlike

LEMMA AgedRequests ==
    ASSUME QueueInv, NEW c \in Cpus
    PROVE  /\ DOMAIN Aged(requests)[c] = DOMAIN requests[c]
           /\ \A n \in DOMAIN requests[c] :
                 /\ requests[c][n] \in Request
                 /\ Aged(requests)[c][n].from = requests[c][n].from
                 /\ Aged(requests)[c][n].bank = requests[c][n].bank
                 /\ Aged(requests)[c][n].cmd = requests[c][n].cmd
<1>1. requests \in [Cpus -> Seq(Request) \cup Seq(Response)] /\ requests[c] \in Seq(Request)
  BY DEF QueueInv
<1>2. DOMAIN Aged(requests)[c] = DOMAIN requests[c] /\ AgedAlike(requests, c, Aged(requests)[c])
  BY <1>1, AgedOnlyAges
<1>3. ASSUME NEW n \in DOMAIN requests[c]
      PROVE  /\ requests[c][n] \in Request
             /\ Aged(requests)[c][n].from = requests[c][n].from
             /\ Aged(requests)[c][n].bank = requests[c][n].bank
             /\ Aged(requests)[c][n].cmd = requests[c][n].cmd
  <2>1. requests[c][n] \in Request
    BY <1>1, ElementOfSeq, LenProperties
  <2>2. PICK a : Aged(requests)[c][n] = [requests[c][n] EXCEPT !.age = a]
    BY <1>2 DEF AgedAlike
  <2> QED
    BY <2>1, <2>2 DEF Request
<1> QED
  BY <1>2, <1>3

LEMMA AgedResponses ==
    ASSUME BackInv, NEW b \in Banks
    PROVE  /\ DOMAIN Aged(responses)[b] = DOMAIN responses[b]
           /\ \A n \in DOMAIN responses[b] :
                 /\ responses[b][n] \in Response
                 /\ Aged(responses)[b][n].to = responses[b][n].to
<1>1. responses \in [Banks -> Seq(Request) \cup Seq(Response)] /\ responses[b] \in Seq(Response)
  BY DEF BackInv
<1>2. DOMAIN Aged(responses)[b] = DOMAIN responses[b] /\ AgedAlike(responses, b, Aged(responses)[b])
  BY <1>1, AgedOnlyAges
<1>3. ASSUME NEW n \in DOMAIN responses[b]
      PROVE  /\ responses[b][n] \in Response
             /\ Aged(responses)[b][n].to = responses[b][n].to
  <2>1. responses[b][n] \in Response
    BY <1>1, ElementOfSeq, LenProperties
  <2>2. PICK a : Aged(responses)[b][n] = [responses[b][n] EXCEPT !.age = a]
    BY <1>2 DEF AgedAlike
  <2> QED
    BY <2>1, <2>2 DEF Response
<1> QED
  BY <1>2, <1>3

LEMMA RemainingIsOwn ==
    ASSUME QueueInv, OwnInv, NEW c \in Cpus
    PROVE  Remaining[c] \in Seq(RequestOf(c))
<1>1. /\ requests[c] \in Seq(RequestOf(c)) /\ requests \in [Cpus -> Seq(Request)]
      /\ c \in RequestGranted => requests[c] # <<>>
  BY GrantedRequest DEF OwnInv, QueueInv
<1>2. Remaining[c] = IF c \in RequestGranted THEN Tail(requests[c]) ELSE requests[c]
  BY <1>1 DEF Remaining, Popped
<1> QED
  BY <1>1, <1>2, HeadTailProperties

LEMMA SentIsOwn ==
    ASSUME RemainingInv, NEW c \in Freed, NEW s \in RetrievableBy(c, Room[c])
    PROVE  s \in Seq(RequestOf(c))
<1> DEFINE R == [from : InterfacesOf(c), bank : Banks, cmd : {Read, Writeback}, age : {0}]
<1>1. R \subseteq RequestOf(c)
  BY DEF InterfacesOf, RequestOf, Request
<1> HIDE DEF R
<1>2. PICK k \in 0 .. Room[c] : s \in [1 .. k -> R]
  BY DEF RetrievableBy, SeqOf, R
<1>3. c \in Cpus /\ Room[c] = QueueSize - Len(Remaining[c]) /\ Len(Remaining[c]) \in Nat
  BY DEF RemainingInv, Room
<1>4. k \in Nat
  BY <1>2, <1>3, Constants
<1> QED
  BY <1>1, <1>2, <1>4

LEMMA ArbitrateKeepsOwn ==
    ASSUME IInv, OwnInv, Arbitrate PROVE OwnInv'
<1>1. PICK sent, kept : Refilled(sent, kept)
  BY ArbitrateRefills
<1>2. QueueInv /\ BackInv /\ RemainingInv
  BY RemainingHolds DEF IInv
<1>3. ASSUME NEW c \in Cpus PROVE requests'[c] \in Seq(RequestOf(c))
  <2>1. Remaining[c] \in Seq(RequestOf(c))
    BY <1>2, RemainingIsOwn
  <2>2. c \in Freed => sent[c] \in Seq(RequestOf(c))
    BY <1>1, <1>2, SentIsOwn DEF Refilled
  <2>3. requests'[c] = IF c \in Freed THEN Remaining[c] \o sent[c] ELSE Remaining[c]
    BY <1>1 DEF Refilled
  <2> QED
    BY <2>1, <2>2, <2>3, ConcatProperties
<1>4. ASSUME NEW c \in Cpus PROVE back'[c] \in Seq(InterfacesOf(c))
  <2> DEFINE G == \E b \in ResponseGranted : Receiver(b) = c
             ch == CHOOSE b \in ResponseGranted : Receiver(b) = c
  <2>1. back'[c] = IF G THEN Append(back[c], Head(responses[ch]).to) ELSE back[c]
    BY DEF Arbitrate, Transmit
  <2>2. back[c] \in Seq(InterfacesOf(c))
    BY DEF OwnInv
  <2>3. CASE G
    <3>1. ch \in ResponseGranted /\ Receiver(ch) = c
      BY <2>3
    <3>2. Head(responses[ch]) \in Response
      BY <1>2, <3>1, GrantedResponse
    <3> HIDE DEF ch
    <3>3. Head(responses[ch]).to \in InterfacesOf(c)
      BY <3>1, <3>2 DEF Receiver, InterfacesOf, Response
    <3> QED
      BY <2>1, <2>2, <2>3, <3>3, AppendProperties
  <2>4. CASE ~G
    BY <2>1, <2>2, <2>4
  <2> QED
    BY <2>3, <2>4
<1> QED
  BY <1>3, <1>4 DEF OwnInv

LEMMA TickKeepsOwn ==
    ASSUME IInv, OwnInv, Tick PROVE OwnInv'
<1>1. back' = back /\ requests' = Aged(requests)
  BY DEF Tick
<1>2. QueueInv /\ BackInv
  BY DEF IInv
<1>3. /\ requests' \in [Cpus -> Seq(Request)]
      /\ \A c \in Cpus : Len(requests'[c]) = Len(requests[c])
  BY <1>1, <1>2, AgedKeeps, AgeableQueues DEF QueueInv
<1>4. ASSUME NEW c \in Cpus PROVE requests'[c] \in Seq(RequestOf(c))
  <2>1. requests'[c] \in Seq(Request) /\ requests[c] \in Seq(RequestOf(c))
    BY <1>3 DEF OwnInv
  <2>2. \A n \in 1 .. Len(requests'[c]) : requests'[c][n] \in Request /\ requests[c][n] \in RequestOf(c)
    BY <1>3, <2>1, ElementOfSeq
  <2>3. DOMAIN requests'[c] = 1 .. Len(requests'[c]) /\ DOMAIN requests[c] = 1 .. Len(requests'[c])
        /\ Len(requests'[c]) \in Nat
    BY <1>3, <2>1, LenProperties
  <2>4. \A n \in 1 .. Len(requests'[c]) : requests'[c][n].from = requests[c][n].from
    BY <1>1, <1>2, <2>3, AgedRequests
  <2>5. \A n \in 1 .. Len(requests'[c]) : requests'[c][n] \in RequestOf(c)
    BY <2>2, <2>4 DEF RequestOf
  <2>6. requests'[c] \in [1 .. Len(requests'[c]) -> RequestOf(c)]
    <3>1. requests'[c] = [n \in 1 .. Len(requests'[c]) |-> requests'[c][n]]
      BY <2>1, <2>3
    <3> QED
      BY <2>5, <3>1
  <2> QED
    BY <2>3, <2>6
<1> QED
  BY <1>1, <1>4 DEF OwnInv

LEMMA NextKeepsOwn == IInv /\ OwnInv /\ [Next]_vars => OwnInv'
<1> SUFFICES ASSUME IInv, OwnInv, [Next]_vars PROVE OwnInv'
  OBVIOUS
<1>1. ASSUME UNCHANGED <<requests, back>> PROVE OwnInv'
  BY <1>1 DEF OwnInv
<1>2. ASSUME NEW i \in Interfaces, RetrieveRequest(i) PROVE OwnInv'
  <2> DEFINE c == CpuOf[i]
  <2>1. PICK b \in Banks, cmd \in {Read, Writeback} :
         requests' = [requests EXCEPT ![c] =
                        Append(@, [from |-> i, bank |-> b, cmd |-> cmd, age |-> 0])]
    BY <1>2 DEF RetrieveRequest
  <2> DEFINE r == [from |-> i, bank |-> b, cmd |-> cmd, age |-> 0]
  <2>2. c \in Cpus /\ r \in RequestOf(c) /\ back' = back
    BY <1>2, Constants DEF RetrieveRequest, RequestOf, Request, backVars
  <2> HIDE DEF c, r
  <2>3. /\ requests'[c] = Append(requests[c], r)
        /\ \A d \in Cpus \ {c} : requests'[d] = requests[d]
    BY <2>1, <2>2 DEF IInv, QueueInv, r
  <2>4. requests'[c] \in Seq(RequestOf(c))
    BY <2>2, <2>3, AppendProperties DEF OwnInv
  <2> QED
    BY <2>2, <2>3, <2>4 DEF OwnInv
<1>3. ASSUME NEW c \in Cpus, DeliverToCache(c) PROVE OwnInv'
  <2>1. /\ back[c] # <<>> /\ back' = [back EXCEPT ![c] = Tail(@)] /\ requests' = requests
        /\ back \in [Cpus -> Seq(Interfaces)]
    BY <1>3 DEF DeliverToCache, queueVars, IInv, BackInv
  <2>2. Tail(back[c]) \in Seq(InterfacesOf(c))
    BY <2>1, HeadTailProperties DEF OwnInv
  <2> QED
    BY <2>1, <2>2 DEF OwnInv
<1>4. ASSUME NEW i \in Interfaces,
             CacheRequests(i) \/ CacheSquashes(i) \/ RetrieveLater(i) \/ RetrieveNothing(i)
      PROVE  OwnInv'
  BY <1>1, <1>4 DEF CacheRequests, CacheSquashes, RetrieveLater, RetrieveNothing, queueVars, backVars
<1>5. ASSUME NEW b \in Banks, Deliver(b) \/ BankUnblocks(b) \/ BankBlocks(b)
      PROVE  OwnInv'
  BY <1>1, <1>5 DEF Deliver, DeliverToBuffer, DeliverToBank, BankUnblocks, BankBlocks, queueVars, backVars
<1>6. ASSUME NEW b \in Banks, NEW i \in Interfaces, BankResponds(b, i) PROVE OwnInv'
  BY <1>1, <1>6 DEF BankResponds
<1>7. ASSUME UNCHANGED vars PROVE OwnInv'
  BY <1>1, <1>7 DEF vars, queueVars, backVars
<1> QED
  BY <1>2, <1>3, <1>4, <1>5, <1>6, <1>7, ArbitrateKeepsOwn, TickKeepsOwn DEF Next, Retrieve

LEMMA InitIsOwn == Init => OwnInv
BY DEF Init, OwnInv

-----------------------------------------------------------------------------
(* What is under way from a processor to a bank: s is in the buffer and    *)
(* the pipeline, q in the queue of the processor.                          *)

ForBank(b) == {r \in Request : r.bank = b}
OfCpu(c) == {t \in Transfer : CpuOf[t.from] = c}
Queued(q, b) == AsTransfers(ToBank(q, b))

LEMMA FromCpuConcat ==
    ASSUME NEW c, NEW s \in Seq(Transfer), NEW t \in Seq(Transfer)
    PROVE  /\ FromCpu(s, c) \in Seq(Transfer)
           /\ FromCpu(s \o t, c) = FromCpu(s, c) \o FromCpu(t, c)
<1>1. FromCpu(s, c) \in Seq(Transfer \cap OfCpu(c))
  BY OnlyFacts DEF FromCpu, OfCpu
<1>2. \A u \in Seq(Transfer \cap OfCpu(c)) : u \in Seq(Transfer)
  OBVIOUS
<1>3. FromCpu(s \o t, c) = FromCpu(s, c) \o FromCpu(t, c)
  <2>1. \A V : Only(s \o t, V) = Only(s, V) \o Only(t, V)
    BY OnlyConcat
  <2> QED
    BY <2>1, Zenon DEF FromCpu
<1> QED
  BY <1>1, <1>2, <1>3

LEMMA FromCpuOfOne ==
    ASSUME NEW c, NEW t \in Transfer
    PROVE  FromCpu(<<t>>, c) = IF CpuOf[t.from] = c THEN <<t>> ELSE <<>>
<1>1. FromCpu(<<t>>, c) = IF t \in OfCpu(c) THEN <<t>> ELSE <<>>
  BY OnlyOfOne, Zenon DEF FromCpu, OfCpu
<1> QED
  BY <1>1 DEF OfCpu

LEMMA AsTransfersIs ==
    ASSUME NEW s \in Seq(Request)
    PROVE  /\ AsTransfers(s) \in Seq(Transfer) /\ Len(AsTransfers(s)) = Len(s)
           /\ \A n \in 1 .. Len(s) : AsTransfers(s)[n] = Sent(s[n])
<1>1. DOMAIN s = 1 .. Len(s) /\ Len(s) \in Nat
  BY LenProperties
<1>2. \A n \in 1 .. Len(s) : s[n] \in Request /\ Sent(s[n]) \in Transfer
  <2>1. \A n \in 1 .. Len(s) : s[n] \in Request
    BY ElementOfSeq
  <2> QED
    BY <2>1 DEF Request, Transfer, Sent
<1>3. AsTransfers(s) = [n \in 1 .. Len(s) |-> Sent(s[n])]
  BY <1>1 DEF AsTransfers
<1>4. AsTransfers(s) \in [1 .. Len(s) -> Transfer]
  BY <1>2, <1>3
<1> QED
  BY <1>1, <1>3, <1>4

LEMMA AsTransfersConcat ==
    ASSUME NEW s \in Seq(Request), NEW t \in Seq(Request)
    PROVE  AsTransfers(s \o t) = AsTransfers(s) \o AsTransfers(t)
<1> DEFINE a == AsTransfers(s)
           b == AsTransfers(t)
           u == AsTransfers(s \o t)
           k == Len(s)
           l == Len(t)
<1>1. /\ k \in Nat /\ l \in Nat /\ s \o t \in Seq(Request) /\ Len(s \o t) = k + l
      /\ \A n \in 1 .. k : (s \o t)[n] = s[n]
      /\ \A n \in k + 1 .. k + l : (s \o t)[n] = t[n - k]
  BY ConcatProperties, LenProperties
<1>2. /\ a \in Seq(Transfer) /\ Len(a) = k
      /\ b \in Seq(Transfer) /\ Len(b) = l
      /\ u \in Seq(Transfer) /\ Len(u) = k + l
  BY <1>1, AsTransfersIs
<1>3. /\ \A n \in 1 .. k : a[n] = Sent(s[n])
      /\ \A n \in 1 .. l : b[n] = Sent(t[n])
      /\ \A n \in 1 .. k + l : u[n] = Sent((s \o t)[n])
  BY <1>1, AsTransfersIs
<1> HIDE DEF a, b, u, k, l
<1>4. /\ a \o b \in Seq(Transfer) /\ Len(a \o b) = k + l
      /\ \A n \in 1 .. k : (a \o b)[n] = a[n]
      /\ \A n \in k + 1 .. k + l : (a \o b)[n] = b[n - k]
  <2>1. /\ a \o b \in Seq(Transfer) /\ Len(a \o b) = Len(a) + Len(b)
        /\ \A n \in 1 .. Len(a) : (a \o b)[n] = a[n]
        /\ \A n \in Len(a) + 1 .. Len(a) + Len(b) : (a \o b)[n] = b[n - Len(a)]
    BY <1>2, ConcatProperties
  <2> QED
    BY <1>2, <2>1
<1>5. ASSUME NEW n \in 1 .. k + l PROVE u[n] = (a \o b)[n]
  <2>1. CASE n <= k
    <3>1. n \in 1 .. k
      BY <1>1, <2>1
    <3> QED
      BY <1>1, <1>3, <1>4, <3>1
  <2>2. CASE ~(n <= k)
    <3>1. n \in k + 1 .. k + l /\ n - k \in 1 .. l
      BY <1>1, <2>2
    <3> QED
      BY <1>1, <1>3, <1>4, <3>1
  <2> QED
    BY <2>1, <2>2
<1>6. u = a \o b
  BY <1>2, <1>4, <1>5, SeqEqual
<1> QED
  BY <1>6 DEF a, b, u

LEMMA QueuedConcat ==
    ASSUME NEW b, NEW s \in Seq(Request), NEW t \in Seq(Request)
    PROVE  /\ Queued(s, b) \in Seq(Transfer)
           /\ Queued(s \o t, b) = Queued(s, b) \o Queued(t, b)
<1>1. \A u \in Seq(Request) : ToBank(u, b) \in Seq(Request \cap ForBank(b))
  BY OnlyFacts DEF ToBank, ForBank
<1>2. \A u \in Seq(Request \cap ForBank(b)) : u \in Seq(Request)
  OBVIOUS
<1>3. ToBank(s \o t, b) = ToBank(s, b) \o ToBank(t, b)
  <2>1. \A V : Only(s \o t, V) = Only(s, V) \o Only(t, V)
    BY OnlyConcat
  <2> QED
    BY <2>1, Zenon DEF ToBank
<1>4. ToBank(s, b) \in Seq(Request) /\ ToBank(t, b) \in Seq(Request)
  BY <1>1, <1>2
<1> QED
  BY <1>3, <1>4, AsTransfersIs, AsTransfersConcat DEF Queued

LEMMA QueuedOfOne ==
    ASSUME NEW b, NEW r \in Request
    PROVE  Queued(<<r>>, b) = IF r.bank = b THEN <<Sent(r)>> ELSE <<>>
<1>1. ToBank(<<r>>, b) = IF r \in ForBank(b) THEN <<r>> ELSE <<>>
  BY OnlyOfOne, Zenon DEF ToBank, ForBank
<1>2. AsTransfers(<<>>) = <<>>
  <2>1. <<>> \in Seq(Request) /\ Len(<<>>) = 0
    OBVIOUS
  <2>2. AsTransfers(<<>>) \in Seq(Transfer) /\ Len(AsTransfers(<<>>)) = 0
    BY <2>1, AsTransfersIs
  <2> QED
    BY <2>2, EmptySeq
<1>3. AsTransfers(<<r>>) = <<Sent(r)>>
  <2>1. DOMAIN <<r>> = {1} /\ <<r>>[1] = r
    OBVIOUS
  <2>2. AsTransfers(<<r>>) = [n \in {1} |-> Sent(r)]
    BY <2>1 DEF AsTransfers
  <2>3. <<Sent(r)>> = [n \in {1} |-> Sent(r)]
    OBVIOUS
  <2> QED
    BY <2>2, <2>3
<1> QED
  BY <1>1, <1>2, <1>3 DEF Queued, ForBank

LEMMA PathType ==
    ASSUME NEW c, NEW b, NEW s \in Seq(Transfer), NEW q \in Seq(Request)
    PROVE  FromCpu(s, c) \o Queued(q, b) \in Seq(Transfer)
BY FromCpuConcat, QueuedConcat, ConcatProperties

\* The head of the queue moves to the end of the pipeline of its bank.
LEMMA PathOfMoved ==
    ASSUME NEW c, NEW b, NEW s \in Seq(Transfer), NEW q \in Seq(RequestOf(c)), q # <<>>,
           Head(q).bank = b
    PROVE  FromCpu(s \o <<Sent(Head(q))>>, c) \o Queued(Tail(q), b) = FromCpu(s, c) \o Queued(q, b)
<1> DEFINE h == Head(q)
           t == Sent(h)
<1>1. h \in RequestOf(c) /\ q \in Seq(Request) /\ Tail(q) \in Seq(Request) /\ q = <<h>> \o Tail(q)
  <2>1. h \in RequestOf(c) /\ Tail(q) \in Seq(RequestOf(c)) /\ q = <<h>> \o Tail(q)
    BY HeadTailProperties
  <2>2. \A u \in Seq(RequestOf(c)) : u \in Seq(Request)
    BY DEF RequestOf
  <2> QED
    BY <2>1, <2>2
<1>2. t \in Transfer /\ CpuOf[t.from] = c /\ h \in Request /\ h.bank = b
  BY <1>1 DEF RequestOf, Request, Transfer, Sent
<1> HIDE DEF h, t
<1>3. <<t>> \in Seq(Transfer) /\ <<h>> \in Seq(Request)
  BY <1>2
<1>4. FromCpu(s \o <<t>>, c) = FromCpu(s, c) \o <<t>> /\ FromCpu(s, c) \in Seq(Transfer)
  <2>1. FromCpu(<<t>>, c) = <<t>>
    BY <1>2, FromCpuOfOne
  <2>2. FromCpu(s \o <<t>>, c) = FromCpu(s, c) \o FromCpu(<<t>>, c)
    BY <1>3, FromCpuConcat
  <2> QED
    BY <2>1, <2>2, FromCpuConcat
<1>5. Queued(q, b) = <<t>> \o Queued(Tail(q), b) /\ Queued(Tail(q), b) \in Seq(Transfer)
  <2>1. Queued(<<h>>, b) = <<t>>
    BY <1>2, QueuedOfOne DEF t
  <2>2. Queued(<<h>> \o Tail(q), b) = Queued(<<h>>, b) \o Queued(Tail(q), b)
    BY <1>1, <1>3, QueuedConcat
  <2> QED
    BY <1>1, <2>1, <2>2, QueuedConcat
<1>6. (FromCpu(s, c) \o <<t>>) \o Queued(Tail(q), b) = FromCpu(s, c) \o (<<t>> \o Queued(Tail(q), b))
  BY <1>3, <1>4, <1>5, ConcatAssociative
<1> QED
  BY <1>4, <1>5, <1>6, Zenon DEF h, t

\* A request for another bank leaves the queue.
LEMMA QueuedOfOther ==
    ASSUME NEW b, NEW q \in Seq(Request), q # <<>>, Head(q).bank # b
    PROVE  Queued(Tail(q), b) = Queued(q, b)
<1> DEFINE h == Head(q)
<1>1. h \in Request /\ <<h>> \in Seq(Request) /\ Tail(q) \in Seq(Request) /\ q = <<h>> \o Tail(q)
  BY HeadTailProperties
<1>2. Queued(<<h>>, b) = <<>>
  BY <1>1, QueuedOfOne
<1> HIDE DEF h
<1>3. Queued(q, b) = Queued(<<h>>, b) \o Queued(Tail(q), b) /\ Queued(Tail(q), b) \in Seq(Transfer)
  BY <1>1, QueuedConcat
<1> QED
  BY <1>2, <1>3, ConcatEmptySeq

\* A transfer of another processor enters the pipeline.
LEMMA FromCpuOfOther ==
    ASSUME NEW c, NEW s \in Seq(Transfer), NEW t \in Transfer, CpuOf[t.from] # c
    PROVE  FromCpu(s \o <<t>>, c) = FromCpu(s, c)
<1>1. <<t>> \in Seq(Transfer) /\ FromCpu(<<t>>, c) = <<>>
  BY FromCpuOfOne
<1>2. FromCpu(s \o <<t>>, c) = FromCpu(s, c) \o FromCpu(<<t>>, c) /\ FromCpu(s, c) \in Seq(Transfer)
  BY <1>1, FromCpuConcat
<1> QED
  BY <1>1, <1>2, ConcatEmptySeq

-----------------------------------------------------------------------------
(* The channel of the abstract specification, and its steps.               *)

LEMMA PathsAre ==
    ASSUME NEW c \in Cpus, NEW b \in Banks
    PROVE  /\ Paths[c][b] = FromCpu(buffer[b] \o pipe[b], c) \o Queued(requests[c], b)
           /\ Paths'[c][b] = FromCpu(buffer'[b] \o pipe'[b], c) \o Queued(requests'[c], b)
BY DEF Paths, Path, Queued

LEMMA PathsType ==
    ASSUME IInv, NEW c \in Cpus, NEW b \in Banks
    PROVE  /\ buffer[b] \in Seq(Transfer) /\ pipe[b] \in Seq(Transfer)
           /\ buffer[b] \o pipe[b] \in Seq(Transfer)
           /\ requests[c] \in Seq(Request)
           /\ Paths[c][b] \in Seq(Transfer)
<1>1. /\ buffer[b] \in Seq(Transfer) /\ pipe[b] \in Seq(Transfer)
      /\ buffer[b] \o pipe[b] \in Seq(Transfer)
      /\ requests[c] \in Seq(Request)
  BY ConcatProperties DEF IInv, BankInv, QueueInv
<1>2. Paths[c][b] = FromCpu(buffer[b] \o pipe[b], c) \o Queued(requests[c], b)
  BY PathsAre
<1>3. FromCpu(buffer[b] \o pipe[b], c) \o Queued(requests[c], b) \in Seq(Transfer)
  BY <1>1, PathType
<1> QED
  BY <1>1, <1>2, <1>3

LEMMA KeptPaths ==
    ASSUME UNCHANGED <<buffer, pipe, requests>> PROVE Paths' = Paths
BY DEF Paths, Path

LEMMA KeptReturning ==
    ASSUME UNCHANGED <<responses, back>> PROVE Returning' = Returning
BY DEF Returning, AnswersTo

LEMMA StutterStep ==
    ASSUME UNCHANGED <<buffer, pipe, requests, responses, back, serving>>
    PROVE  UNCHANGED Channel!vars
BY KeptPaths, KeptReturning DEF Channel!vars

LEMMA SendStep ==
    ASSUME IInv,
           \A c \in Cpus, b \in Banks : \E t \in Seq(Transfer) : Paths'[c][b] = Paths[c][b] \o t,
           UNCHANGED <<serving, Returning>>
    PROVE  Channel!Next
<1>1. ASSUME NEW c \in Cpus, NEW b \in Banks PROVE Channel!IsPrefix(Paths[c][b], Paths'[c][b])
  <2>1. PICK t \in Seq(Transfer) : Paths'[c][b] = Paths[c][b] \o t
    OBVIOUS
  <2>2. Paths[c][b] \in Seq(Transfer)
    BY PathsType
  <2> QED
    BY <2>1, <2>2, PrefixOfConcat DEF Channel!IsPrefix, IsPrefix
<1>2. Channel!Send
  BY <1>1 DEF Channel!Send
<1> QED
  BY <1>2 DEF Channel!Next

LEMMA SameCardinality ==
    ASSUME NEW S
    PROVE  Channel!Cardinality(S) = Cardinality(S)
BY DEF Channel!Cardinality, Cardinality, Channel!IsFiniteSet, IsFiniteSet

\* The reads of an interface are among the transfers of its processor.
LEMMA ReadsOfCpu ==
    ASSUME NEW s \in Seq(Transfer), NEW i \in Interfaces
    PROVE  Channel!Reads(FromCpu(s, CpuOf[i]), i) = ReadsFrom(s, i)
<1> DEFINE c == CpuOf[i]
           R == {t \in Transfer : t.from = i /\ t.cmd = Read}
           u == FromCpu(s, c)
<1>1. u \in Seq(Transfer)
  BY FromCpuConcat
<1>2. Count(u, R) = Count(s, R)
  <2>1. R \in SUBSET OfCpu(c)
    BY DEF OfCpu
  <2>2. \A V : \A W \in SUBSET V : Count(Only(s, V), W) = Count(s, W)
    BY OnlyCounts
  <2>3. u = Only(s, OfCpu(c))
    BY Zenon DEF FromCpu, OfCpu
  <2> HIDE DEF u, R
  <2> QED
    BY <2>1, <2>2, <2>3
<1>3. ASSUME NEW v \in Seq(Transfer)
      PROVE  {n \in DOMAIN v : v[n].from = i /\ v[n].cmd = Read} = Places(v, R)
  <2>1. \A n \in DOMAIN v : v[n] \in Transfer
    BY ElementOfSeq, LenProperties
  <2> QED
    BY <2>1 DEF Places
<1> HIDE DEF u, R
<1>4. Channel!Reads(u, i) = Count(u, R)
  BY <1>1, <1>3, SameCardinality DEF Channel!Reads, Count
<1>5. ReadsFrom(s, i) = Count(s, R)
  BY <1>3 DEF ReadsFrom, Times, Count
<1> QED
  BY <1>2, <1>4, <1>5 DEF u

\* What the bank takes of its channel from one processor: front.
TakenOff(front, whole, rest) ==
    LET n == Len(whole) - Len(rest)
    IN  /\ n >= 0
        /\ rest = SubSeq(whole, n + 1, Len(whole))
        /\ SubSeq(whole, 1, n) = front

LEMMA TakenFromPath ==
    ASSUME NEW c, NEW b, NEW s \in Seq(Transfer), NEW t \in Seq(Transfer), NEW q \in Seq(Request)
    PROVE  TakenOff(FromCpu(s, c), FromCpu(s \o t, c) \o Queued(q, b), FromCpu(t, c) \o Queued(q, b))
<1> DEFINE f == FromCpu(s, c)
           rest == FromCpu(t, c) \o Queued(q, b)
           whole == FromCpu(s \o t, c) \o Queued(q, b)
<1>1. f \in Seq(Transfer) /\ FromCpu(t, c) \in Seq(Transfer) /\ Queued(q, b) \in Seq(Transfer)
      /\ FromCpu(s \o t, c) = f \o FromCpu(t, c)
  BY FromCpuConcat, QueuedConcat
<1>a. \A x, y, z \in Seq(Transfer) : (x \o y) \o z = x \o (y \o z)
  BY SMTT(30), ConcatAssociative
<1>b. \A x, y \in Seq(Transfer) : x \o y \in Seq(Transfer) /\ Len(x \o y) = Len(x) + Len(y)
  BY ConcatProperties
<1>2. whole = f \o rest /\ rest \in Seq(Transfer)
  <2> DEFINE g == FromCpu(t, c)
             h == Queued(q, b)
  <2>1. whole = (f \o g) \o h /\ rest = g \o h
    BY <1>1
  <2>2. f \in Seq(Transfer) /\ g \in Seq(Transfer) /\ h \in Seq(Transfer)
    BY <1>1
  <2> HIDE DEF f, g, h, rest, whole
  <2>3. (f \o g) \o h = f \o (g \o h)
    BY <1>a, <2>2, ZenonT(30)
  <2> QED
    BY <1>b, <2>1, <2>2, <2>3, Zenon
<1> HIDE DEF f, rest, whole
<1>3. Len(f) \in Nat /\ Len(rest) \in Nat /\ Len(whole) = Len(f) + Len(rest)
  <2>1. Len(f \o rest) = Len(f) + Len(rest)
    BY <1>1, <1>2, <1>b, Zenon
  <2> QED
    BY <1>1, <1>2, <2>1, LenProperties
<1>5. SubSeq(whole, 1, Len(f)) = f /\ SubSeq(whole, Len(f) + 1, Len(whole)) = rest
  <2>1. SubSeq(f \o rest, 1, Len(f)) = f /\ SubSeq(f \o rest, Len(f) + 1, Len(f \o rest)) = rest
    BY <1>1, <1>2, PartsOfConcat
  <2> QED
    BY <1>2, <2>1, Zenon
<1>7. Len(whole) - Len(rest) = Len(f) /\ Len(f) >= 0
  BY <1>3
<1> QED
  BY <1>5, <1>7 DEF f, rest, whole, TakenOff

LEMMA TakeStep ==
    ASSUME IInv, NEW b \in Banks, NEW s \in Seq(Transfer), NEW t \in Seq(Transfer),
           buffer[b] \o pipe[b] = s \o t, buffer'[b] \o pipe'[b] = t,
           \A a \in Banks \ {b} : buffer'[a] \o pipe'[a] = buffer[a] \o pipe[a],
           Accessed(b, s), UNCHANGED <<requests, responses, back>>
    PROVE  Channel!Take(b)
<1> DEFINE taken == [c \in Cpus |-> Len(Paths[c][b]) - Len(Paths'[c][b])]
<1>1. ASSUME NEW c \in Cpus
      PROVE  /\ taken[c] >= 0
             /\ Paths'[c][b] = SubSeq(Paths[c][b], taken[c] + 1, Len(Paths[c][b]))
             /\ SubSeq(Paths[c][b], 1, taken[c]) = FromCpu(s, c)
             /\ \A a \in Banks \ {b} : Paths'[c][a] = Paths[c][a]
  <2>1. requests[c] \in Seq(Request)
    BY PathsType
  <2> DEFINE whole == FromCpu(s \o t, c) \o Queued(requests[c], b)
             rest == FromCpu(t, c) \o Queued(requests[c], b)
             n == Len(whole) - Len(rest)
  <2>2. n >= 0 /\ rest = SubSeq(whole, n + 1, Len(whole)) /\ SubSeq(whole, 1, n) = FromCpu(s, c)
    <3>1. TakenOff(FromCpu(s, c), whole, rest)
      BY <2>1, TakenFromPath
    <3> QED
      BY <3>1 DEF TakenOff
  <2>3. Paths[c][b] = whole /\ Paths'[c][b] = rest
    BY PathsAre
  <2>4. taken[c] = n
    BY <2>3
  <2>5. \A a \in Banks \ {b} : Paths'[c][a] = Paths[c][a]
    <3> SUFFICES ASSUME NEW a \in Banks \ {b} PROVE Paths'[c][a] = Paths[c][a]
      OBVIOUS
    <3>1. /\ Paths[c][a] = FromCpu(buffer[a] \o pipe[a], c) \o Queued(requests[c], a)
          /\ Paths'[c][a] = FromCpu(buffer'[a] \o pipe'[a], c) \o Queued(requests'[c], a)
      BY PathsAre
    <3>2. buffer'[a] \o pipe'[a] = buffer[a] \o pipe[a] /\ requests' = requests
      OBVIOUS
    <3> QED
      BY <3>1, <3>2, Zenon
  <2> HIDE DEF whole, rest, n, taken
  <2> QED
    <3>1. taken[c] >= 0
      BY <2>2, <2>4, Zenon
    <3>2. Paths'[c][b] = SubSeq(Paths[c][b], taken[c] + 1, Len(Paths[c][b]))
      BY <2>2, <2>3, <2>4, Zenon
    <3>3. SubSeq(Paths[c][b], 1, taken[c]) = FromCpu(s, c)
      BY <2>2, <2>3, <2>4, Zenon
    <3> QED
      BY <2>5, <3>1, <3>2, <3>3, Zenon
<1> HIDE DEF taken
<1>2. Paths' = [c \in Cpus |-> [Paths[c] EXCEPT ![b] = SubSeq(@, taken[c] + 1, Len(@))]]
  <2>1. /\ Paths = [c \in Cpus |-> [a \in Banks |-> Paths[c][a]]]
        /\ Paths' = [c \in Cpus |-> [a \in Banks |-> Paths'[c][a]]]
    BY DEF Paths
  <2>2. ASSUME NEW c \in Cpus
        PROVE  Paths'[c] = [Paths[c] EXCEPT ![b] = SubSeq(@, taken[c] + 1, Len(@))]
    <3>1. /\ Paths[c] = [a \in Banks |-> Paths[c][a]]
          /\ Paths'[c] = [a \in Banks |-> Paths'[c][a]]
      BY <2>1
    <3> QED
      BY <1>1, <3>1
  <2> QED
    BY <2>1, <2>2
<1>3. serving' = [serving EXCEPT ![b] = [i \in Interfaces |->
                    @[i] + Channel!Reads(SubSeq(Paths[CpuOf[i]][b], 1, taken[CpuOf[i]]), i)]]
  <2>1. serving' = [serving EXCEPT ![b] = [i \in Interfaces |-> serving[b][i] + ReadsFrom(s, i)]]
    BY DEF Accessed, IInv, BankInv
  <2>2. \A i \in Interfaces :
            ReadsFrom(s, i) = Channel!Reads(SubSeq(Paths[CpuOf[i]][b], 1, taken[CpuOf[i]]), i)
    BY <1>1, ReadsOfCpu, Constants
  <2> QED
    BY <2>1, <2>2
<1>4. Returning' = Returning
  BY KeptReturning
<1> QED
  BY <1>1, <1>2, <1>3, <1>4 DEF Channel!Take, taken

-----------------------------------------------------------------------------
(* The requests.                                                           *)

LEMMA RetrieveRequestSends ==
    ASSUME IInv, NEW i \in Interfaces, RetrieveRequest(i) PROVE Channel!Next
<1> DEFINE c == CpuOf[i]
<1>1. PICK a \in Banks, cmd \in {Read, Writeback} :
         requests' = [requests EXCEPT ![c] =
                        Append(@, [from |-> i, bank |-> a, cmd |-> cmd, age |-> 0])]
  BY DEF RetrieveRequest
<1> DEFINE r == [from |-> i, bank |-> a, cmd |-> cmd, age |-> 0]
<1>2. c \in Cpus /\ r \in Request /\ <<r>> \in Seq(Request)
  BY Constants DEF Request
<1> HIDE DEF r, c
<1>3. /\ requests'[c] = Append(requests[c], r)
      /\ \A d \in Cpus \ {c} : requests'[d] = requests[d]
  BY <1>1, <1>2 DEF IInv, QueueInv, r
<1>4. buffer' = buffer /\ pipe' = pipe /\ serving' = serving /\ Returning' = Returning
  BY KeptReturning DEF RetrieveRequest, bankVars, backVars
<1>5. ASSUME NEW d \in Cpus, NEW b \in Banks
      PROVE  \E t \in Seq(Transfer) : Paths'[d][b] = Paths[d][b] \o t
  <2> DEFINE f == FromCpu(buffer[b] \o pipe[b], d)
             q == requests[d]
  <2>1. /\ Paths[d][b] = f \o Queued(q, b) /\ Paths'[d][b] = f \o Queued(requests'[d], b)
        /\ q \in Seq(Request) /\ f \in Seq(Transfer) /\ Paths[d][b] \in Seq(Transfer)
    BY <1>4, PathsAre, PathsType, FromCpuConcat
  <2> HIDE DEF f
  <2>2. CASE d = c
    <3>1. requests'[d] = q \o <<r>>
      BY <1>2, <1>3, <2>1, <2>2, AppendIsConcat
    <3>2. Queued(q \o <<r>>, b) = Queued(q, b) \o Queued(<<r>>, b)
      BY <1>2, <2>1, QueuedConcat
    <3>3. Queued(q, b) \in Seq(Transfer) /\ Queued(<<r>>, b) \in Seq(Transfer)
      BY <1>2, <2>1, QueuedConcat
    <3>4. f \o (Queued(q, b) \o Queued(<<r>>, b)) = (f \o Queued(q, b)) \o Queued(<<r>>, b)
      <4>1. \A u, v, w \in Seq(Transfer) : (u \o v) \o w = u \o (v \o w)
        BY ConcatAssociative
      <4> QED
        BY <2>1, <3>3, <4>1, ZenonT(30)
    <3>5. Paths'[d][b] = Paths[d][b] \o Queued(<<r>>, b)
      BY <2>1, <3>1, <3>2, <3>4, ZenonT(30)
    <3> QED
      BY <3>3, <3>5
  <2>3. CASE d # c
    <3>1. Paths'[d][b] = Paths[d][b]
      BY <1>3, <2>1, <2>3
    <3>2. Paths[d][b] \o <<>> = Paths[d][b]
      BY <2>1, ConcatEmptySeq
    <3>3. <<>> \in Seq(Transfer)
      OBVIOUS
    <3> QED
      BY <3>1, <3>2, <3>3
  <2> QED
    BY <2>2, <2>3
<1> QED
  BY <1>4, <1>5, SendStep

LEMMA DeliverToBufferStutters ==
    ASSUME IInv, NEW b \in Banks, DeliverToBuffer(b) PROVE UNCHANGED Channel!vars
<1> DEFINE h == Head(pipe[b])
<1>1. /\ pipe[b] # <<>>
      /\ buffer'[b] = Append(buffer[b], h) /\ pipe'[b] = Tail(pipe[b])
      /\ \A a \in Banks \ {b} : buffer'[a] = buffer[a] /\ pipe'[a] = pipe[a]
      /\ UNCHANGED <<requests, serving, responses, back>>
  BY DEF DeliverToBuffer, IInv, BankInv, queueVars, backVars
<1>2. /\ buffer[b] \in Seq(Transfer) /\ h \in Transfer /\ <<h>> \in Seq(Transfer)
      /\ Tail(pipe[b]) \in Seq(Transfer) /\ pipe[b] = <<h>> \o Tail(pipe[b])
  <2>1. buffer[b] \in Seq(Transfer) /\ pipe[b] \in Seq(Transfer)
    BY PathsType DEF IInv, BankInv
  <2>2. h \in Transfer /\ Tail(pipe[b]) \in Seq(Transfer) /\ pipe[b] = <<h>> \o Tail(pipe[b])
    BY <1>1, <2>1, HeadTailProperties
  <2> QED
    BY <2>1, <2>2
<1> HIDE DEF h
<1>3. buffer'[b] \o pipe'[b] = buffer[b] \o pipe[b]
  <2>1. Append(buffer[b], h) = buffer[b] \o <<h>>
    BY <1>2, AppendIsConcat
  <2>2. (buffer[b] \o <<h>>) \o Tail(pipe[b]) = buffer[b] \o (<<h>> \o Tail(pipe[b]))
    <3>1. \A p, q, r \in Seq(Transfer) : (p \o q) \o r = p \o (q \o r)
      BY ConcatAssociative
    <3> QED
      BY <1>2, <3>1, Zenon
  <2> QED
    BY <1>1, <1>2, <2>1, <2>2, Zenon
<1>4. \A a \in Banks : buffer'[a] \o pipe'[a] = buffer[a] \o pipe[a]
  BY <1>1, <1>3
<1>5. Paths' = Paths
  BY <1>1, <1>4 DEF Paths, Path
<1> QED
  BY <1>1, <1>5, KeptReturning DEF Channel!vars

LEMMA DeliverToBankTakes ==
    ASSUME IInv, NEW b \in Banks, DeliverToBank(b) PROVE Channel!Take(b)
<1> DEFINE h == Head(pipe[b])
<1>1. /\ pipe[b] # <<>> /\ buffer[b] = <<>> /\ pipe[b] \in Seq(Transfer)
      /\ Accessed(b, <<h>>)
      /\ pipe'[b] = Tail(pipe[b]) /\ \A a \in Banks \ {b} : pipe'[a] = pipe[a]
      /\ UNCHANGED <<buffer, requests, responses, back>>
  BY DEF DeliverToBank, IInv, BankInv, queueVars, backVars
<1>2. /\ h \in Transfer /\ <<h>> \in Seq(Transfer) /\ Tail(pipe[b]) \in Seq(Transfer)
      /\ pipe[b] = <<h>> \o Tail(pipe[b])
  BY <1>1, HeadTailProperties
<1> HIDE DEF h
<1>3. buffer[b] \o pipe[b] = <<h>> \o Tail(pipe[b])
  BY <1>1, <1>2, ConcatEmptySeq
<1>4. buffer'[b] \o pipe'[b] = Tail(pipe[b])
  BY <1>1, <1>2, ConcatEmptySeq
<1>5. \A a \in Banks \ {b} : buffer'[a] \o pipe'[a] = buffer[a] \o pipe[a]
  BY <1>1
<1> QED
  BY <1>1, <1>2, <1>3, <1>4, <1>5, TakeStep

LEMMA BankUnblocksTakes ==
    ASSUME IInv, NEW b \in Banks, BankUnblocks(b) PROVE Channel!Take(b)
<1>1. PICK n \in 0 .. Len(buffer[b]) :
        /\ Accessed(b, SubSeq(buffer[b], 1, n))
        /\ buffer' = [buffer EXCEPT ![b] = SubSeq(@, n + 1, Len(@))]
  BY DEF BankUnblocks
<1>2. UNCHANGED <<pipe, requests, responses, back>>
  BY DEF BankUnblocks, queueVars, backVars
<1> DEFINE s == buffer[b]
           front == SubSeq(s, 1, n)
           left == SubSeq(s, n + 1, Len(s))
<1>3. s \in Seq(Transfer) /\ pipe[b] \in Seq(Transfer) /\ Len(s) \in Nat /\ n \in Nat /\ n <= Len(s)
  BY LenProperties DEF IInv, BankInv
<1>4. front \in Seq(Transfer) /\ left \in Seq(Transfer) /\ s = front \o left
  <2>1. \A j \in 1 .. Len(s) : s[j] \in Transfer
    BY <1>3, ElementOfSeq
  <2>2. front \in Seq(Transfer) /\ left \in Seq(Transfer)
    BY <1>3, <2>1, SubSeqProperties
  <2>3. s = front \o left
    <3>1. 1 \in 1 .. Len(s) + 1 /\ n \in 1 - 1 .. Len(s) /\ Len(s) \in n .. Len(s)
      BY <1>3
    <3>2. SubSeq(s, 1, n) \o SubSeq(s, n + 1, Len(s)) = SubSeq(s, 1, Len(s))
      BY <1>3, <3>1, ConcatAdjacentSubSeq, Zenon
    <3>3. SubSeq(s, 1, Len(s)) = s
      BY <1>3, SubSeqFull
    <3> QED
      BY <3>2, <3>3
  <2> QED
    BY <2>2, <2>3
<1>5. buffer'[b] = left /\ \A a \in Banks \ {b} : buffer'[a] = buffer[a]
  BY <1>1 DEF IInv, BankInv
<1> DEFINE t == left \o pipe[b]
<1>6. t \in Seq(Transfer)
  BY <1>3, <1>4, ConcatProperties
<1>7. Accessed(b, front)
  BY <1>1
<1> HIDE DEF front, left
<1>8. s \o pipe[b] = front \o t
  <2>1. (front \o left) \o pipe[b] = front \o (left \o pipe[b])
    <3>1. \A p, q, r \in Seq(Transfer) : (p \o q) \o r = p \o (q \o r)
      BY ConcatAssociative
    <3> QED
      BY <1>3, <1>4, <3>1, Zenon
  <2> QED
    BY <1>4, <2>1, Zenon
<1>9. buffer'[b] \o pipe'[b] = t /\ \A a \in Banks \ {b} : buffer'[a] \o pipe'[a] = buffer[a] \o pipe[a]
  BY <1>2, <1>5
<1> HIDE DEF t
<1> QED
  BY <1>2, <1>4, <1>6, <1>7, <1>8, <1>9, TakeStep

\* Requests that only their ages tell apart make the same path.
LEMMA QueuedAlike ==
    ASSUME NEW b, NEW q \in Seq(Request), NEW r \in Seq(Request), DOMAIN r = DOMAIN q,
           \A n \in DOMAIN q : /\ r[n].from = q[n].from
                               /\ r[n].bank = q[n].bank
                               /\ r[n].cmd = q[n].cmd
    PROVE  Queued(r, b) = Queued(q, b)
<1> DEFINE u == ToBank(q, b)
           v == ToBank(r, b)
<1>1. \A n \in DOMAIN q : q[n] \in Request /\ r[n] \in Request
  BY ElementOfSeq, LenProperties
<1>2. Places(q, ForBank(b)) = Places(r, ForBank(b))
  BY <1>1 DEF Places, ForBank
<1>3. u = Only(q, ForBank(b)) /\ v = Only(r, ForBank(b))
  BY Zenon DEF ToBank, ForBank
<1> HIDE DEF u, v
<1>4. /\ Len(u) = Len(v) /\ Len(u) \in Nat
      /\ \A k \in 1 .. Len(u) : \E n \in Places(q, ForBank(b)) : u[k] = q[n] /\ v[k] = r[n]
  BY <1>2, <1>3, OnlyAlike
<1>5. u \in Seq(Request) /\ v \in Seq(Request)
  <2>1. \A w \in Seq(Request) : Only(w, ForBank(b)) \in Seq(Request \cap ForBank(b))
    BY OnlyFacts
  <2>2. \A w \in Seq(Request \cap ForBank(b)) : w \in Seq(Request)
    OBVIOUS
  <2> QED
    BY <1>3, <2>1, <2>2
<1>6. ASSUME NEW k \in 1 .. Len(u) PROVE AsTransfers(u)[k] = AsTransfers(v)[k]
  <2>1. AsTransfers(u)[k] = Sent(u[k]) /\ AsTransfers(v)[k] = Sent(v[k])
    BY <1>4, <1>5, AsTransfersIs
  <2>2. Sent(u[k]) = Sent(v[k])
    BY <1>4 DEF Places, Sent
  <2> QED
    BY <2>1, <2>2
<1>7. AsTransfers(u) = AsTransfers(v)
  BY <1>4, <1>5, <1>6, AsTransfersIs, SeqEqual
<1> QED
  BY <1>7 DEF Queued, u, v

LEMMA TickStutters ==
    ASSUME IInv, Tick PROVE UNCHANGED Channel!vars
<1>1. /\ requests' = Aged(requests) /\ responses' = Aged(responses)
      /\ UNCHANGED <<buffer, pipe, serving, back>>
  BY DEF Tick, bankVars
<1>2. QueueInv /\ BackInv
  BY DEF IInv
<1>3. requests' \in [Cpus -> Seq(Request)] /\ requests \in [Cpus -> Seq(Request)]
  BY <1>1, <1>2, AgedKeeps, AgeableQueues DEF QueueInv
<1>4. ASSUME NEW c \in Cpus, NEW b \in Banks PROVE Path(c, b)' = Path(c, b)
  <2>1. Queued(requests'[c], b) = Queued(requests[c], b)
    <3>1. requests'[c] \in Seq(Request) /\ requests[c] \in Seq(Request)
      BY <1>3
    <3>2. /\ DOMAIN requests'[c] = DOMAIN requests[c]
          /\ \A n \in DOMAIN requests[c] :
                /\ requests'[c][n].from = requests[c][n].from
                /\ requests'[c][n].bank = requests[c][n].bank
                /\ requests'[c][n].cmd = requests[c][n].cmd
      BY <1>1, <1>2, AgedRequests
    <3> QED
      BY <3>1, <3>2, QueuedAlike
  <2> QED
    BY <1>1, <2>1 DEF Path, Queued
<1>5. Paths' = Paths
  BY <1>4 DEF Paths
<1>6. ASSUME NEW i \in Interfaces
      PROVE  CountIn(responses', AnswersTo(i)) = CountIn(responses, AnswersTo(i))
  <2>1. responses' \in [Banks -> Seq(Response)]
    BY <1>1, <1>2, AgedKeeps, AgeableQueues DEF BackInv
  <2>2. ASSUME NEW b \in Banks
        PROVE  Places(responses'[b], AnswersTo(i)) = Places(responses[b], AnswersTo(i))
    <3>1. /\ DOMAIN responses'[b] = DOMAIN responses[b]
          /\ \A n \in DOMAIN responses[b] : /\ responses[b][n] \in Response
                                            /\ responses'[b][n].to = responses[b][n].to
      BY <1>1, <1>2, AgedResponses
    <3>2. \A n \in DOMAIN responses'[b] : responses'[b][n] \in Response
      BY <2>1, ElementOfSeq, LenProperties
    <3> QED
      BY <3>1, <3>2 DEF Places, AnswersTo
  <2>3. DOMAIN responses = Banks /\ DOMAIN responses' = Banks
    BY <1>2, <2>1 DEF BackInv
  <2> QED
    BY <2>2, <2>3, CountInAlike
<1>7. Returning' = Returning
  BY <1>1, <1>6 DEF Returning, AnswersTo
<1> QED
  BY <1>1, <1>5, <1>7 DEF Channel!vars

-----------------------------------------------------------------------------
(* The answers.                                                            *)

LEMMA AnswersCount ==
    ASSUME NEW queues \in [Banks -> Seq(Response)], NEW V
    PROVE  CountIn(queues, V) \in Nat
<1>1. IsFiniteSet(Banks)
  BY CrossbarAssumption
<1> QED
  BY <1>1, PlacesInAre

LEMMA ReturningType ==
    ASSUME BackInv
    PROVE  /\ Returning \in [Interfaces -> Nat]
           /\ \A i \in Interfaces :
                 /\ Returning[i] = CountIn(responses, AnswersTo(i)) + Count(back[CpuOf[i]], {i})
                 /\ CountIn(responses, AnswersTo(i)) \in Nat /\ Count(back[CpuOf[i]], {i}) \in Nat
<1>1. ASSUME NEW i \in Interfaces
      PROVE  CountIn(responses, AnswersTo(i)) \in Nat /\ Count(back[CpuOf[i]], {i}) \in Nat
  <2>1. back[CpuOf[i]] \in Seq(Interfaces) /\ responses \in [Banks -> Seq(Response)]
    BY Constants DEF BackInv
  <2> QED
    BY <2>1, AnswersCount, CountIsNat
<1>2. \A i \in Interfaces :
         CountIn(responses, AnswersTo(i)) + Count(back[CpuOf[i]], {i}) \in Nat
  BY <1>1
<1> QED
  BY <1>1, <1>2 DEF Returning

LEMMA ReturningTypeThen ==
    ASSUME BackInv'
    PROVE  /\ Returning' \in [Interfaces -> Nat]
           /\ \A i \in Interfaces :
                 /\ Returning'[i] = CountIn(responses', AnswersTo(i)) + Count(back'[CpuOf[i]], {i})
                 /\ CountIn(responses', AnswersTo(i)) \in Nat /\ Count(back'[CpuOf[i]], {i}) \in Nat
<1>1. ASSUME NEW i \in Interfaces
      PROVE  CountIn(responses', AnswersTo(i)) \in Nat /\ Count(back'[CpuOf[i]], {i}) \in Nat
  <2>1. back'[CpuOf[i]] \in Seq(Interfaces) /\ responses' \in [Banks -> Seq(Response)]
    BY Constants DEF BackInv
  <2> QED
    BY <2>1, AnswersCount, CountIsNat
<1>2. \A i \in Interfaces :
         CountIn(responses', AnswersTo(i)) + Count(back'[CpuOf[i]], {i}) \in Nat
  BY <1>1
<1> QED
  BY <1>1, <1>2 DEF Returning, AnswersTo

LEMMA BankRespondsAnswers ==
    ASSUME IInv, NEW b \in Banks, NEW i \in Interfaces, BankResponds(b, i)
    PROVE  Channel!Answer(b, i)
<1> DEFINE r == [to |-> i, age |-> 0]
<1>1. /\ serving[b][i] > 0 /\ serving' = [serving EXCEPT ![b][i] = @ - 1]
      /\ responses' = [responses EXCEPT ![b] = Append(@, r)]
      /\ UNCHANGED <<buffer, pipe, requests, back>>
  BY DEF BankResponds
<1>2. BackInv /\ BackInv'
  BY BankRespondsPreserves DEF IInv
<1>3. r \in Response /\ r.to = i /\ responses \in [Banks -> Seq(Response)] /\ IsFiniteSet(Banks)
  BY <1>2, CrossbarAssumption DEF BackInv, Response
<1> HIDE DEF r
<1>4. /\ Returning \in [Interfaces -> Nat] /\ Returning' \in [Interfaces -> Nat]
      /\ \A j \in Interfaces :
            /\ Returning[j] = CountIn(responses, AnswersTo(j)) + Count(back[CpuOf[j]], {j})
            /\ Returning'[j] = CountIn(responses', AnswersTo(j)) + Count(back'[CpuOf[j]], {j})
            /\ CountIn(responses, AnswersTo(j)) \in Nat /\ Count(back[CpuOf[j]], {j}) \in Nat
  BY <1>2, ReturningType, ReturningTypeThen
<1>5. ASSUME NEW j \in Interfaces
      PROVE  Returning'[j] = Returning[j] + IF j = i THEN 1 ELSE 0
  <2> DEFINE x == CountIn(responses, AnswersTo(j))
             y == Count(back[CpuOf[j]], {j})
             z == CountIn(responses', AnswersTo(j))
  <2>1. z = x + IF r \in AnswersTo(j) THEN 1 ELSE 0
    <3>1. CountIn(WithLast(responses, b, r), AnswersTo(j))
             = CountIn(responses, AnswersTo(j)) + IF r \in AnswersTo(j) THEN 1 ELSE 0
      BY <1>3, CountInAppend
    <3> QED
      BY <1>1, <3>1 DEF WithLast
  <2>2. r \in AnswersTo(j) <=> j = i
    BY <1>3 DEF AnswersTo
  <2>3. x \in Nat /\ y \in Nat /\ Returning[j] = x + y /\ Returning'[j] = z + y
    BY <1>1, <1>4
  <2> HIDE DEF x, y, z
  <2> QED
    BY <2>1, <2>2, <2>3
<1>6. Returning' = [Returning EXCEPT ![i] = @ + 1]
  BY <1>4, <1>5
<1>7. Paths' = Paths
  BY <1>1, KeptPaths
<1> QED
  BY <1>1, <1>6, <1>7 DEF Channel!Answer

LEMMA DeliverToCacheReceives ==
    ASSUME IInv, OwnInv, NEW c \in Cpus, DeliverToCache(c)
    PROVE  \E i \in Interfaces : Channel!Receive(i)
<1> DEFINE i == Head(back[c])
<1>1. /\ back[c] # <<>> /\ back' = [back EXCEPT ![c] = Tail(@)]
      /\ UNCHANGED <<buffer, pipe, requests, serving, responses>>
  BY DEF DeliverToCache, queueVars, bankVars
<1>2. BackInv /\ BackInv'
  BY DeliverToCachePreserves DEF IInv
<1>3. /\ back[c] \in Seq(Interfaces) /\ i \in Interfaces /\ CpuOf[i] = c
      /\ back'[c] = Tail(back[c]) /\ \A d \in Cpus \ {c} : back'[d] = back[d]
  <2>1. back[c] \in Seq(Interfaces) /\ back[c] \in Seq(InterfacesOf(c))
    BY <1>2 DEF BackInv, OwnInv
  <2>2. i \in InterfacesOf(c)
    BY <1>1, <2>1, HeadTailProperties
  <2> HIDE DEF i
  <2> QED
    BY <1>1, <1>2, <2>1, <2>2 DEF InterfacesOf, BackInv
<1>4. ASSUME NEW j \in Interfaces
      PROVE  Count(back[CpuOf[j]], {j}) = Count(back'[CpuOf[j]], {j}) + IF j = i THEN 1 ELSE 0
  <2>1. CASE CpuOf[j] = c
    <3>1. \A V : Count(back[c], V) = Count(Tail(back[c]), V) + IF i \in V THEN 1 ELSE 0
      BY <1>1, <1>3, CountTail
    <3>2. Count(back[c], {j}) = Count(Tail(back[c]), {j}) + IF i \in {j} THEN 1 ELSE 0
      BY <3>1
    <3> HIDE DEF i
    <3> QED
      BY <1>3, <2>1, <3>2
  <2>2. CASE CpuOf[j] # c
    <3>1. Count(back[CpuOf[j]], {j}) \in Nat /\ CpuOf[j] \in Cpus
      BY <1>2, ReturningType, Constants
    <3> HIDE DEF i
    <3> QED
      BY <1>3, <2>2, <3>1
  <2> QED
    BY <2>1, <2>2
<1> HIDE DEF i
<1>5. /\ Returning \in [Interfaces -> Nat] /\ Returning' \in [Interfaces -> Nat]
      /\ \A j \in Interfaces :
            /\ Returning[j] = CountIn(responses, AnswersTo(j)) + Count(back[CpuOf[j]], {j})
            /\ Returning'[j] = CountIn(responses', AnswersTo(j)) + Count(back'[CpuOf[j]], {j})
            /\ CountIn(responses, AnswersTo(j)) \in Nat /\ Count(back'[CpuOf[j]], {j}) \in Nat
  BY <1>2, ReturningType, ReturningTypeThen
<1>6. ASSUME NEW j \in Interfaces
      PROVE  Returning[j] = Returning'[j] + IF j = i THEN 1 ELSE 0
  <2> DEFINE x == CountIn(responses, AnswersTo(j))
             y == Count(back[CpuOf[j]], {j})
             z == Count(back'[CpuOf[j]], {j})
  <2>1. x \in Nat /\ z \in Nat /\ y = z + (IF j = i THEN 1 ELSE 0)
        /\ Returning[j] = x + y /\ Returning'[j] = x + z
    BY <1>1, <1>4, <1>5
  <2> HIDE DEF x, y, z
  <2> QED
    BY <2>1
<1>7. Returning[i] > 0 /\ Returning' = [Returning EXCEPT ![i] = @ - 1]
  <2>1. Returning[i] = Returning'[i] + 1 /\ Returning'[i] \in Nat /\ Returning[i] \in Nat
    BY <1>3, <1>5, <1>6
  <2>2. Returning[i] > 0 /\ Returning'[i] = Returning[i] - 1
    BY <2>1
  <2>3. \A j \in Interfaces \ {i} : Returning'[j] = Returning[j]
    BY <1>5, <1>6
  <2> QED
    BY <1>5, <2>2, <2>3
<1>8. Paths' = Paths
  BY <1>1, KeptPaths
<1>9. Channel!Receive(i)
  BY <1>1, <1>7, <1>8 DEF Channel!Receive
<1> QED
  BY <1>3, <1>9

-----------------------------------------------------------------------------
(* The arbitration: what is granted moves on, and what is fetched is sent. *)

LEMMA OneForBank ==
    ASSUME QueueInv, NEW c \in RequestGranted, NEW d \in RequestGranted,
           Head(requests[c]).bank = Head(requests[d]).bank
    PROVE  c = d
<1>1. /\ c \in Nat /\ d \in Nat /\ requests[c] # <<>> /\ requests[d] # <<>>
      /\ Head(requests[c]).age \in Nat /\ Head(requests[d]).age \in Nat
  BY GrantedRequest, CrossbarAssumption DEF Request
<1>2. ~Before(requests, d, c) /\ ~Before(requests, c, d)
  BY GrantedRequest DEF RequestGranted
<1> QED
  BY <1>1, <1>2 DEF Before

LEMMA OneForCpu ==
    ASSUME BackInv, NEW a \in ResponseGranted, NEW b \in ResponseGranted, Receiver(a) = Receiver(b)
    PROVE  a = b
<1>1. /\ a \in Nat /\ b \in Nat /\ responses[a] # <<>> /\ responses[b] # <<>>
      /\ Head(responses[a]).age \in Nat /\ Head(responses[b]).age \in Nat
  BY GrantedResponse, CrossbarAssumption DEF Response
<1>2. ~Before(responses, a, b) /\ ~Before(responses, b, a)
  BY GrantedResponse DEF ResponseGranted
<1> QED
  BY <1>1, <1>2 DEF Before

\* A granted request takes its path along, and touches no other.
LEMMA PathWithoutSent ==
    ASSUME IInv, OwnInv, Transmit, buffer' = buffer, NEW c \in Cpus, NEW b \in Banks
    PROVE  FromCpu(buffer[b] \o pipe'[b], c) \o Queued(Remaining[c], b) = Paths[c][b]
<1> DEFINE G == \E d \in RequestGranted : Head(requests[d]).bank = b
           ch == CHOOSE d \in RequestGranted : Head(requests[d]).bank = b
           t == Sent(Head(requests[ch]))
           s == buffer[b] \o pipe[b]
           q == requests[c]
<1>1. QueueInv /\ BankInv
  BY DEF IInv
<1>2. /\ s \in Seq(Transfer) /\ q \in Seq(Request) /\ q \in Seq(RequestOf(c))
      /\ buffer[b] \in Seq(Transfer) /\ pipe[b] \in Seq(Transfer)
  BY PathsType DEF OwnInv
<1>3. Paths[c][b] = FromCpu(s, c) \o Queued(q, b)
  BY PathsAre
<1>4. /\ pipe'[b] = IF G THEN Append(pipe[b], t) ELSE pipe[b]
      /\ Remaining[c] = IF c \in RequestGranted THEN Tail(q) ELSE q
  BY <1>1 DEF Transmit, Sent, Remaining, Popped, QueueInv
<1>5. G => /\ ch \in RequestGranted /\ Head(requests[ch]).bank = b /\ t \in Transfer
           /\ CpuOf[t.from] = ch
  <2>1. ASSUME G PROVE ch \in RequestGranted /\ Head(requests[ch]).bank = b
    BY <2>1
  <2> HIDE DEF ch
  <2>2. ASSUME G PROVE t \in Transfer /\ CpuOf[t.from] = ch
    <3>1. ch \in Cpus /\ requests[ch] # <<>> /\ requests[ch] \in Seq(RequestOf(ch))
      BY <1>1, <2>1, <2>2, GrantedRequest DEF OwnInv
    <3>2. Head(requests[ch]) \in RequestOf(ch)
      BY <3>1, HeadTailProperties
    <3> QED
      BY <3>2 DEF RequestOf, Request, Transfer, Sent
  <2> QED
    BY <2>1, <2>2
<1> HIDE DEF ch, t
<1>6. G => <<t>> \in Seq(Transfer) /\ buffer[b] \o pipe'[b] = s \o <<t>>
  <2>1. ASSUME G PROVE <<t>> \in Seq(Transfer) /\ Append(pipe[b], t) = pipe[b] \o <<t>>
    BY <1>2, <1>5, <2>1, AppendIsConcat
  <2>2. \A u, v, w \in Seq(Transfer) : (u \o v) \o w = u \o (v \o w)
    BY ConcatAssociative
  <2>3. ASSUME G PROVE buffer[b] \o pipe'[b] = s \o <<t>>
    <3>1. pipe'[b] = pipe[b] \o <<t>> /\ <<t>> \in Seq(Transfer)
      BY <1>4, <2>1, <2>3
    <3>2. (buffer[b] \o pipe[b]) \o <<t>> = buffer[b] \o (pipe[b] \o <<t>>)
      BY <1>2, <2>2, <3>1, Zenon
    <3> QED
      BY <3>1, <3>2
  <2> QED
    BY <2>1, <2>3
<1> HIDE DEF s
<1>7. CASE c \in RequestGranted /\ Head(q).bank = b
  <2>1. G /\ ch = c
    BY <1>1, <1>5, <1>7, OneForBank
  <2>2. t = Sent(Head(q)) /\ Remaining[c] = Tail(q) /\ q # <<>>
    BY <1>1, <1>4, <1>7, <2>1, GrantedRequest DEF t
  <2>3. FromCpu(s \o <<t>>, c) \o Queued(Tail(q), b) = FromCpu(s, c) \o Queued(q, b)
    BY <1>2, <1>7, <2>2, PathOfMoved
  <2> QED
    BY <1>3, <1>6, <2>1, <2>2, <2>3
<1>8. CASE ~(c \in RequestGranted /\ Head(q).bank = b)
  <2>1. Queued(Remaining[c], b) = Queued(q, b)
    <3>1. CASE c \in RequestGranted
      BY <1>1, <1>2, <1>4, <1>8, <3>1, QueuedOfOther, GrantedRequest
    <3>2. CASE c \notin RequestGranted
      BY <1>4, <3>2
    <3> QED
      BY <3>1, <3>2
  <2>2. FromCpu(buffer[b] \o pipe'[b], c) = FromCpu(s, c)
    <3>1. CASE G
      <4>1. ch # c
        BY <1>5, <1>8, <3>1
      <4>2. CpuOf[t.from] # c /\ t \in Transfer
        BY <1>5, <3>1, <4>1
      <4>3. FromCpu(s \o <<t>>, c) = FromCpu(s, c)
        BY <1>2, <4>2, FromCpuOfOther
      <4> QED
        BY <1>6, <3>1, <4>3
    <3>2. CASE ~G
      BY <1>4, <3>2 DEF s
    <3> QED
      BY <3>1, <3>2
  <2> QED
    BY <1>3, <2>1, <2>2
<1> QED
  BY <1>7, <1>8

LEMMA ArbitrateSends ==
    ASSUME IInv, OwnInv, Arbitrate, NEW c \in Cpus, NEW b \in Banks
    PROVE  \E t \in Seq(Transfer) : Paths'[c][b] = Paths[c][b] \o t
<1>1. PICK sent, kept : Refilled(sent, kept)
  BY ArbitrateRefills
<1>2. QueueInv /\ RemainingInv /\ Transmit /\ buffer' = buffer
  BY RemainingHolds DEF IInv, Arbitrate
<1> DEFINE f == FromCpu(buffer[b] \o pipe'[b], c)
           q == Remaining[c]
<1>3. f \o Queued(q, b) = Paths[c][b]
  BY <1>2, PathWithoutSent
<1>4. f \in Seq(Transfer) /\ q \in Seq(Request) /\ Paths[c][b] \in Seq(Transfer)
  <2>1. pipe'[b] \in Seq(Transfer) /\ buffer[b] \in Seq(Transfer)
    BY ArbitratePreserves DEF IInv, BankInv
  <2>2. buffer[b] \o pipe'[b] \in Seq(Transfer)
    BY <2>1, ConcatProperties
  <2> QED
    BY <1>2, <2>2, FromCpuConcat, PathsType DEF RemainingInv
<1>5. Paths'[c][b] = f \o Queued(requests'[c], b)
  BY <1>2, PathsAre
<1>6. requests'[c] = IF c \in Freed THEN q \o sent[c] ELSE q
  BY <1>1 DEF Refilled
<1> HIDE DEF f, q
<1>7. CASE c \in Freed
  <2>1. sent[c] \in Seq(Request)
    BY <1>1, <1>2, <1>7, SentFits DEF Refilled
  <2>2. Queued(q \o sent[c], b) = Queued(q, b) \o Queued(sent[c], b)
    BY <1>4, <2>1, QueuedConcat
  <2>3. Queued(q, b) \in Seq(Transfer) /\ Queued(sent[c], b) \in Seq(Transfer)
    BY <1>4, <2>1, QueuedConcat
  <2>4. f \o (Queued(q, b) \o Queued(sent[c], b)) = (f \o Queued(q, b)) \o Queued(sent[c], b)
    <3>1. \A u, v, w \in Seq(Transfer) : u \o (v \o w) = (u \o v) \o w
      BY SMTT(30), ConcatAssociative
    <3> QED
      BY <1>4, <2>3, <3>1, ZenonT(30)
  <2>5. Paths'[c][b] = Paths[c][b] \o Queued(sent[c], b)
    BY <1>3, <1>5, <1>6, <1>7, <2>2, <2>4, ZenonT(30)
  <2> QED
    BY <2>3, <2>5
<1>8. CASE c \notin Freed
  <2>1. Paths'[c][b] = Paths[c][b]
    BY <1>3, <1>5, <1>6, <1>8
  <2>2. Paths[c][b] \o <<>> = Paths[c][b]
    BY <1>4, ConcatEmptySeq
  <2>3. <<>> \in Seq(Transfer)
    OBVIOUS
  <2> QED
    BY <2>1, <2>2, <2>3
<1> QED
  BY <1>7, <1>8

\* The answer that leaves the queue of a bank is on its way to the processor.
LEMMA ArbitrateKeepsReturning ==
    ASSUME IInv, Arbitrate PROVE Returning' = Returning
<1> DEFINE G == ResponseGranted
<1>1. /\ responses' = Popped(responses, G)
      /\ BackInv /\ BackInv' /\ Transmit
  BY ArbitratePreserves DEF Arbitrate, IInv
<1>2. /\ responses \in [Banks -> Seq(Response)] /\ G \in SUBSET Banks
      /\ \A b \in G : responses[b] # <<>>
  BY <1>1, GrantedResponse DEF BackInv
<1>3. ASSUME NEW i \in Interfaces
      PROVE  CountIn(responses', AnswersTo(i)) + Count(back'[CpuOf[i]], {i})
                = CountIn(responses, AnswersTo(i)) + Count(back[CpuOf[i]], {i})
  <2> DEFINE c == CpuOf[i]
             V == AnswersTo(i)
             found == \E b \in G : Receiver(b) = c
             ch == CHOOSE b \in G : Receiver(b) = c
             j == Head(responses[ch]).to
             gone == \E b \in G : Head(responses[b]) \in V
  <2>2. /\ c \in Cpus /\ back[c] \in Seq(Interfaces) /\ Count(back[c], {i}) \in Nat
        /\ back'[c] = IF found THEN Append(back[c], j) ELSE back[c]
    BY <1>1, Constants, CountIsNat DEF BackInv, Transmit
  <2>3. \A b \in G : /\ Head(responses[b]) \in Response /\ b \in Banks
                     /\ Receiver(b) = CpuOf[Head(responses[b]).to]
    BY <1>1, GrantedResponse DEF Receiver
  <2>4. \A b \in G : Head(responses[b]) \in V <=> Head(responses[b]).to = i
    BY <2>3 DEF AnswersTo
  <2>5. found => ch \in G /\ Receiver(ch) = c
    OBVIOUS
  <2> HIDE DEF ch, V
  <2>6. CountIn(responses, V) = CountIn(responses', V) + IF gone THEN 1 ELSE 0
    <3>1. \A a, b \in G : Head(responses[a]) \in V /\ Head(responses[b]) \in V => a = b
      BY <1>1, <2>3, <2>4, OneForCpu
    <3>2. responses' = WithoutHeads(responses, Banks, G)
      BY <1>1, <1>2 DEF Popped, WithoutHeads
    <3>3. IsFiniteSet(Banks)
      BY CrossbarAssumption
    <3>4. CountIn(responses, V) = CountIn(WithoutHeads(responses, Banks, G), V) + IF gone THEN 1 ELSE 0
      BY <1>2, <3>1, <3>3, CountInTails
    <3> QED
      BY <3>2, <3>4
  <2>7. Count(back'[c], {i}) = Count(back[c], {i}) + IF gone THEN 1 ELSE 0
    <3>1. CASE gone
      <4>1. PICK b \in G : Head(responses[b]).to = i
        BY <2>4, <3>1
      <4>2. found /\ ch = b
        BY <1>1, <2>3, <2>5, <4>1, OneForCpu
      <4>3. back'[c] = Append(back[c], i)
        BY <2>2, <4>1, <4>2
      <4>4. Count(Append(back[c], i), {i}) = Count(back[c], {i}) + IF i \in {i} THEN 1 ELSE 0
        BY <2>2, CountAppend
      <4> QED
        BY <2>2, <3>1, <4>3, <4>4
    <3>2. CASE ~gone /\ found
      <4>1. j # i /\ j \in Interfaces
        BY <2>3, <2>4, <2>5, <3>2 DEF Response
      <4>2. back'[c] = Append(back[c], j)
        BY <2>2, <3>2
      <4> HIDE DEF j, c
      <4>3. Count(Append(back[c], j), {i}) = Count(back[c], {i}) + IF j \in {i} THEN 1 ELSE 0
        BY <2>2, <4>1, CountAppend
      <4> QED
        BY <2>2, <3>2, <4>1, <4>2, <4>3
    <3>3. CASE ~gone /\ ~found
      BY <2>2, <3>3
    <3> QED
      BY <3>1, <3>2, <3>3
  <2> DEFINE x == CountIn(responses, V)
             y == Count(back[c], {i})
             x2 == CountIn(responses', V)
             y2 == Count(back'[c], {i})
  <2>8. x2 \in Nat /\ y \in Nat
    BY <1>1, <2>2, AnswersCount DEF BackInv
  <2> HIDE DEF x, y, x2, y2, gone
  <2>9. x2 + y2 = x + y
    <3>1. x = x2 + (IF gone THEN 1 ELSE 0) /\ y2 = y + (IF gone THEN 1 ELSE 0)
      BY <2>6, <2>7 DEF x, y, x2, y2
    <3> QED
      BY <2>8, <3>1
  <2> QED
    BY <2>9 DEF x, y, x2, y2, V
<1>4. /\ Returning \in [Interfaces -> Nat] /\ Returning' \in [Interfaces -> Nat]
      /\ \A i \in Interfaces :
            /\ Returning[i] = CountIn(responses, AnswersTo(i)) + Count(back[CpuOf[i]], {i})
            /\ Returning'[i] = CountIn(responses', AnswersTo(i)) + Count(back'[CpuOf[i]], {i})
  BY <1>1, ReturningType, ReturningTypeThen
<1>5. \A i \in Interfaces : Returning'[i] = Returning[i]
  BY <1>3, <1>4
<1> QED
  BY <1>4, <1>5

-----------------------------------------------------------------------------
(* The refinement.                                                         *)

LEMMA InitRefines == Init => Channel!Init
<1> SUFFICES ASSUME Init PROVE Channel!Init
  OBVIOUS
<1>1. ASSUME NEW c \in Cpus, NEW b \in Banks PROVE Path(c, b) = <<>>
  <2>1. buffer[b] = <<>> /\ pipe[b] = <<>> /\ requests[c] = <<>>
    BY DEF Init
  <2>2. FromCpu(<<>>, c) = <<>> /\ ToBank(<<>>, b) = <<>>
    BY OnlyOfNone DEF FromCpu, ToBank
  <2>3. AsTransfers(<<>>) = <<>> /\ <<>> \o <<>> = <<>>
    <3>1. <<>> \in Seq(Request) /\ Len(<<>>) = 0
      OBVIOUS
    <3>2. AsTransfers(<<>>) \in Seq(Transfer) /\ Len(AsTransfers(<<>>)) = 0
      BY <3>1, AsTransfersIs
    <3> QED
      BY <3>2, EmptySeq
  <2> QED
    BY <2>1, <2>2, <2>3 DEF Path
<1>2. BackInv
  BY InitEstablishes DEF IInv
<1>3. ASSUME NEW i \in Interfaces PROVE Returning[i] = 0
  <2>2. CountIn(responses, AnswersTo(i)) = 0
    <3>1. \A q \in DOMAIN responses : responses[q] = <<>>
      BY DEF Init
    <3> QED
      BY <3>1, CountInOfEmpty
  <2>3. back[CpuOf[i]] = <<>>
    BY Constants DEF Init
  <2>4. Count(<<>>, {i}) = 0
    <3>1. Places(<<>>, {i}) = {}
      BY DEF Places
    <3> QED
      BY <3>1, FS_EmptySet DEF Count
  <2> QED
    <3>1. Returning[i] = CountIn(responses, AnswersTo(i)) + Count(back[CpuOf[i]], {i})
      BY <1>2, ReturningType
    <3>2. Returning[i] = 0 + 0
      BY <2>2, <2>3, <2>4, <3>1
    <3> QED
      BY <3>2
<1>4. Paths = [c \in Cpus |-> [b \in Banks |-> <<>>]]
  BY <1>1 DEF Paths
<1>5. Returning = [i \in Interfaces |-> 0]
  BY <1>2, <1>3, ReturningType
<1> QED
  BY <1>4, <1>5 DEF Init, Channel!Init

LEMMA StepRefines == IInv /\ OwnInv /\ [Next]_vars => [Channel!Next]_(Channel!vars)
<1> SUFFICES ASSUME IInv, OwnInv, [Next]_vars PROVE [Channel!Next]_(Channel!vars)
  OBVIOUS
<1>1. ASSUME NEW i \in Interfaces,
             CacheRequests(i) \/ CacheSquashes(i) \/ RetrieveLater(i) \/ RetrieveNothing(i)
      PROVE  UNCHANGED Channel!vars
  BY <1>1, StutterStep DEF CacheRequests, CacheSquashes, RetrieveLater, RetrieveNothing,
     queueVars, bankVars, backVars
<1>2. ASSUME NEW i \in Interfaces, RetrieveRequest(i) PROVE Channel!Next
  BY <1>2, RetrieveRequestSends
<1>3. ASSUME Arbitrate PROVE Channel!Next
  <2>1. serving' = serving
    BY <1>3 DEF Arbitrate
  <2> QED
    BY <1>3, <2>1, ArbitrateSends, ArbitrateKeepsReturning, SendStep
<1>4. ASSUME NEW b \in Banks, DeliverToBank(b) \/ BankUnblocks(b) PROVE Channel!Next
  BY <1>4, DeliverToBankTakes, BankUnblocksTakes DEF Channel!Next
<1>5. ASSUME NEW b \in Banks, BankBlocks(b) PROVE UNCHANGED Channel!vars
  BY <1>5, StutterStep DEF BankBlocks, queueVars, backVars
<1>6. ASSUME NEW b \in Banks, NEW i \in Interfaces, BankResponds(b, i) PROVE Channel!Next
  BY <1>6, BankRespondsAnswers DEF Channel!Next
<1>7. ASSUME NEW c \in Cpus, DeliverToCache(c) PROVE Channel!Next
  BY <1>7, DeliverToCacheReceives DEF Channel!Next
<1>8. ASSUME UNCHANGED vars PROVE UNCHANGED Channel!vars
  BY <1>8, StutterStep DEF vars, queueVars, bankVars, backVars
<1> QED
  BY <1>1, <1>2, <1>3, <1>4, <1>5, <1>6, <1>7, <1>8, DeliverToBufferStutters, TickStutters
     DEF Next, Retrieve, Deliver

\* The crossbar implements the channel: whatever the interleaving of grants,
\* blocks and partial drains, each bank gets what a processor sends it in the
\* order it was sent, each request once, and each read is answered once.
THEOREM CrossbarIsAChannel == Spec => ChannelSpec
<1>1. Spec => [](IInv /\ OwnInv)
  BY InitEstablishes, NextPreserves, InitIsOwn, NextKeepsOwn, PTL DEF Spec
<1> QED
  BY <1>1, InitRefines, StepRefines, PTL DEF Spec, ChannelSpec, Channel!Spec
=============================================================================
