--------------------------- MODULE MemoryBus_proofs ---------------------------
(***************************************************************************)
(* The first part is about the controller alone, for queues, banks and a   *)
(* limit on the active pages of any size: its record of the open pages is  *)
(* right, its queues hold one request too many at most unless a traffic    *)
(* generator fills them, under the closed page policy it never has to      *)
(* close a page by force, and with a threshold no more requests pass the   *)
(* oldest one than it says.  The second is about the controller on its     *)
(* bus, with any latencies: a bank with an open page is ready whenever the *)
(* controller chooses, a blocked arbitration is put off within its own     *)
(* tick once at most, and the bus is granted in the order it was asked     *)
(* for; what the first part shows holds on the bus too.                    *)
(***************************************************************************)
EXTENDS MemoryBus, SequenceTheorems, FiniteSetTheorems, TLAPS

-----------------------------------------------------------------------------
(* The invariant, by the part of the state it is about.                    *)

QueueInv ==
    /\ readQueue \in Seq(Request)
    /\ writeQueue \in Seq(Request)
    /\ isBlockedFlag \in BOOLEAN
    /\ ~isBlockedFlag => WithinLimits

\* Work keeps the event in the main event queue.
EventInv ==
    /\ event \in {Idle, Now, Later}
    /\ isBlockedFlag => readQueue # <<>> \/ writeQueue # <<>>
    /\ readQueue # <<>> \/ writeQueue # <<>> => event # Idle

IsOpen(b) == openpage[b] # Closed
OpenBanks == {b \in Banks : IsOpen(b)}

PageInv ==
    /\ openpage \in [Banks -> Pages \union {Closed}]
    /\ activePages = openpage
    /\ \A b \in Banks : IsOpen(b) => BankOf[openpage[b]] = b
    /\ activatedAt \in [Banks -> Nat]
    /\ num_active_pages = Cardinality(OpenBanks)
    /\ active_bank_count = num_active_pages
    /\ num_active_pages <= MaxActive

CountInv ==
    /\ config \in Configs
    /\ numReqsPastOldest \in Nat
    /\ passed \in Nat
    /\ curTick \in Nat
    /\ due \in Nat
    /\ generated \in BOOLEAN
    /\ ~config.asr => highPriCPUID = Nobody

IInv == QueueInv /\ EventInv /\ PageInv /\ CountInv

\* With no generator its requests are nowhere, and a queue holds one too many at
\* most.
NotGenerated(q) == \A i \in 1 .. Len(q) : OwnerOf[q[i].page] # Generator

QuietInv ==
    /\ due = 0 /\ generated = FALSE
    /\ NotGenerated(readQueue) /\ NotGenerated(writeQueue)
    /\ Len(readQueue) <= ReadQueueSize + 1
    /\ Len(writeQueue) <= WriteQueueSize + 1

-----------------------------------------------------------------------------
(* Parts that a step leaves alone.                                         *)

LEMMA QueueUntouched ==
    ASSUME QueueInv, UNCHANGED queueVars
    PROVE  QueueInv'
BY DEF QueueInv, queueVars, WithinLimits

LEMMA EventUntouched ==
    ASSUME EventInv, UNCHANGED <<queueVars, event>>
    PROVE  EventInv'
BY DEF EventInv, queueVars

LEMMA PageUntouched ==
    ASSUME PageInv, UNCHANGED pageVars
    PROVE  PageInv'
BY DEF PageInv, pageVars, OpenBanks, IsOpen

LEMMA CountUntouched ==
    ASSUME CountInv, UNCHANGED <<config, orderVars, curTick, generatorVars, highPriCPUID>>
    PROVE  CountInv'
BY DEF CountInv, orderVars, generatorVars

-----------------------------------------------------------------------------
(* The queues.                                                             *)

LEMMA RemoveAtProperties ==
    ASSUME NEW S, NEW s \in Seq(S), NEW i \in 1 .. Len(s)
    PROVE  /\ RemoveAt(s, i) \in Seq(S)
           /\ Len(RemoveAt(s, i)) = Len(s) - 1
           /\ \A k \in 1 .. Len(s) - 1 :
                 RemoveAt(s, i)[k] = IF k < i THEN s[k] ELSE s[k + 1]
<1>1. Len(s) \in Nat
  BY LenProperties
<1> DEFINE front == SubSeq(s, 1, i - 1)
           back  == SubSeq(s, i + 1, Len(s))
<1>2. /\ front \in Seq(S) /\ Len(front) = i - 1
      /\ \A k \in 1 .. i - 1 : front[k] = s[k]
  BY SubSeqProperties
<1>3. /\ back \in Seq(S) /\ Len(back) = Len(s) - i
      /\ \A k \in 1 .. Len(s) - i : back[k] = s[i + k]
  BY SubSeqProperties
<1> HIDE DEF front, back
<1>4. /\ front \o back \in Seq(S) /\ Len(front \o back) = Len(s) - 1
      /\ \A k \in 1 .. Len(s) - 1 :
            (front \o back)[k] = IF k <= i - 1 THEN front[k] ELSE back[k - (i - 1)]
  BY <1>2, <1>3, ConcatProperties
<1>5. RemoveAt(s, i) = front \o back
  BY DEF RemoveAt, front, back
<1>6. ASSUME NEW k \in 1 .. Len(s) - 1
      PROVE  (front \o back)[k] = IF k < i THEN s[k] ELSE s[k + 1]
  <2>1. k \in Int /\ i \in Int /\ 1 <= k /\ k <= Len(s) - 1 /\ 1 <= i /\ i <= Len(s)
    BY <1>1
  <2>2. CASE k < i
    <3>1. k <= i - 1 /\ k \in 1 .. i - 1
      BY <2>1, <2>2
    <3> QED
      BY <1>2, <1>4, <2>2, <3>1
  <2>3. CASE ~(k < i)
    <3>1. ~(k <= i - 1) /\ k - (i - 1) \in 1 .. Len(s) - i /\ i + (k - (i - 1)) = k + 1
      BY <1>1, <2>1, <2>3
    <3> QED
      BY <1>3, <1>4, <2>3, <3>1
  <2> QED
    BY <2>2, <2>3
<1> QED
  BY <1>4, <1>5, <1>6

\* A slot is a place in one of the queues, and its request is there.
LEMMA SlotFacts ==
    ASSUME QueueInv, NEW s \in Slots
    PROVE  /\ Req(s) \in Request /\ Req(s).page \in Pages /\ Bank(s) \in Banks
           /\ \/ s[1] = Read /\ s[2] \in 1 .. Len(readQueue) /\ Req(s) = readQueue[s[2]]
              \/ /\ s[1] = Writeback /\ s[2] \in 1 .. Len(writeQueue)
                 /\ Req(s) = writeQueue[s[2]]
<1>1. DOMAIN readQueue = 1 .. Len(readQueue) /\ DOMAIN writeQueue = 1 .. Len(writeQueue)
  BY LenProperties DEF QueueInv
<1>2. \/ s[1] = Read /\ s[2] \in 1 .. Len(readQueue) /\ Req(s) = readQueue[s[2]]
      \/ s[1] = Writeback /\ s[2] \in 1 .. Len(writeQueue) /\ Req(s) = writeQueue[s[2]]
  BY <1>1, ControllerAssumption DEF Slots, Req
<1>3. Req(s) \in Request
  BY <1>2, ElementOfSeq DEF QueueInv
<1>4. Req(s).page \in Pages
  BY <1>3 DEF Request
<1> QED
  BY <1>2, <1>3, <1>4, ControllerAssumption DEF Bank

LEMMA SomeSlot ==
    ASSUME QueueInv
    PROVE  Slots # {} <=> readQueue # <<>> \/ writeQueue # <<>>
<1>1. /\ DOMAIN readQueue = 1 .. Len(readQueue) /\ Len(readQueue) \in Nat
      /\ DOMAIN writeQueue = 1 .. Len(writeQueue) /\ Len(writeQueue) \in Nat
      /\ readQueue # <<>> <=> Len(readQueue) # 0
      /\ writeQueue # <<>> <=> Len(writeQueue) # 0
  BY LenProperties, EmptySeq DEF QueueInv
<1>2. readQueue # <<>> <=> 1 \in DOMAIN readQueue
  BY <1>1
<1>3. writeQueue # <<>> <=> 1 \in DOMAIN writeQueue
  BY <1>1
<1>4. readQueue = <<>> => DOMAIN readQueue = {}
  BY <1>1
<1>5. writeQueue = <<>> => DOMAIN writeQueue = {}
  BY <1>1
<1> QED
  BY <1>2, <1>3, <1>4, <1>5 DEF Slots

-----------------------------------------------------------------------------
(* insertRequest                                                           *)

\* What an insertion does to the queues.
LEMMA Insertion ==
    ASSUME QueueInv, CountInv, NEW cmd \in {Read, Writeback}, NEW p \in Pages,
           InsertRequest(cmd, p)
    PROVE  \E req \in Request :
            /\ req.page = p
            /\ \/ /\ readQueue' = Append(readQueue, req)
                  /\ isBlockedFlag' = (isBlockedFlag \/ Full(readQueue', ReadQueueSize))
                  /\ writeQueue' = writeQueue
               \/ /\ writeQueue' = Append(writeQueue, req)
                  /\ isBlockedFlag' = (isBlockedFlag \/ Full(writeQueue', WriteQueueSize))
                  /\ readQueue' = readQueue
               \/ UNCHANGED queueVars
<1>1. PICK id \in NewIds :
        LET req == [id |-> id, page |-> p, at |-> curTick] IN
        \/ /\ cmd = Read
           /\ readQueue' = Append(readQueue, req)
           /\ isBlockedFlag' = (isBlockedFlag \/ Full(readQueue', ReadQueueSize))
           /\ UNCHANGED writeQueue
        \/ /\ cmd = Writeback /\ ~config.infiniteWriteBW
           /\ writeQueue' = Append(writeQueue, req)
           /\ isBlockedFlag' = (isBlockedFlag \/ Full(writeQueue', WriteQueueSize))
           /\ UNCHANGED readQueue
        \/ /\ cmd = Writeback /\ config.infiniteWriteBW
           /\ UNCHANGED queueVars
  BY DEF InsertRequest
<1>2. Len(readQueue) \in Nat /\ Len(writeQueue) \in Nat
  BY LenProperties DEF QueueInv
<1>3. id \in Nat
  BY <1>2 DEF NewIds
<1> DEFINE req == [id |-> id, page |-> p, at |-> curTick]
<1>4. req \in Request /\ req.page = p
  BY <1>3 DEF Request, CountInv
<1> QED
  BY <1>1, <1>4 DEF queueVars

LEMMA Lengths ==
    ASSUME QueueInv
    PROVE  /\ Len(readQueue) \in Nat /\ Len(writeQueue) \in Nat
           /\ ReadQueueSize \in Nat \ {0} /\ WriteQueueSize \in Nat \ {0}
           /\ readQueue = <<>> <=> Len(readQueue) = 0
           /\ writeQueue = <<>> <=> Len(writeQueue) = 0
BY LenProperties, EmptySeq, ControllerAssumption DEF QueueInv

LEMMA InsertKeepsQueues ==
    ASSUME QueueInv, EventInv, CountInv, NEW cmd \in {Read, Writeback}, NEW p \in Pages,
           InsertRequest(cmd, p)
    PROVE  QueueInv' /\ EventInv'
<1>1. PICK req \in Request :
         \/ /\ readQueue' = Append(readQueue, req)
            /\ isBlockedFlag' = (isBlockedFlag \/ Full(readQueue', ReadQueueSize))
            /\ writeQueue' = writeQueue
         \/ /\ writeQueue' = Append(writeQueue, req)
            /\ isBlockedFlag' = (isBlockedFlag \/ Full(writeQueue', WriteQueueSize))
            /\ readQueue' = readQueue
         \/ UNCHANGED queueVars
  BY Insertion
<1>2. event' = IF event = Idle THEN Now ELSE event
  BY DEF InsertRequest
<1>3. event' \in {Idle, Now, Later} /\ event' # Idle
  BY <1>2, ControllerAssumption DEF EventInv
<1>4. CASE /\ readQueue' = Append(readQueue, req)
           /\ isBlockedFlag' = (isBlockedFlag \/ Full(readQueue', ReadQueueSize))
           /\ writeQueue' = writeQueue
  <2>1. /\ readQueue' \in Seq(Request) /\ Len(readQueue') = Len(readQueue) + 1
        /\ readQueue' # <<>>
    BY <1>4, AppendProperties DEF QueueInv
  <2>2. isBlockedFlag' \in BOOLEAN
    BY <1>4 DEF QueueInv, Full
  <2>3. ~isBlockedFlag' => ~isBlockedFlag /\ ~(Len(readQueue') > ReadQueueSize)
    BY <1>4 DEF Full, QueueInv
  <2>4. Len(readQueue') \in Nat /\ ReadQueueSize \in Nat
    BY <2>1, Lengths
  <2>5. ~isBlockedFlag' => WithinLimits'
    BY <1>4, <2>3, <2>4 DEF QueueInv, WithinLimits
  <2> QED
    BY <1>3, <1>4, <2>1, <2>2, <2>5 DEF QueueInv, EventInv
<1>5. CASE /\ writeQueue' = Append(writeQueue, req)
           /\ isBlockedFlag' = (isBlockedFlag \/ Full(writeQueue', WriteQueueSize))
           /\ readQueue' = readQueue
  <2>1. /\ writeQueue' \in Seq(Request) /\ Len(writeQueue') = Len(writeQueue) + 1
        /\ writeQueue' # <<>>
    BY <1>5, AppendProperties DEF QueueInv
  <2>2. isBlockedFlag' \in BOOLEAN
    BY <1>5 DEF QueueInv, Full
  <2>3. ~isBlockedFlag' => ~isBlockedFlag /\ ~(Len(writeQueue') > WriteQueueSize)
    BY <1>5 DEF Full, QueueInv
  <2>4. Len(writeQueue') \in Nat /\ WriteQueueSize \in Nat
    BY <2>1, Lengths
  <2>5. ~isBlockedFlag' => WithinLimits'
    BY <1>5, <2>3, <2>4 DEF QueueInv, WithinLimits
  <2> QED
    BY <1>3, <1>5, <2>1, <2>2, <2>5 DEF QueueInv, EventInv
<1>6. CASE UNCHANGED queueVars
  BY <1>3, <1>6, QueueUntouched DEF EventInv, queueVars
<1> QED
  BY <1>1, <1>4, <1>5, <1>6

\* A cache sends only while the controller is not blocked.
LEMMA SendKeepsQuiet ==
    ASSUME QueueInv, CountInv, QuietInv, NEW cmd \in {Read, Writeback}, NEW p \in Pages,
           SendAddr(cmd, p)
    PROVE  QuietInv'
<1>1. /\ <<cmd, p>> \in config.traffic /\ ~isBlockedFlag /\ InsertRequest(cmd, p)
      /\ UNCHANGED generatorVars
  BY DEF SendAddr
<1>2. OwnerOf[p] # Generator
  <2>1. OwnerOf[<<cmd, p>>[2]] # Generator
    BY <1>1, ControllerAssumption DEF CountInv
  <2> QED
    BY <2>1
<1>3. PICK req \in Request :
         /\ req.page = p
         /\ \/ readQueue' = Append(readQueue, req) /\ writeQueue' = writeQueue
            \/ writeQueue' = Append(writeQueue, req) /\ readQueue' = readQueue
            \/ UNCHANGED queueVars
  BY <1>1, Insertion
<1>4. Len(readQueue) <= ReadQueueSize /\ Len(writeQueue) <= WriteQueueSize
  BY <1>1 DEF QueueInv, WithinLimits
<1>5. due' = 0 /\ generated' = FALSE
  BY <1>1 DEF QuietInv, generatorVars
<1>6. ASSUME NEW q \in Seq(Request), NotGenerated(q)
      PROVE  /\ NotGenerated(Append(q, req)) /\ Len(Append(q, req)) = Len(q) + 1
             /\ Len(q) \in Nat
  <2>1. /\ Len(Append(q, req)) = Len(q) + 1 /\ Len(q) \in Nat
        /\ \A i \in 1 .. Len(q) : Append(q, req)[i] = q[i]
        /\ Append(q, req)[Len(q) + 1] = req
    BY AppendProperties, LenProperties
  <2>2. ASSUME NEW i \in 1 .. Len(Append(q, req))
        PROVE  OwnerOf[Append(q, req)[i].page] # Generator
    <3>1. CASE i \in 1 .. Len(q)
      BY <1>6, <2>1, <3>1 DEF NotGenerated
    <3>2. CASE i = Len(q) + 1
      BY <1>2, <1>3, <2>1, <3>2
    <3>3. i \in 1 .. Len(q) \/ i = Len(q) + 1
      BY <2>1
    <3> QED
      BY <3>1, <3>2, <3>3
  <2> QED
    BY <2>1, <2>2 DEF NotGenerated
<1>7. CASE readQueue' = Append(readQueue, req) /\ writeQueue' = writeQueue
  <2>1. /\ NotGenerated(readQueue') /\ NotGenerated(writeQueue')
        /\ Len(readQueue') = Len(readQueue) + 1 /\ Len(writeQueue') = Len(writeQueue)
    BY <1>6, <1>7 DEF QueueInv, QuietInv
  <2>2. Len(readQueue') <= ReadQueueSize + 1 /\ Len(writeQueue') <= WriteQueueSize + 1
    BY <1>4, <2>1, Lengths
  <2> QED
    BY <1>5, <2>1, <2>2 DEF QuietInv, NotGenerated
<1>8. CASE writeQueue' = Append(writeQueue, req) /\ readQueue' = readQueue
  <2>1. /\ NotGenerated(readQueue') /\ NotGenerated(writeQueue')
        /\ Len(writeQueue') = Len(writeQueue) + 1 /\ Len(readQueue') = Len(readQueue)
    BY <1>6, <1>8 DEF QueueInv, QuietInv
  <2>2. Len(readQueue') <= ReadQueueSize + 1 /\ Len(writeQueue') <= WriteQueueSize + 1
    BY <1>4, <2>1, Lengths
  <2> QED
    BY <1>5, <2>1, <2>2 DEF QuietInv, NotGenerated
<1>9. CASE UNCHANGED queueVars
  BY <1>5, <1>9 DEF QuietInv, queueVars, NotGenerated
<1> QED
  BY <1>3, <1>7, <1>8, <1>9

-----------------------------------------------------------------------------
(* Issuing a request.                                                      *)

LEMMA IssueKeepsQueues ==
    ASSUME QueueInv, EventInv, NEW s \in Slots, Issue(s)
    PROVE  QueueInv' /\ EventInv'
<1>1. /\ isBlockedFlag' = (isBlockedFlag /\ ~WithinLimits)
      /\ readQueue' = IF s[1] = Read THEN RemoveAt(readQueue, s[2]) ELSE readQueue
      /\ writeQueue' = IF s[1] = Writeback THEN RemoveAt(writeQueue, s[2]) ELSE writeQueue
      /\ event' = Later
  BY DEF Issue
<1>2. \/ /\ s[1] = Read /\ s[2] \in 1 .. Len(readQueue)
         /\ readQueue' = RemoveAt(readQueue, s[2]) /\ writeQueue' = writeQueue
      \/ /\ s[1] = Writeback /\ s[2] \in 1 .. Len(writeQueue)
         /\ writeQueue' = RemoveAt(writeQueue, s[2]) /\ readQueue' = readQueue
  BY <1>1, SlotFacts, ControllerAssumption
<1> DEFINE m == Len(readQueue)
           n == Len(writeQueue)
           m2 == Len(readQueue')
           n2 == Len(writeQueue')
<1>3. /\ readQueue' \in Seq(Request) /\ writeQueue' \in Seq(Request)
      /\ \/ m2 = m - 1 /\ n2 = n
         \/ m2 = m /\ n2 = n - 1
  BY <1>2, RemoveAtProperties DEF QueueInv
<1>4. /\ m \in Nat /\ n \in Nat /\ m2 \in Nat /\ n2 \in Nat
      /\ ReadQueueSize \in Nat \ {0} /\ WriteQueueSize \in Nat \ {0}
      /\ readQueue' = <<>> <=> m2 = 0
      /\ writeQueue' = <<>> <=> n2 = 0
  BY <1>3, Lengths, LenProperties, EmptySeq
<1>5. WithinLimits <=> m <= ReadQueueSize /\ n <= WriteQueueSize
  BY DEF WithinLimits
<1>6. WithinLimits' <=> m2 <= ReadQueueSize /\ n2 <= WriteQueueSize
  BY DEF WithinLimits
<1> HIDE DEF m, n, m2, n2
<1>7. isBlockedFlag' \in BOOLEAN /\ (~isBlockedFlag' => WithinLimits)
  BY <1>1 DEF QueueInv
<1>8. ~isBlockedFlag' => WithinLimits'
  BY <1>3, <1>4, <1>5, <1>6, <1>7
<1>9. isBlockedFlag' => readQueue' # <<>> \/ writeQueue' # <<>>
  <2>1. isBlockedFlag' => ~WithinLimits
    BY <1>1
  <2>2. isBlockedFlag' => ~(m <= ReadQueueSize /\ n <= WriteQueueSize)
    BY <1>5, <2>1
  <2>3. ~(m <= ReadQueueSize /\ n <= WriteQueueSize) => m2 # 0 \/ n2 # 0
    BY <1>3, <1>4
  <2> QED
    BY <1>4, <2>2, <2>3
<1> QED
  BY <1>1, <1>3, <1>7, <1>8, <1>9, ControllerAssumption DEF QueueInv, EventInv

LEMMA IssueKeepsCounts ==
    ASSUME CountInv, NEW s \in Slots, Issue(s), numReqsPastOldest' \in Nat
    PROVE  CountInv'
<1>1. /\ passed' = IF Counted /\ ~First(s, Slots) THEN passed + 1 ELSE 0
      /\ generated' = (OwnerOf[Req(s).page] = Generator)
      /\ UNCHANGED <<config, highPriCPUID, curTick, due>>
  BY DEF Issue
<1>2. passed' \in Nat /\ generated' \in BOOLEAN
  BY <1>1 DEF CountInv
<1> QED
  BY <1>1, <1>2 DEF CountInv

LEMMA IssueKeepsQuiet ==
    ASSUME QueueInv, QuietInv, NEW s \in Slots, Issue(s)
    PROVE  QuietInv'
<1>1. \/ /\ s[2] \in 1 .. Len(readQueue) /\ Req(s) = readQueue[s[2]]
         /\ readQueue' = RemoveAt(readQueue, s[2]) /\ writeQueue' = writeQueue
      \/ /\ s[2] \in 1 .. Len(writeQueue) /\ Req(s) = writeQueue[s[2]]
         /\ writeQueue' = RemoveAt(writeQueue, s[2]) /\ readQueue' = readQueue
  BY SlotFacts, ControllerAssumption DEF Issue
<1>2. OwnerOf[Req(s).page] # Generator
  BY <1>1 DEF QuietInv, NotGenerated
<1>3. due' = 0 /\ generated' = FALSE
  BY <1>2 DEF Issue, QuietInv
<1>4. ASSUME NEW q \in Seq(Request), NEW i \in 1 .. Len(q), NotGenerated(q)
      PROVE  NotGenerated(RemoveAt(q, i)) /\ Len(RemoveAt(q, i)) = Len(q) - 1
  <2>1. /\ Len(RemoveAt(q, i)) = Len(q) - 1 /\ Len(q) \in Nat
        /\ \A k \in 1 .. Len(q) - 1 : RemoveAt(q, i)[k] = IF k < i THEN q[k] ELSE q[k + 1]
    BY RemoveAtProperties, LenProperties
  <2>2. \A k \in 1 .. Len(q) - 1 : k \in 1 .. Len(q) /\ k + 1 \in 1 .. Len(q)
    BY <2>1
  <2>3. \A k \in 1 .. Len(q) - 1 : OwnerOf[RemoveAt(q, i)[k].page] # Generator
    BY <1>4, <2>1, <2>2 DEF NotGenerated
  <2> QED
    BY <2>1, <2>3 DEF NotGenerated
<1>5. /\ NotGenerated(readQueue') /\ NotGenerated(writeQueue')
      /\ Len(readQueue') \in {Len(readQueue), Len(readQueue) - 1}
      /\ Len(writeQueue') \in {Len(writeQueue), Len(writeQueue) - 1}
  BY <1>1, <1>4 DEF QueueInv, QuietInv
<1>6. Len(readQueue') <= ReadQueueSize + 1 /\ Len(writeQueue') <= WriteQueueSize + 1
  BY <1>5, Lengths DEF QuietInv
<1> QED
  BY <1>3, <1>5, <1>6 DEF QuietInv, NotGenerated

-----------------------------------------------------------------------------
(* The pages.                                                              *)

LEMMA OpenIsFinite ==
    ASSUME PageInv
    PROVE  /\ IsFiniteSet(OpenBanks) /\ num_active_pages \in Nat
           /\ MaxActive \in Nat \ {0}
<1>1. OpenBanks \in SUBSET Banks
  BY DEF OpenBanks
<1>2. IsFiniteSet(OpenBanks)
  BY <1>1, FS_Subset, ControllerAssumption
<1> QED
  BY <1>2, FS_CardinalityType, ControllerAssumption DEF PageInv

LEMMA GetActivateKeepsPages ==
    ASSUME QueueInv, PageInv, CountInv, GetActivate
    PROVE  PageInv'
<1>1. PICK s \in ToActivate :
        /\ activePages' = [activePages EXCEPT ![Bank(s)] = Req(s).page]
        /\ activatedAt' = [activatedAt EXCEPT ![Bank(s)] = curTick]
        /\ openpage' = [openpage EXCEPT ![Bank(s)] = Req(s).page]
  BY DEF GetActivate
<1>2. /\ num_active_pages' = num_active_pages + 1
      /\ active_bank_count' = active_bank_count + 1
  BY DEF GetActivate
<1>3. s \in Slots /\ num_active_pages < MaxActive /\ bankIsClosed(s)
  BY <1>1 DEF ToActivate, Considered
<1>4. PICK b \in Banks : b = Bank(s)
  BY <1>3, SlotFacts
<1>5. PICK p \in Pages : p = Req(s).page
  BY <1>3, SlotFacts
<1>6. BankOf[p] = b /\ ~IsOpen(b) /\ p # Closed
  BY <1>3, <1>4, <1>5, ControllerAssumption DEF Bank, bankIsClosed, IsOpen
<1>7. /\ activePages' = [activePages EXCEPT ![b] = p]
      /\ openpage' = [openpage EXCEPT ![b] = p]
      /\ activatedAt' = [activatedAt EXCEPT ![b] = curTick]
  BY <1>1, <1>4, <1>5
<1>8. openpage'[b] = p /\ \A a \in Banks \ {b} : openpage'[a] = openpage[a]
  BY <1>7 DEF PageInv
<1>9. OpenBanks' = OpenBanks \union {b} /\ b \notin OpenBanks
  BY <1>6, <1>8 DEF OpenBanks, IsOpen
<1>10. Cardinality(OpenBanks') = Cardinality(OpenBanks) + 1
  BY <1>9, OpenIsFinite, FS_AddElement
<1>11. num_active_pages' <= MaxActive
  BY <1>2, <1>3, OpenIsFinite
<1>12. \A a \in Banks : IsOpen(a)' => BankOf[openpage'[a]] = a
  BY <1>6, <1>8 DEF PageInv, IsOpen
<1>13. activatedAt' \in [Banks -> Nat]
  BY <1>7 DEF PageInv, CountInv
<1>14. openpage' \in [Banks -> Pages \union {Closed}]
  BY <1>7 DEF PageInv
<1>15. activePages' = openpage'
  BY <1>7 DEF PageInv
<1> QED
  BY <1>2, <1>10, <1>11, <1>12, <1>13, <1>14, <1>15 DEF PageInv, IsOpen

LEMMA CloseKeepsPages ==
    ASSUME PageInv, NEW b \in Banks, IsOpen(b), CloseBank(b, b)
    PROVE  PageInv'
<1>1. /\ activePages' = [activePages EXCEPT ![b] = Closed]
      /\ openpage' = [openpage EXCEPT ![b] = Closed]
      /\ activatedAt' = [activatedAt EXCEPT ![b] = 0]
      /\ num_active_pages' = num_active_pages - 1
      /\ active_bank_count' = active_bank_count - 1
  BY DEF CloseBank
<1>2. openpage'[b] = Closed /\ \A a \in Banks \ {b} : openpage'[a] = openpage[a]
  BY <1>1 DEF PageInv
<1>3. OpenBanks' = OpenBanks \ {b} /\ b \in OpenBanks
  BY <1>2 DEF OpenBanks, IsOpen
<1>4. Cardinality(OpenBanks') = Cardinality(OpenBanks) - 1
  BY <1>3, OpenIsFinite, FS_RemoveElement
<1>5. num_active_pages' <= MaxActive
  BY <1>1, OpenIsFinite DEF PageInv
<1>6. \A a \in Banks : IsOpen(a)' => BankOf[openpage'[a]] = a
  BY <1>2 DEF PageInv, IsOpen
<1>7. /\ activatedAt' \in [Banks -> Nat] /\ openpage' \in [Banks -> Pages \union {Closed}]
      /\ activePages' = openpage'
  BY <1>1 DEF PageInv
<1> QED
  BY <1>1, <1>4, <1>5, <1>6, <1>7 DEF PageInv, IsOpen

\* Whatever closes a bank closes an open one, and the one it means to close.
LEMMA GetCloseKeepsPages ==
    ASSUME PageInv, GetClose
    PROVE  PageInv'
<1>1. PICK b \in ToClose : CloseBank(b, BankOf[activePages[b]])
  BY DEF GetClose
<1>2. b \in Banks /\ IsOpen(b) /\ BankOf[activePages[b]] = b
  BY <1>1 DEF ToClose, PageInv, IsOpen
<1> QED
  BY <1>1, <1>2, CloseKeepsPages

LEMMA CloseForOldestKeepsPages ==
    ASSUME QueueInv, PageInv, CloseForOldest
    PROVE  PageInv'
<1>1. PICK s \in Considered :
        \/ ~bankIsClosed(s) /\ CloseBank(Bank(s), Bank(s))
        \/ /\ bankIsClosed(s)
           /\ \E b \in Banks : OpenLongest(b) /\ CloseBank(b, BankOf[activePages[b]])
  BY DEF CloseForOldest
<1>2. Bank(s) \in Banks
  BY <1>1, SlotFacts DEF Considered
<1>3. CASE ~bankIsClosed(s) /\ CloseBank(Bank(s), Bank(s))
  <2>1. IsOpen(Bank(s))
    BY <1>3 DEF bankIsClosed, IsOpen
  <2> QED
    BY <1>2, <1>3, <2>1, CloseKeepsPages
<1>4. CASE \E b \in Banks : OpenLongest(b) /\ CloseBank(b, BankOf[activePages[b]])
  <2>1. PICK b \in Banks : OpenLongest(b) /\ CloseBank(b, BankOf[activePages[b]])
    BY <1>4
  <2>2. IsOpen(b) /\ BankOf[activePages[b]] = b
    BY <2>1 DEF OpenLongest, PageInv, IsOpen
  <2> QED
    BY <2>1, <2>2, CloseKeepsPages
<1> QED
  BY <1>1, <1>3, <1>4

\* A close leaves everything else alone.
LEMMA CloseKeepsRest ==
    ASSUME QueueInv, EventInv, CountInv, numReqsPastOldest' \in Nat,
           NEW k, NEW b, CloseBank(k, b)
    PROVE  QueueInv' /\ EventInv' /\ CountInv'
<1>1. UNCHANGED <<config, queueVars, highPriCPUID, event, curTick, generatorVars, passed>>
  BY DEF CloseBank
<1>2. QueueInv' /\ EventInv'
  BY <1>1, QueueUntouched, EventUntouched
<1> QED
  BY <1>1, <1>2 DEF CountInv, generatorVars

-----------------------------------------------------------------------------
(* Time passes: ranks take the place of ticks.                             *)

LEMMA RankIsNat ==
    ASSUME NEW S \in SUBSET Nat, NEW t \in Nat
    PROVE  RankIn(S, t) \in Nat
<1> DEFINE A == {u \in S : u < t}
<1>1. A \in SUBSET (0 .. t)
  <2> SUFFICES ASSUME NEW u \in A PROVE u \in 0 .. t
    OBVIOUS
  <2>1. u \in Nat /\ u < t
    OBVIOUS
  <2> QED
    BY <2>1
<1>2. IsFiniteSet(0 .. t)
  BY FS_Interval
<1> HIDE DEF A
<1>3. Cardinality(A) \in Nat
  BY <1>1, <1>2, FS_Subset, FS_CardinalityType
<1> QED
  BY <1>3 DEF RankIn, A

\* The ticks of the requests in one queue.
TicksOf(q) == {q[i].at : i \in DOMAIN q}

LEMMA TicksAreFinite ==
    ASSUME NEW q \in Seq(Request)
    PROVE  TicksOf(q) \in SUBSET Nat /\ IsFiniteSet(TicksOf(q))
<1>1. DOMAIN q = 1 .. Len(q) /\ Len(q) \in Nat
  BY LenProperties
<1>2. IsFiniteSet(DOMAIN q)
  BY <1>1, FS_Interval
<1>3. \A i \in DOMAIN q : q[i] \in Request
  BY <1>1, ElementOfSeq
<1>4. TicksOf(q) \in SUBSET Nat
  BY <1>3 DEF TicksOf, Request
<1> DEFINE f == [i \in DOMAIN q |-> q[i].at]
<1>5. f \in Surjection(DOMAIN q, TicksOf(q))
  BY DEF Surjection, TicksOf
<1> HIDE DEF f
<1> QED
  BY <1>2, <1>4, <1>5, FS_Surjection

LEMMA InsertionsAreFinite ==
    ASSUME QueueInv
    PROVE  Insertions \in SUBSET Nat /\ IsFiniteSet(Insertions)
<1>1. Insertions = TicksOf(readQueue) \union TicksOf(writeQueue)
  BY DEF Insertions, TicksOf, Range
<1> QED
  BY <1>1, TicksAreFinite, FS_Union DEF QueueInv

LEMMA ActivationsAreFinite ==
    ASSUME PageInv
    PROVE  Activations \in SUBSET Nat /\ IsFiniteSet(Activations)
<1> DEFINE S == {c \in Banks : activePages[c] # Closed}
           f == [b \in S |-> activatedAt[b]]
<1>1. IsFiniteSet(S)
  <2>1. S \in SUBSET Banks
    OBVIOUS
  <2> QED
    BY <2>1, FS_Subset, ControllerAssumption
<1>2. f \in Surjection(S, Activations)
  BY DEF Surjection, Activations
<1>3. Activations \in SUBSET Nat
  BY DEF Activations, PageInv
<1> HIDE DEF f, S
<1> QED
  BY <1>1, <1>2, <1>3, FS_Surjection

\* A queue keeps its length and its pages.
Ranked(q) == [i \in DOMAIN q |-> [q[i] EXCEPT !.at = RankIn(Insertions, @)]]

LEMMA RankedQueue ==
    ASSUME QueueInv, NEW q \in Seq(Request)
    PROVE  /\ Ranked(q) \in Seq(Request) /\ Len(Ranked(q)) = Len(q)
           /\ \A i \in 1 .. Len(q) : Ranked(q)[i].page = q[i].page
<1> DEFINE k == Len(q)
           at(i) == RankIn(Insertions, q[i].at)
<1>1. k \in Nat /\ DOMAIN q = 1 .. k /\ \A i \in 1 .. k : q[i] \in Request
  BY LenProperties, ElementOfSeq
<1>2. \A i \in 1 .. k : at(i) \in Nat
  BY <1>1, InsertionsAreFinite, RankIsNat DEF Request
<1>3. Ranked(q) = [i \in 1 .. k |-> [q[i] EXCEPT !.at = at(i)]]
  BY <1>1 DEF Ranked
<1> HIDE DEF k, at
<1>4. \A i \in 1 .. k : /\ [q[i] EXCEPT !.at = at(i)] \in Request
                        /\ [q[i] EXCEPT !.at = at(i)].page = q[i].page
  BY <1>1, <1>2 DEF Request
<1>5. Ranked(q) \in [1 .. k -> Request]
  BY <1>3, <1>4
<1>6. Ranked(q) \in Seq(Request) /\ Len(Ranked(q)) = k
  BY <1>1, <1>5
<1>7. \A i \in 1 .. k : Ranked(q)[i].page = q[i].page
  BY <1>3, <1>4
<1> QED
  BY <1>6, <1>7 DEF k

LEMMA NextTickPreserves ==
    ASSUME IInv, NextTick
    PROVE  IInv'
<1> USE DEF IInv
<1>1. /\ readQueue' = Ranked(readQueue) /\ writeQueue' = Ranked(writeQueue)
      /\ activatedAt' = [b \in Banks |-> IF activePages[b] = Closed THEN 0
                                         ELSE RankIn(Activations, activatedAt[b])]
      /\ curTick' = Cardinality(Insertions) + Cardinality(Activations)
      /\ UNCHANGED <<config, isBlockedFlag, activePages, num_active_pages, openpage,
                     active_bank_count, orderVars, highPriCPUID>>
  BY DEF NextTick, Ranked
<1>2. \/ event = Later /\ event' = Now /\ generated' = FALSE /\ due' \in {0, 1}
      \/ UNCHANGED <<event, generatorVars>>
  BY DEF NextTick
<1>3. /\ readQueue' \in Seq(Request) /\ Len(readQueue') = Len(readQueue)
      /\ writeQueue' \in Seq(Request) /\ Len(writeQueue') = Len(writeQueue)
  BY <1>1, RankedQueue DEF QueueInv
<1>4. /\ readQueue' = <<>> <=> readQueue = <<>>
      /\ writeQueue' = <<>> <=> writeQueue = <<>>
  BY <1>3, EmptySeq DEF QueueInv
<1>5. QueueInv'
  BY <1>1, <1>3 DEF QueueInv, WithinLimits
<1>6. EventInv'
  BY <1>1, <1>2, <1>4, ControllerAssumption DEF EventInv
<1>7. activatedAt' \in [Banks -> Nat]
  <2>1. \A b \in Banks : RankIn(Activations, activatedAt[b]) \in Nat
    BY ActivationsAreFinite, RankIsNat DEF PageInv
  <2> QED
    BY <1>1, <2>1
<1>8. PageInv'
  BY <1>1, <1>7 DEF PageInv, OpenBanks, IsOpen
<1>9. curTick' \in Nat
  <2>1. Cardinality(Insertions) \in Nat /\ Cardinality(Activations) \in Nat
    BY InsertionsAreFinite, ActivationsAreFinite, FS_CardinalityType
  <2> QED
    BY <1>1, <2>1
<1>10. due' \in Nat /\ generated' \in BOOLEAN
  <2>1. due \in Nat /\ generated \in BOOLEAN
    BY DEF CountInv
  <2>2. due' \in {0, 1} \/ due' = due
    BY <1>2 DEF generatorVars
  <2>3. due' \in Nat
    BY <2>1, <2>2
  <2>4. generated' = FALSE \/ generated' = generated
    BY <1>2 DEF generatorVars
  <2>5. generated' \in BOOLEAN
    BY <2>1, <2>4, Zenon
  <2> QED
    BY <2>3, <2>5
<1>11. passed' = passed /\ numReqsPastOldest' = numReqsPastOldest
  BY <1>1 DEF orderVars
<1>12. CountInv'
  BY <1>1, <1>9, <1>10, <1>11 DEF CountInv
<1> QED
  BY <1>5, <1>6, <1>8, <1>12

LEMMA NextTickKeepsQuiet ==
    ASSUME QueueInv, QuietInv, NextTick
    PROVE  QuietInv'
<1>1. /\ readQueue' = Ranked(readQueue) /\ writeQueue' = Ranked(writeQueue)
      /\ due' = 0 /\ generated' = FALSE
  BY DEF NextTick, Ranked, QuietInv, generatorVars
<1>2. ASSUME NEW q \in Seq(Request), NotGenerated(q)
      PROVE  NotGenerated(Ranked(q)) /\ Len(Ranked(q)) = Len(q)
  BY <1>2, RankedQueue DEF NotGenerated
<1>3. /\ NotGenerated(readQueue') /\ Len(readQueue') = Len(readQueue)
      /\ NotGenerated(writeQueue') /\ Len(writeQueue') = Len(writeQueue)
  BY <1>1, <1>2 DEF QueueInv, QuietInv
<1> QED
  BY <1>1, <1>3 DEF QuietInv, NotGenerated

-----------------------------------------------------------------------------
(* The closed page policy.                                                 *)

\* Where no processor has priority every request counts.
LEMMA ConsideredAll ==
    ASSUME QueueInv, CountInv, ~config.asr
    PROVE  Considered = Slots
<1>1. \A s \in Slots : OwnerOf[Req(s).page] # highPriCPUID
  BY SlotFacts, ControllerAssumption DEF CountInv
<1> QED
  BY <1>1 DEF Considered

\* A page nobody waits for is closed, and so a page that is open is waited for;
\* while pages may be opened, one that is waited for is opened.
LEMMA HitWaits ==
    ASSUME QueueInv, PageInv, CountInv, config.closedPagePolicy,
           hasMoreRequests, ToActivate = {}, ToClose = {}
    PROVE  \E s \in Slots : isActive(s)
<1>1. ASSUME NEW b \in Banks, IsOpen(b) PROVE \E s \in Slots : isActive(s)
  <2>1. PICK s \in Slots : Req(s).page = openpage[b]
    BY <1>1 DEF ToClose, PageInv, IsOpen
  <2>2. Bank(s) = b
    BY <1>1, <2>1 DEF PageInv, Bank
  <2> QED
    BY <2>1, <2>2 DEF isActive
<1>2. CASE OpenBanks = {}
  <2>1. num_active_pages = 0
    BY <1>2, FS_EmptySet DEF PageInv
  <2>2. PICK s \in Considered : TRUE
    BY <2>1 DEF hasMoreRequests, Considered
  <2>3. s \in Slots /\ Bank(s) \in Banks /\ Req(s).page \in Pages
    BY <2>2, SlotFacts DEF Considered
  <2>4. bankIsClosed(s) /\ ~isActive(s)
    BY <1>2, <2>3, ControllerAssumption DEF OpenBanks, IsOpen, bankIsClosed, isActive
  <2>5. num_active_pages < MaxActive
    BY <2>1, ControllerAssumption
  <2> QED
    BY <2>2, <2>4, <2>5 DEF ToActivate
<1> QED
  BY <1>1, <1>2 DEF OpenBanks

-----------------------------------------------------------------------------
(* Every behaviour satisfies the invariant.                                *)

LEMMA InitEstablishes == Init => IInv
<1> SUFFICES ASSUME Init PROVE IInv
  OBVIOUS
<1>1. QueueInv
  <2>1. <<>> \in Seq(Request) /\ Len(<<>>) = 0
    BY EmptySeq
  <2>2. Len(readQueue) = 0 /\ Len(writeQueue) = 0
    BY <2>1 DEF Init
  <2>3. WithinLimits
    BY <2>2, ControllerAssumption DEF WithinLimits
  <2> QED
    BY <2>1, <2>3 DEF Init, QueueInv
<1>2. EventInv
  BY DEF Init, EventInv
<1>3. PageInv
  <2>1. OpenBanks = {}
    BY DEF Init, OpenBanks, IsOpen
  <2>2. Cardinality(OpenBanks) = 0
    BY <2>1, FS_EmptySet
  <2> QED
    BY <2>1, <2>2, ControllerAssumption DEF Init, PageInv, OpenBanks
<1>4. CountInv
  BY ControllerAssumption DEF Init, CountInv, Config
<1> QED
  BY <1>1, <1>2, <1>3, <1>4 DEF IInv

\* Each command, but for the counters of requests.
LEMMA CommandPreserves ==
    ASSUME IInv, HandleMemoryController
    PROVE  IInv'
<1> USE DEF IInv
<1>1. CASE GetActivate
  <2>1. UNCHANGED <<config, queueVars, orderVars, highPriCPUID, event, curTick, generatorVars>>
    BY <1>1 DEF GetActivate
  <2> QED
    BY <1>1, <2>1, GetActivateKeepsPages, QueueUntouched, EventUntouched, CountUntouched
<1>2. CASE GetClose
  <2>1. numReqsPastOldest' \in Nat /\ \E b : CloseBank(b, BankOf[activePages[b]])
    BY <1>2 DEF GetClose, CountInv
  <2> QED
    BY <1>2, <2>1, GetCloseKeepsPages, CloseKeepsRest
<1>3. CASE GetReady
  <2>1. PICK s \in ToIssue :
          /\ Issue(s)
          /\ numReqsPastOldest' =
                 IF config.starvationPreventionThreshold = Unlimited
                    \/ First(s, Considered)
                 THEN 0 ELSE numReqsPastOldest + 1
    BY <1>3 DEF GetReady
  <2>2. s \in Slots
    BY <2>1 DEF ToIssue, Considered
  <2>3. numReqsPastOldest' \in Nat
    BY <2>1 DEF CountInv
  <2>4. UNCHANGED pageVars
    BY <2>1 DEF Issue
  <2> QED
    BY <2>1, <2>2, <2>3, <2>4, IssueKeepsQueues, IssueKeepsCounts, PageUntouched
<1>4. CASE IssueOldest
  <2>1. PICK s \in Considered : Issue(s) /\ numReqsPastOldest' = 0
    BY <1>4 DEF IssueOldest
  <2>2. s \in Slots
    BY <2>1 DEF Considered
  <2>3. UNCHANGED pageVars
    BY <2>1 DEF Issue
  <2> QED
    BY <2>1, <2>2, <2>3, IssueKeepsQueues, IssueKeepsCounts, PageUntouched
<1>5. CASE CloseForOldest
  <2>1. numReqsPastOldest' \in Nat /\ \E k, b : CloseBank(k, b)
    BY <1>5 DEF CloseForOldest
  <2> QED
    BY <1>5, <2>1, CloseForOldestKeepsPages, CloseKeepsRest
<1>6. CASE Rest
  <2>1. /\ event' = Idle /\ ~hasMoreRequests
        /\ UNCHANGED <<config, queueVars, pageVars, orderVars, highPriCPUID, curTick,
                       generatorVars>>
    BY <1>6 DEF Rest
  <2>2. readQueue = <<>> /\ writeQueue = <<>>
    BY <2>1, SomeSlot DEF hasMoreRequests
  <2>3. EventInv'
    BY <2>1, <2>2 DEF EventInv, queueVars
  <2> QED
    BY <2>1, <2>3, QueueUntouched, PageUntouched, CountUntouched
<1> QED
  BY <1>1, <1>2, <1>3, <1>4, <1>5, <1>6 DEF HandleMemoryController

LEMMA NextPreserves == IInv /\ [Next]_vars => IInv'
<1> SUFFICES ASSUME IInv, [Next]_vars PROVE IInv'
  OBVIOUS
<1> USE DEF IInv
<1>1. ASSUME NEW cmd \in {Read, Writeback}, NEW p \in Pages, InsertRequest(cmd, p),
             due' \in Nat, generated' = generated
      PROVE  IInv'
  <2>1. UNCHANGED <<config, pageVars, orderVars, highPriCPUID, curTick>>
    BY <1>1 DEF InsertRequest
  <2>2. CountInv'
    BY <1>1, <2>1 DEF CountInv, orderVars
  <2> QED
    BY <1>1, <2>1, <2>2, InsertKeepsQueues, PageUntouched
<1>2. ASSUME NEW cmd \in {Read, Writeback}, NEW p \in Pages, SendAddr(cmd, p)
      PROVE  IInv'
  <2>1. InsertRequest(cmd, p) /\ due' \in Nat /\ generated' = generated
    BY <1>2 DEF SendAddr, generatorVars, CountInv
  <2> QED
    BY <1>1, <2>1
<1>3. ASSUME NEW p \in Pages, SendGeneratedRequest(p) PROVE IInv'
  <2>1. InsertRequest(Read, p) /\ due' \in Nat /\ generated' = generated
    BY <1>3 DEF SendGeneratedRequest, CountInv
  <2> QED
    BY <1>1, <2>1
<1>4. ASSUME NEW p \in Pages, SetASRHighPriCPUID(OwnerOf[p]) PROVE IInv'
  <2>1. /\ config.asr
        /\ UNCHANGED <<config, queueVars, pageVars, orderVars, event, curTick, generatorVars>>
    BY <1>4 DEF SetASRHighPriCPUID
  <2>2. CountInv'
    BY <2>1 DEF CountInv, orderVars, generatorVars
  <2> QED
    BY <2>1, <2>2, QueueUntouched, EventUntouched, PageUntouched
<1>5. CASE HandleMemoryController
  BY <1>5, CommandPreserves
<1>6. CASE NextTick
  BY <1>6, NextTickPreserves
<1>7. CASE UNCHANGED vars
  BY <1>7, QueueUntouched, EventUntouched, PageUntouched, CountUntouched DEF vars
<1> QED
  BY <1>2, <1>3, <1>4, <1>5, <1>6, <1>7 DEF Next

LEMMA Inductive == Spec => []IInv
BY InitEstablishes, NextPreserves, PTL DEF Spec

\* Every variable of the controller has its type.
THEOREM TypeCorrect == Spec => []TypeOK
<1>1. IInv => TypeOK
  <2> SUFFICES ASSUME IInv PROVE TypeOK
    OBVIOUS
  <2>1. num_active_pages \in Nat /\ active_bank_count \in Nat
    BY OpenIsFinite DEF IInv, PageInv
  <2> QED
    BY <2>1 DEF IInv, QueueInv, EventInv, PageInv, CountInv, TypeOK
<1> QED
  BY Inductive, <1>1, PTL

\* The copy of the open pages in RDFCFSTimingMemoryController never differs from
\* what the DRAM has open, nor does either count of them.
THEOREM CopiesAgree == Spec => []BanksAgree
<1>1. IInv => BanksAgree
  BY DEF IInv, PageInv, BanksAgree, OpenBanks, IsOpen
<1> QED
  BY Inductive, <1>1, PTL

\* A blocked controller is served again, whatever fills its queues.
THEOREM BlockedIsServed == Spec => []BlockedHasWork
<1>1. IInv => BlockedHasWork
  BY SomeSlot DEF IInv, EventInv, BlockedHasWork
<1> QED
  BY Inductive, <1>1, PTL

-----------------------------------------------------------------------------
(* What holds of some configurations only.                                 *)

LEMMA QuietPreserves ==
    ASSUME IInv, QuietInv, [Next]_vars
    PROVE  QuietInv'
<1> USE DEF IInv
<1>1. ASSUME UNCHANGED <<queueVars, generatorVars>> PROVE QuietInv'
  BY <1>1 DEF QuietInv, NotGenerated, queueVars, generatorVars
<1>2. ASSUME NEW s \in Slots, Issue(s) PROVE QuietInv'
  BY <1>2, IssueKeepsQuiet
<1>3. CASE HandleMemoryController
  <2>1. CASE GetActivate \/ Rest
    BY <1>1, <2>1 DEF GetActivate, Rest
  <2>2. CASE GetClose \/ CloseForOldest
    <3>1. \E k, b : CloseBank(k, b)
      BY <2>2 DEF GetClose, CloseForOldest
    <3> QED
      BY <1>1, <3>1 DEF CloseBank
  <2>3. CASE GetReady \/ IssueOldest
    <3>1. \E s \in Slots : Issue(s)
      BY <2>3 DEF GetReady, IssueOldest, ToIssue, Considered
    <3> QED
      BY <1>2, <3>1
  <2> QED
    BY <1>3, <2>1, <2>2, <2>3 DEF HandleMemoryController
<1>4. ASSUME NEW cmd \in {Read, Writeback}, NEW p \in Pages, SendAddr(cmd, p)
      PROVE  QuietInv'
  BY <1>4, SendKeepsQuiet
<1>5. ASSUME NEW p \in Pages, SendGeneratedRequest(p) PROVE QuietInv'
  BY <1>5 DEF SendGeneratedRequest, QuietInv
<1>6. ASSUME NEW p \in Pages, SetASRHighPriCPUID(OwnerOf[p]) PROVE QuietInv'
  BY <1>1, <1>6 DEF SetASRHighPriCPUID
<1>7. CASE NextTick
  BY <1>7, NextTickKeepsQuiet
<1>8. CASE UNCHANGED vars
  BY <1>1, <1>8 DEF vars
<1> QED
  BY <1>3, <1>4, <1>5, <1>6, <1>7, <1>8 DEF Next

\* "full queue + one in progress" holds where no traffic generator is configured,
\* the condition setBlocked and setUnBlocked of the controller rely on.
THEOREM QueuesSuffice ==
    ASSUME \A c \in Configs : c.load = 0
    PROVE  Spec => []QueueFits
<1>1. Init => QuietInv
  <2> SUFFICES ASSUME Init PROVE QuietInv
    OBVIOUS
  <2>1. readQueue = <<>> /\ writeQueue = <<>> /\ due = 0 /\ generated = FALSE
    BY DEF Init
  <2>2. Len(readQueue) = 0 /\ Len(writeQueue) = 0
    BY <2>1
  <2> QED
    BY <2>1, <2>2, ControllerAssumption DEF QuietInv, NotGenerated
<1>2. IInv /\ QuietInv => QueueFits
  BY DEF IInv, QueueInv, QuietInv, QueueFits
<1>3. IInv /\ QuietInv /\ [Next]_vars => QuietInv'
  BY QuietPreserves
<1> QED
  BY Inductive, <1>1, <1>2, <1>3, PTL DEF Spec

\* In every configuration with the closed page policy getOther is reached only
\* while a row hit waits that a threshold or a priority overrules.
THEOREM ForcedWhileHitWaits == Spec => []ForcedOnlyIfOverruled
<1>1. IInv => ForcedOnlyIfOverruled
  <2> SUFFICES ASSUME IInv, config.closedPagePolicy, OldestForced
               PROVE  \E s \in Slots : isReady(s) /\ Overruled(s)
    BY DEF ForcedOnlyIfOverruled
  <2>1. PICK s \in Slots : isActive(s)
    BY HitWaits DEF IInv, OldestForced
  <2>2. s \in Considered =>
            numReqsPastOldest = config.starvationPreventionThreshold
    BY <2>1 DEF OldestForced, ToIssue, isReady
  <2> QED
    BY <2>1, <2>2 DEF isReady, Overruled
<1> QED
  BY Inductive, <1>1, PTL

\* And so assert(!closedPagePolicy) of getOther holds where neither a threshold nor
\* a processor with priority is configured.
THEOREM ClosedNeedsNoForce ==
    ASSUME \A c \in Configs : c.closedPagePolicy =>
               ~c.asr /\ c.starvationPreventionThreshold = Unlimited
    PROVE  Spec => []ClosedNeverForced
<1>1. IInv => ClosedNeverForced
  <2> SUFFICES ASSUME IInv, config.closedPagePolicy, OldestForced
               PROVE  FALSE
    BY DEF ClosedNeverForced
  <2>1. PICK s \in Slots : isActive(s)
    BY HitWaits DEF IInv, OldestForced
  <2>2. ~config.asr /\ config.starvationPreventionThreshold = Unlimited
    BY DEF IInv, CountInv
  <2>3. Considered = Slots
    BY <2>2, ConsideredAll DEF IInv
  <2>4. numReqsPastOldest # Unlimited
    BY DEF IInv, CountInv, Unlimited
  <2> QED
    BY <2>1, <2>2, <2>3, <2>4 DEF OldestForced, ToIssue, isReady
<1> QED
  BY Inductive, <1>1, PTL

-----------------------------------------------------------------------------
(* The oldest request.  The controller's counter is no invariant bound on  *)
(* what has passed it: a forced close resets it.  But then the oldest one  *)
(* is issued next.                                                         *)

SortedByAge(q) == \A i, j \in 1 .. Len(q) : i <= j => q[i].at <= q[j].at
NotLater(q) == \A i \in 1 .. Len(q) : q[i].at <= curTick
Older(q) == \E i \in 1 .. Len(q) : q[i].at < curTick

AgeInv ==
    /\ SortedByAge(readQueue) /\ SortedByAge(writeQueue)
    /\ NotLater(readQueue) /\ NotLater(writeQueue)

\* The oldest request can be issued, or its page opened, and nothing comes before it.
OldestNext ==
    /\ event = Now /\ numReqsPastOldest = 0
    /\ \E s \in Slots :
        /\ First(s, Slots)
        /\ isActive(s) \/ (bankIsClosed(s) /\ num_active_pages < MaxActive)

TurnInv ==
    Counted =>
        /\ passed > 0 => readQueue # <<>> \/ writeQueue # <<>>
        /\ passed > 0 /\ event = Now => Older(readQueue) \/ Older(writeQueue)
        /\ numReqsPastOldest <= config.starvationPreventionThreshold
        /\ passed <= config.starvationPreventionThreshold
        /\ passed <= numReqsPastOldest \/ OldestNext

LEMMA CountedConfig ==
    ASSUME CountInv, Counted
    PROVE  config.equalReadWritePri /\ config.starvationPreventionThreshold \in Nat
<1>1. config \in Config /\ config \in Configs
  BY ControllerAssumption DEF CountInv
<1> QED
  BY <1>1, ControllerAssumption DEF Counted, Config

LEMMA SlotForm ==
    ASSUME QueueInv
    PROVE  /\ \A s \in Slots :
                \/ \E i \in 1 .. Len(readQueue) : s = <<Read, i>>
                \/ \E i \in 1 .. Len(writeQueue) : s = <<Writeback, i>>
           /\ \A i \in 1 .. Len(readQueue) :
                <<Read, i>> \in Slots /\ Req(<<Read, i>>) = readQueue[i]
           /\ \A i \in 1 .. Len(writeQueue) :
                <<Writeback, i>> \in Slots /\ Req(<<Writeback, i>>) = writeQueue[i]
<1>1. DOMAIN readQueue = 1 .. Len(readQueue) /\ DOMAIN writeQueue = 1 .. Len(writeQueue)
  BY LenProperties DEF QueueInv
<1> QED
  BY <1>1, ControllerAssumption DEF Slots, Req

LEMMA SlotNumbers ==
    ASSUME QueueInv, NEW s \in Slots
    PROVE  s[2] \in Nat /\ Req(s).at \in Nat /\ s[1] \in {Read, Writeback}
<1>1. Req(s).at \in Nat
  BY SlotFacts DEF Request
<1> QED
  BY <1>1, SlotFacts, Lengths

\* No two requests are first.
LEMMA FirstIsUnique ==
    ASSUME QueueInv, NEW S \in SUBSET Slots, NEW s, NEW t, First(s, S), First(t, S)
    PROVE  s = t
<1> SUFFICES ASSUME s # t PROVE FALSE
  OBVIOUS
<1>1. s \in Slots /\ t \in Slots /\ Before(s, t) /\ Before(t, s)
  BY DEF First
<1>2. /\ s[2] \in Nat /\ Req(s).at \in Nat
      /\ t[2] \in Nat /\ Req(t).at \in Nat
  BY <1>1, SlotNumbers
<1>3. CASE s[1] = t[1]
  <2>1. s[2] < t[2] /\ t[2] < s[2]
    BY <1>1, <1>3 DEF Before
  <2> QED
    BY <1>2, <2>1
<1>4. CASE s[1] # t[1] /\ ~config.equalReadWritePri
  BY <1>1, <1>4 DEF Before
<1>5. CASE s[1] # t[1] /\ config.equalReadWritePri
  <2>1. /\ Req(s).at < Req(t).at \/ (Req(s).at = Req(t).at /\ s[1] = Read)
        /\ Req(t).at < Req(s).at \/ (Req(t).at = Req(s).at /\ t[1] = Read)
    BY <1>1, <1>5 DEF Before
  <2> QED
    BY <1>2, <1>5, <2>1
<1> QED
  BY <1>3, <1>4, <1>5

\* The older of the heads of the queues is the first of all.
LEMMA SomeIsFirst ==
    ASSUME QueueInv, AgeInv, config.equalReadWritePri, Slots # {}
    PROVE  \E s \in Slots : First(s, Slots)
<1> DEFINE r == <<Read, 1>>
           w == <<Writeback, 1>>
<1>1. Len(readQueue) \in Nat /\ Len(writeQueue) \in Nat
  BY Lengths
<1>2. /\ \A i \in 1 .. Len(readQueue) : readQueue[i].at \in Nat
      /\ \A i \in 1 .. Len(writeQueue) : writeQueue[i].at \in Nat
  <2>1. /\ \A i \in 1 .. Len(readQueue) : readQueue[i] \in Request
        /\ \A i \in 1 .. Len(writeQueue) : writeQueue[i] \in Request
    BY ElementOfSeq DEF QueueInv
  <2> QED
    BY <2>1 DEF Request
<1>3. CASE /\ Len(readQueue) > 0
           /\ Len(writeQueue) > 0 => readQueue[1].at <= writeQueue[1].at
  <2>1. r \in Slots /\ Req(r) = readQueue[1] /\ 1 \in 1 .. Len(readQueue)
    BY <1>1, <1>3, SlotForm
  <2>2. ASSUME NEW i \in 1 .. Len(readQueue), <<Read, i>> # r PROVE Before(r, <<Read, i>>)
    BY <1>1, <2>2 DEF Before
  <2>3. ASSUME NEW i \in 1 .. Len(writeQueue) PROVE Before(r, <<Writeback, i>>)
    <3>1. Req(<<Writeback, i>>) = writeQueue[i]
      BY SlotForm
    <3>2. writeQueue[1].at <= writeQueue[i].at /\ readQueue[1].at <= writeQueue[1].at
      BY <1>1, <1>3 DEF AgeInv, SortedByAge
    <3>3. readQueue[1].at < writeQueue[i].at \/ readQueue[1].at = writeQueue[i].at
      BY <1>1, <1>2, <1>3, <2>1, <3>2
    <3> QED
      BY <2>1, <3>1, <3>3, ControllerAssumption DEF Before
  <2> QED
    BY <2>1, <2>2, <2>3, SlotForm DEF First
<1>4. CASE /\ Len(writeQueue) > 0
           /\ Len(readQueue) > 0 => writeQueue[1].at < readQueue[1].at
  <2>1. w \in Slots /\ Req(w) = writeQueue[1] /\ 1 \in 1 .. Len(writeQueue)
    BY <1>1, <1>4, SlotForm
  <2>2. ASSUME NEW i \in 1 .. Len(writeQueue), <<Writeback, i>> # w
        PROVE  Before(w, <<Writeback, i>>)
    BY <1>1, <2>2 DEF Before
  <2>3. ASSUME NEW i \in 1 .. Len(readQueue) PROVE Before(w, <<Read, i>>)
    <3>1. Req(<<Read, i>>) = readQueue[i]
      BY SlotForm
    <3>2. readQueue[1].at <= readQueue[i].at /\ writeQueue[1].at < readQueue[1].at
      BY <1>1, <1>4 DEF AgeInv, SortedByAge
    <3>3. writeQueue[1].at < readQueue[i].at
      BY <1>1, <1>2, <1>4, <2>1, <3>2
    <3> QED
      BY <2>1, <3>1, <3>3, ControllerAssumption DEF Before
  <2> QED
    BY <2>1, <2>2, <2>3, SlotForm DEF First
<1>5. Len(readQueue) > 0 \/ Len(writeQueue) > 0
  BY <1>1, SlotForm
<1> QED
  BY <1>1, <1>2, <1>3, <1>4, <1>5

\* If any request was there before this tick, the first one was.
LEMMA FirstIsOld ==
    ASSUME QueueInv, AgeInv, CountInv, config.equalReadWritePri,
           NEW s \in Slots, First(s, Slots), Older(readQueue) \/ Older(writeQueue)
    PROVE  Req(s).at < curTick
<1>1. PICK t \in Slots : Req(t).at < curTick
  BY SlotForm DEF Older
<1>2. /\ s[2] \in Nat /\ Req(s).at \in Nat
      /\ t[2] \in Nat /\ Req(t).at \in Nat /\ curTick \in Nat
  BY SlotNumbers DEF CountInv
<1>3. CASE s = t
  BY <1>1, <1>3
<1>4. CASE s # t /\ s[1] = t[1]
  <2>1. s[2] < t[2]
    BY <1>4 DEF First, Before
  <2>2. Req(s).at <= Req(t).at
    BY <1>2, <1>4, <2>1, SlotFacts, ControllerAssumption, SMTT(30) DEF AgeInv, SortedByAge
  <2> QED
    BY <1>1, <1>2, <2>2
<1>5. CASE s[1] # t[1]
  <2>1. Before(s, t)
    BY <1>5 DEF First
  <2>2. Req(s).at < Req(t).at \/ Req(s).at = Req(t).at
    BY <1>5, <2>1 DEF Before
  <2> QED
    BY <1>1, <1>2, <2>2
<1> QED
  BY <1>3, <1>4, <1>5


\* The queues are in the order of insertion.
LEMMA AgeKept ==
    ASSUME AgeInv, UNCHANGED <<queueVars, curTick>>
    PROVE  AgeInv'
BY DEF AgeInv, SortedByAge, NotLater, queueVars

LEMMA InsertedNow ==
    ASSUME QueueInv, CountInv, NEW cmd \in {Read, Writeback}, NEW p \in Pages,
           InsertRequest(cmd, p)
    PROVE  \E req \in Request :
            /\ req.at = curTick
            /\ \/ readQueue' = Append(readQueue, req) /\ writeQueue' = writeQueue
               \/ writeQueue' = Append(writeQueue, req) /\ readQueue' = readQueue
               \/ readQueue' = readQueue /\ writeQueue' = writeQueue
<1>1. PICK id \in NewIds :
        LET req == [id |-> id, page |-> p, at |-> curTick] IN
        \/ readQueue' = Append(readQueue, req) /\ writeQueue' = writeQueue
        \/ writeQueue' = Append(writeQueue, req) /\ readQueue' = readQueue
        \/ readQueue' = readQueue /\ writeQueue' = writeQueue
  BY DEF InsertRequest, queueVars
<1>2. id \in Nat
  BY Lengths DEF NewIds
<1> DEFINE req == [id |-> id, page |-> p, at |-> curTick]
<1>3. req \in Request /\ req.at = curTick
  BY <1>2 DEF Request, CountInv
<1> QED
  BY <1>1, <1>3

LEMMA AppendedAge ==
    ASSUME NEW q \in Seq(Request), NEW req \in Request, req.at = curTick,
           SortedByAge(q), NotLater(q)
    PROVE  /\ SortedByAge(Append(q, req)) /\ NotLater(Append(q, req))
           /\ Older(q) => Older(Append(q, req))
           /\ Len(Append(q, req)) = Len(q) + 1
           /\ \A i \in 1 .. Len(q) : Append(q, req)[i] = q[i]
           /\ Append(q, req)[Len(q) + 1] = req
<1>1. /\ Len(Append(q, req)) = Len(q) + 1 /\ Len(q) \in Nat
      /\ \A i \in 1 .. Len(q) : Append(q, req)[i] = q[i]
      /\ Append(q, req)[Len(q) + 1] = req
  BY AppendProperties, LenProperties
<1>2. curTick \in Nat
  BY DEF Request
<1>3. SortedByAge(Append(q, req)) /\ NotLater(Append(q, req))
  BY <1>1, <1>2 DEF SortedByAge, NotLater
<1>4. Older(q) => Older(Append(q, req))
  BY <1>1 DEF Older
<1> QED
  BY <1>1, <1>3, <1>4

LEMMA InsertKeepsAge ==
    ASSUME QueueInv, CountInv, AgeInv, NEW cmd \in {Read, Writeback}, NEW p \in Pages,
           InsertRequest(cmd, p)
    PROVE  /\ AgeInv'
           /\ Older(readQueue) => Older(readQueue)'
           /\ Older(writeQueue) => Older(writeQueue)'
<1>1. PICK req \in Request :
        /\ req.at = curTick
        /\ \/ readQueue' = Append(readQueue, req) /\ writeQueue' = writeQueue
           \/ writeQueue' = Append(writeQueue, req) /\ readQueue' = readQueue
           \/ readQueue' = readQueue /\ writeQueue' = writeQueue
  BY InsertedNow
<1>2. curTick' = curTick
  BY DEF InsertRequest
<1>3. ASSUME NEW q \in Seq(Request), SortedByAge(q), NotLater(q)
      PROVE  /\ SortedByAge(Append(q, req)) /\ NotLater(Append(q, req))
             /\ Older(q) => Older(Append(q, req))
  BY <1>1, <1>3, AppendedAge
<1>4. /\ SortedByAge(readQueue') /\ SortedByAge(writeQueue')
      /\ NotLater(readQueue') /\ NotLater(writeQueue')
      /\ Older(readQueue) => Older(readQueue')
      /\ Older(writeQueue) => Older(writeQueue')
  BY <1>1, <1>3 DEF QueueInv, AgeInv
<1> QED
  BY <1>2, <1>4 DEF AgeInv, SortedByAge, NotLater, Older

LEMMA RemovedAge ==
    ASSUME NEW q \in Seq(Request), NEW i \in 1 .. Len(q), SortedByAge(q), NotLater(q)
    PROVE  SortedByAge(RemoveAt(q, i)) /\ NotLater(RemoveAt(q, i))
<1>1. /\ Len(RemoveAt(q, i)) = Len(q) - 1 /\ Len(q) \in Nat
      /\ \A k \in 1 .. Len(q) - 1 : RemoveAt(q, i)[k] = IF k < i THEN q[k] ELSE q[k + 1]
  BY RemoveAtProperties, LenProperties
<1>2. ASSUME NEW j \in 1 .. Len(q) - 1, NEW k \in 1 .. Len(q) - 1, j <= k
      PROVE  RemoveAt(q, i)[j].at <= RemoveAt(q, i)[k].at
  <2>1. PICK m \in 1 .. Len(q) : RemoveAt(q, i)[j] = q[m] /\ m = IF j < i THEN j ELSE j + 1
    BY <1>1
  <2>2. PICK n \in 1 .. Len(q) : RemoveAt(q, i)[k] = q[n] /\ n = IF k < i THEN k ELSE k + 1
    BY <1>1
  <2>3. m <= n
    BY <1>2, <2>1, <2>2
  <2> QED
    BY <2>1, <2>2, <2>3 DEF SortedByAge
<1>3. ASSUME NEW j \in 1 .. Len(q) - 1 PROVE RemoveAt(q, i)[j].at <= curTick
  <2>1. PICK m \in 1 .. Len(q) : RemoveAt(q, i)[j] = q[m]
    BY <1>1
  <2> QED
    BY <2>1 DEF NotLater
<1> QED
  BY <1>1, <1>2, <1>3 DEF SortedByAge, NotLater

LEMMA IssueKeepsAge ==
    ASSUME QueueInv, AgeInv, NEW s \in Slots, Issue(s)
    PROVE  AgeInv'
<1>1. /\ \/ /\ s[2] \in 1 .. Len(readQueue)
            /\ readQueue' = RemoveAt(readQueue, s[2]) /\ writeQueue' = writeQueue
         \/ /\ s[2] \in 1 .. Len(writeQueue)
            /\ writeQueue' = RemoveAt(writeQueue, s[2]) /\ readQueue' = readQueue
      /\ curTick' = curTick
  BY SlotFacts, ControllerAssumption DEF Issue
<1>2. ASSUME NEW q \in Seq(Request), NEW i \in 1 .. Len(q), SortedByAge(q), NotLater(q)
      PROVE  SortedByAge(RemoveAt(q, i)) /\ NotLater(RemoveAt(q, i))
  BY <1>2, RemovedAge
<1>3. /\ SortedByAge(readQueue') /\ SortedByAge(writeQueue')
      /\ NotLater(readQueue') /\ NotLater(writeQueue')
  BY <1>1, <1>2 DEF QueueInv, AgeInv
<1> QED
  BY <1>1, <1>3 DEF AgeInv, SortedByAge, NotLater

\* A rank grows with the tick, and is below their number.
LEMMA RankOrder ==
    ASSUME NEW S \in SUBSET Nat, IsFiniteSet(S), NEW t \in S, NEW u \in S
    PROVE  /\ t <= u => RankIn(S, t) <= RankIn(S, u)
           /\ RankIn(S, t) < Cardinality(S)
           /\ RankIn(S, t) \in Nat
<1> DEFINE A(v) == {w \in S : w < v}
<1>1. \A v \in S : A(v) \in SUBSET S /\ v \notin A(v)
  OBVIOUS
<1>2. \A v \in S : IsFiniteSet(A(v)) /\ RankIn(S, v) = Cardinality(A(v))
  BY <1>1, FS_Subset DEF RankIn
<1>3. t <= u => A(t) \in SUBSET A(u)
  <2>1. t \in Nat /\ u \in Nat /\ \A w \in S : w \in Nat
    OBVIOUS
  <2>2. ASSUME t <= u, NEW w \in S, w < t PROVE w < u
    BY <2>1, <2>2
  <2> QED
    BY <2>2
<1> HIDE DEF A
<1>4. t <= u => RankIn(S, t) <= RankIn(S, u)
  BY <1>2, <1>3, FS_Subset
<1>5. RankIn(S, t) < Cardinality(S)
  <2>1. A(t) \in SUBSET S /\ A(t) # S
    BY <1>1
  <2>2. Cardinality(A(t)) <= Cardinality(S) /\ Cardinality(A(t)) # Cardinality(S)
    BY <2>1, FS_Subset
  <2>3. Cardinality(A(t)) \in Nat /\ Cardinality(S) \in Nat
    BY <1>2, FS_CardinalityType
  <2> QED
    BY <1>2, <2>2, <2>3
<1>6. RankIn(S, t) \in Nat
  BY <1>2, FS_CardinalityType
<1> QED
  BY <1>4, <1>5, <1>6

LEMMA TickKeepsAge ==
    ASSUME IInv, AgeInv, NextTick
    PROVE  /\ AgeInv'
           /\ readQueue # <<>> => readQueue' # <<>> /\ Older(readQueue)'
           /\ writeQueue # <<>> => writeQueue' # <<>> /\ Older(writeQueue)'
<1>1. /\ readQueue' = Ranked(readQueue) /\ writeQueue' = Ranked(writeQueue)
      /\ curTick' = Cardinality(Insertions) + Cardinality(Activations)
  BY DEF NextTick, Ranked
<1>2. Insertions \in SUBSET Nat /\ IsFiniteSet(Insertions)
  BY InsertionsAreFinite DEF IInv
<1>3. Cardinality(Insertions) \in Nat /\ Cardinality(Activations) \in Nat
  BY <1>2, ActivationsAreFinite, FS_CardinalityType DEF IInv
<1>4. ASSUME NEW q \in Seq(Request), SortedByAge(q), \A i \in 1 .. Len(q) : q[i].at \in Insertions
      PROVE  /\ SortedByAge(Ranked(q))
             /\ Len(Ranked(q)) = Len(q)
             /\ \A i \in 1 .. Len(q) : Ranked(q)[i].at < curTick'
  <2>1. Len(Ranked(q)) = Len(q) /\ DOMAIN q = 1 .. Len(q)
    BY RankedQueue, LenProperties DEF IInv
  <2>2. \A i \in 1 .. Len(q) : q[i] \in Request
    BY ElementOfSeq
  <2>3. \A i \in 1 .. Len(q) : Ranked(q)[i].at = RankIn(Insertions, q[i].at)
    BY <2>1, <2>2 DEF Ranked, Request
  <2>4. ASSUME NEW i \in 1 .. Len(q) PROVE Ranked(q)[i].at < curTick'
    <3>1. /\ RankIn(Insertions, q[i].at) < Cardinality(Insertions)
          /\ RankIn(Insertions, q[i].at) \in Nat
      BY <1>2, <1>4, RankOrder
    <3> QED
      BY <1>1, <1>3, <2>3, <3>1
  <2>5. ASSUME NEW i \in 1 .. Len(q), NEW j \in 1 .. Len(q), i <= j
        PROVE  Ranked(q)[i].at <= Ranked(q)[j].at
    <3>1. q[i].at <= q[j].at
      BY <1>4, <2>5 DEF SortedByAge
    <3>2. RankIn(Insertions, q[i].at) <= RankIn(Insertions, q[j].at)
      BY <1>2, <1>4, <3>1, RankOrder
    <3> QED
      BY <2>3, <3>2
  <2> QED
    BY <2>1, <2>4, <2>5 DEF SortedByAge
<1>5. /\ \A i \in 1 .. Len(readQueue) : readQueue[i].at \in Insertions
      /\ \A i \in 1 .. Len(writeQueue) : writeQueue[i].at \in Insertions
  <2>1. DOMAIN readQueue = 1 .. Len(readQueue) /\ DOMAIN writeQueue = 1 .. Len(writeQueue)
    BY LenProperties DEF IInv, QueueInv
  <2> QED
    BY <2>1 DEF Insertions, Range
<1>6. /\ SortedByAge(readQueue') /\ Len(readQueue') = Len(readQueue)
      /\ \A i \in 1 .. Len(readQueue) : readQueue'[i].at < curTick'
      /\ SortedByAge(writeQueue') /\ Len(writeQueue') = Len(writeQueue)
      /\ \A i \in 1 .. Len(writeQueue) : writeQueue'[i].at < curTick'
  BY <1>1, <1>4, <1>5 DEF IInv, QueueInv, AgeInv
<1>7. /\ readQueue' \in Seq(Request) /\ writeQueue' \in Seq(Request) /\ curTick' \in Nat
  BY NextTickPreserves DEF IInv, QueueInv, CountInv
<1>8. /\ \A i \in 1 .. Len(readQueue') : readQueue'[i].at \in Nat
      /\ \A i \in 1 .. Len(writeQueue') : writeQueue'[i].at \in Nat
  <2>1. /\ \A i \in 1 .. Len(readQueue') : readQueue'[i] \in Request
        /\ \A i \in 1 .. Len(writeQueue') : writeQueue'[i] \in Request
    BY <1>7, ElementOfSeq
  <2> QED
    BY <2>1 DEF Request
<1>9. /\ \A i \in 1 .. Len(readQueue') : readQueue'[i].at <= curTick'
      /\ \A i \in 1 .. Len(writeQueue') : writeQueue'[i].at <= curTick'
  BY <1>6, <1>7, <1>8
<1>10. AgeInv'
  BY <1>6, <1>9 DEF AgeInv, SortedByAge, NotLater
<1>11. /\ readQueue # <<>> => 1 \in 1 .. Len(readQueue)
       /\ writeQueue # <<>> => 1 \in 1 .. Len(writeQueue)
  BY Lengths DEF IInv
<1>12. /\ readQueue # <<>> => readQueue' # <<>>
       /\ writeQueue # <<>> => writeQueue' # <<>>
  BY <1>6, <1>7, EmptySeq, Lengths DEF IInv
<1> QED
  BY <1>6, <1>10, <1>11, <1>12 DEF Older

-----------------------------------------------------------------------------
(* The turn of the oldest request comes.                                   *)

\* In terms of the tick in which a command is sent.
LEMMA TurnKept ==
    ASSUME TurnInv, UNCHANGED <<config, queueVars, pageVars, orderVars, event, curTick>>
    PROVE  TurnInv'
BY DEF TurnInv, Counted, Older, OldestNext, Slots, First, Before, Req, isActive, bankIsClosed,
       Bank, queueVars, pageVars, orderVars

\* A request that arrives in this tick is not before an older one.
LEMMA FirstStays ==
    ASSUME QueueInv, AgeInv, CountInv, config.equalReadWritePri,
           NEW s \in Slots, First(s, Slots), Req(s).at < curTick,
           NEW cmd \in {Read, Writeback}, NEW p \in Pages, InsertRequest(cmd, p)
    PROVE  s \in Slots' /\ First(s, Slots)' /\ Req(s)' = Req(s)
<1>1. PICK req \in Request :
        /\ req.at = curTick
        /\ \/ readQueue' = Append(readQueue, req) /\ writeQueue' = writeQueue
           \/ writeQueue' = Append(writeQueue, req) /\ readQueue' = readQueue
           \/ readQueue' = readQueue /\ writeQueue' = writeQueue
  BY InsertedNow
<1> DEFINE m == Len(readQueue)
           n == Len(writeQueue)
<1>2. m \in Nat /\ n \in Nat
  BY Lengths
<1>3. /\ Len(readQueue') \in {m, m + 1}
      /\ \A i \in 1 .. m : readQueue'[i] = readQueue[i]
      /\ Len(readQueue') = m + 1 => readQueue'[m + 1] = req
      /\ Len(writeQueue') \in {n, n + 1}
      /\ \A i \in 1 .. n : writeQueue'[i] = writeQueue[i]
      /\ Len(writeQueue') = n + 1 => writeQueue'[n + 1] = req
  BY <1>1, <1>2, AppendProperties DEF QueueInv
<1>4. /\ DOMAIN readQueue = 1 .. m /\ DOMAIN writeQueue = 1 .. n
      /\ DOMAIN readQueue' = 1 .. Len(readQueue') /\ DOMAIN writeQueue' = 1 .. Len(writeQueue')
  <2>1. readQueue' \in Seq(Request) /\ writeQueue' \in Seq(Request)
    <3>1. readQueue \in Seq(Request) /\ writeQueue \in Seq(Request)
      BY DEF QueueInv
    <3>2. Append(readQueue, req) \in Seq(Request) /\ Append(writeQueue, req) \in Seq(Request)
      BY <3>1, AppendProperties
    <3> QED
      BY <1>1, <3>1, <3>2
  <2> QED
    BY <2>1, LenProperties DEF QueueInv
<1> HIDE DEF m, n
<1>5. ASSUME NEW t \in Slots PROVE t \in Slots' /\ Req(t)' = Req(t)
  <2>1. CASE \E i \in 1 .. m : t = <<Read, i>>
    <3>1. PICK i \in 1 .. m : t = <<Read, i>>
      BY <2>1
    <3>2. i \in 1 .. Len(readQueue') /\ readQueue'[i] = readQueue[i]
      BY <1>2, <1>3
    <3>3. i \in DOMAIN readQueue'
      BY <1>4, <3>2
    <3> QED
      BY <3>1, <3>2, <3>3 DEF Slots, Req
  <2>2. CASE \E i \in 1 .. n : t = <<Writeback, i>>
    <3>1. PICK i \in 1 .. n : t = <<Writeback, i>>
      BY <2>2
    <3>2. i \in 1 .. Len(writeQueue') /\ writeQueue'[i] = writeQueue[i]
      BY <1>2, <1>3
    <3>3. i \in DOMAIN writeQueue'
      BY <1>4, <3>2
    <3> QED
      BY <3>1, <3>2, <3>3, ControllerAssumption DEF Slots, Req
  <2> QED
    BY <1>4, <2>1, <2>2 DEF Slots
<1>6. ASSUME NEW t \in Slots', t \notin Slots
      PROVE  /\ Req(t)' = req
             /\ t = <<Read, m + 1>> \/ t = <<Writeback, n + 1>>
  <2>1. CASE \E i \in 1 .. Len(readQueue') : t = <<Read, i>>
    <3>1. PICK i \in 1 .. Len(readQueue') : t = <<Read, i>>
      BY <2>1
    <3>2. i \notin 1 .. m
      BY <1>4, <1>6, <3>1 DEF Slots
    <3>3. i = m + 1 /\ readQueue'[i] = req
      BY <1>2, <1>3, <3>2
    <3> QED
      BY <3>1, <3>3 DEF Req
  <2>2. CASE \E i \in 1 .. Len(writeQueue') : t = <<Writeback, i>>
    <3>1. PICK i \in 1 .. Len(writeQueue') : t = <<Writeback, i>>
      BY <2>2
    <3>2. i \notin 1 .. n
      BY <1>4, <1>6, <3>1 DEF Slots
    <3>3. i = n + 1 /\ writeQueue'[i] = req
      BY <1>2, <1>3, <3>2
    <3> QED
      BY <3>1, <3>3, ControllerAssumption DEF Req
  <2> QED
    BY <1>4, <2>1, <2>2 DEF Slots
<1>7. config' = config
  BY DEF InsertRequest
<1>8. ASSUME NEW t \in Slots' \ {s} PROVE Before(s, t)'
  <2>1. CASE t \in Slots
    <3>1. Before(s, t) /\ Req(t)' = Req(t) /\ Req(s)' = Req(s)
      BY <1>5, <1>8, <2>1 DEF First
    <3> QED
      BY <1>7, <3>1 DEF Before
  <2>2. CASE t \notin Slots
    <3>1. Req(t)' = req /\ (t = <<Read, m + 1>> \/ t = <<Writeback, n + 1>>)
      BY <1>6, <1>8, <2>2
    <3>2. Req(s)'.at < Req(t)'.at
      BY <1>1, <1>5, <3>1
    <3>3. \/ s[1] = Read /\ s[2] \in 1 .. m
          \/ s[1] = Writeback /\ s[2] \in 1 .. n
      BY SlotFacts DEF m, n
    <3>4. s[1] = t[1] => s[2] < t[2]
      BY <1>2, <3>1, <3>3, ControllerAssumption
    <3> QED
      BY <1>7, <3>2, <3>4 DEF Before
  <2> QED
    BY <2>1, <2>2
<1> QED
  BY <1>5, <1>8 DEF First

LEMMA InsertKeepsTurn ==
    ASSUME IInv, AgeInv, TurnInv, NEW cmd \in {Read, Writeback}, NEW p \in Pages,
           InsertRequest(cmd, p)
    PROVE  TurnInv'
<1> SUFFICES ASSUME Counted' PROVE TurnInv'
  BY DEF TurnInv
<1>1. /\ UNCHANGED <<config, pageVars, orderVars, curTick>>
      /\ event' = IF event = Idle THEN Now ELSE event
  BY DEF InsertRequest
<1>2. Counted /\ config.equalReadWritePri
  BY <1>1, CountedConfig DEF Counted, IInv
<1>3. /\ Older(readQueue) => Older(readQueue)'
      /\ Older(writeQueue) => Older(writeQueue)'
  BY InsertKeepsAge DEF IInv
<1>4. readQueue' # <<>> \/ writeQueue' # <<>> \/ (readQueue' = readQueue /\ writeQueue' = writeQueue)
  <2>1. PICK req \in Request :
           \/ readQueue' = Append(readQueue, req)
           \/ writeQueue' = Append(writeQueue, req)
           \/ readQueue' = readQueue /\ writeQueue' = writeQueue
    BY InsertedNow DEF IInv
  <2> QED
    BY <2>1, AppendProperties DEF IInv, QueueInv
<1>5. passed > 0 => event # Idle
  BY <1>2 DEF TurnInv, IInv, EventInv
<1>6. ASSUME passed > 0, OldestNext PROVE OldestNext'
  <2>1. PICK s \in Slots :
          /\ First(s, Slots)
          /\ isActive(s) \/ (bankIsClosed(s) /\ num_active_pages < MaxActive)
    BY <1>6 DEF OldestNext
  <2>2. Req(s).at < curTick
    <3>1. Older(readQueue) \/ Older(writeQueue)
      BY <1>2, <1>6 DEF TurnInv, OldestNext
    <3> QED
      BY <1>2, <2>1, <3>1, FirstIsOld DEF IInv
  <2>3. s \in Slots' /\ First(s, Slots)' /\ Req(s)' = Req(s)
    BY <1>2, <2>1, <2>2, FirstStays DEF IInv
  <2>4. (isActive(s) <=> isActive(s)') /\ (bankIsClosed(s) <=> bankIsClosed(s)')
    BY <1>1, <2>3 DEF isActive, bankIsClosed, Bank, pageVars
  <2>5. /\ event' = Now /\ numReqsPastOldest' = 0
        /\ num_active_pages' = num_active_pages
    BY <1>1, <1>5, <1>6 DEF OldestNext, orderVars, pageVars
  <2> QED
    BY <2>1, <2>3, <2>4, <2>5 DEF OldestNext
<1>7. passed' = passed /\ numReqsPastOldest' = numReqsPastOldest /\ config' = config
  BY <1>1 DEF orderVars
<1>8. passed' > 0 => readQueue' # <<>> \/ writeQueue' # <<>>
  BY <1>2, <1>4, <1>7 DEF TurnInv
<1>9. passed' > 0 /\ event' = Now => Older(readQueue)' \/ Older(writeQueue)'
  BY <1>1, <1>2, <1>3, <1>5, <1>7 DEF TurnInv
<1>10. passed' <= numReqsPastOldest' \/ OldestNext'
  BY <1>2, <1>6, <1>7 DEF TurnInv, IInv, CountInv
<1> QED
  BY <1>2, <1>7, <1>8, <1>9, <1>10 DEF TurnInv

LEMMA GetActivateKeepsTurn ==
    ASSUME IInv, AgeInv, TurnInv, GetActivate
    PROVE  TurnInv'
<1> SUFFICES ASSUME Counted' PROVE TurnInv'
  BY DEF TurnInv
<1>1. UNCHANGED <<config, queueVars, orderVars, event, curTick>>
  BY DEF GetActivate
<1>2. PICK s \in ToActivate :
        /\ First(s, ToActivate)
        /\ openpage' = [openpage EXCEPT ![Bank(s)] = Req(s).page]
  BY DEF GetActivate
<1>3. Counted /\ s \in Slots /\ bankIsClosed(s)
  BY <1>1, <1>2 DEF Counted, ToActivate, Considered
<1>4. /\ Slots' = Slots /\ \A t : Req(t)' = Req(t) /\ Bank(t)' = Bank(t)
      /\ \A t : First(t, Slots)' <=> First(t, Slots)
  BY <1>1 DEF Slots, Req, Bank, First, Before, queueVars
<1>5. ASSUME OldestNext PROVE OldestNext'
  <2>1. PICK o \in Slots :
          /\ First(o, Slots)
          /\ isActive(o) \/ (bankIsClosed(o) /\ num_active_pages < MaxActive)
    BY <1>5 DEF OldestNext
  <2>2. Bank(o) \in Banks /\ Bank(s) \in Banks /\ Req(o).page # Closed
    BY <1>3, SlotFacts, ControllerAssumption DEF IInv
  <2>3. isActive(o)'
    <3>1. CASE isActive(o)
      <4>1. Bank(o) # Bank(s)
        BY <1>3, <2>2, <3>1 DEF isActive, bankIsClosed
      <4>2. openpage'[Bank(o)] = openpage[Bank(o)]
        BY <1>2, <2>2, <4>1 DEF IInv, PageInv
      <4> QED
        BY <1>4, <3>1, <4>2 DEF isActive
    <3>2. CASE ~isActive(o)
      <4>1. Considered = Slots
        BY <1>3, ConsideredAll DEF Counted, IInv
      <4>2. o \in ToActivate
        BY <2>1, <3>2, <4>1 DEF ToActivate
      <4>3. ToActivate \subseteq Slots
        BY <4>1 DEF ToActivate
      <4>4. First(o, ToActivate)
        BY <2>1, <4>2, <4>3 DEF First
      <4>5. o = s
        BY <1>2, <4>3, <4>4, FirstIsUnique DEF IInv
      <4>6. openpage'[Bank(o)] = Req(o).page
        BY <1>2, <2>2, <4>5 DEF IInv, PageInv
      <4> QED
        BY <1>4, <4>6 DEF isActive
    <3> QED
      BY <3>1, <3>2
  <2> QED
    BY <1>1, <1>4, <1>5, <2>1, <2>3 DEF OldestNext, orderVars
<1>6. Older(readQueue)' = Older(readQueue) /\ Older(writeQueue)' = Older(writeQueue)
  BY <1>1 DEF Older, queueVars
<1> QED
  BY <1>1, <1>3, <1>5, <1>6 DEF TurnInv, orderVars, queueVars

LEMMA IssueKeepsTurn ==
    ASSUME IInv, TurnInv, NEW s \in Slots, Issue(s),
           First(s, Slots) => numReqsPastOldest' = 0,
           Counted /\ ~First(s, Slots) =>
               /\ numReqsPastOldest' = numReqsPastOldest + 1
               /\ numReqsPastOldest # config.starvationPreventionThreshold
               /\ ~OldestNext
    PROVE  TurnInv'
<1> SUFFICES ASSUME Counted' PROVE TurnInv'
  BY DEF TurnInv
<1>1. /\ passed' = IF Counted /\ ~First(s, Slots) THEN passed + 1 ELSE 0
      /\ event' = Later /\ config' = config
      /\ readQueue' = IF s[1] = Read THEN RemoveAt(readQueue, s[2]) ELSE readQueue
      /\ writeQueue' = IF s[1] = Writeback THEN RemoveAt(writeQueue, s[2]) ELSE writeQueue
  BY DEF Issue
<1>2. /\ Counted /\ config.starvationPreventionThreshold \in Nat
      /\ passed \in Nat /\ numReqsPastOldest \in Nat
  BY <1>1, CountedConfig DEF Counted, IInv, CountInv
<1>3. event' # Now
  BY <1>1, ControllerAssumption
<1>4. CASE First(s, Slots)
  BY <1>1, <1>2, <1>3, <1>4 DEF TurnInv
<1>5. CASE ~First(s, Slots)
  <2>1. /\ numReqsPastOldest <= config.starvationPreventionThreshold
        /\ passed <= numReqsPastOldest
    BY <1>2, <1>5 DEF TurnInv
  <2>2. /\ passed' = passed + 1 /\ numReqsPastOldest' = numReqsPastOldest + 1
        /\ numReqsPastOldest # config.starvationPreventionThreshold
    BY <1>1, <1>2, <1>5
  <2>3. readQueue' # <<>> \/ writeQueue' # <<>>
    <3>1. PICK t \in Slots : t # s
      BY <1>5 DEF First
    <3>2. /\ s[1] = Read => readQueue' \in Seq(Request) /\ Len(readQueue') = Len(readQueue) - 1
          /\ s[1] = Writeback =>
                writeQueue' \in Seq(Request) /\ Len(writeQueue') = Len(writeQueue) - 1
      BY <1>1, SlotFacts, RemoveAtProperties, ControllerAssumption DEF IInv, QueueInv
    <3>3. CASE s[1] = Read
      <4>1. writeQueue' = writeQueue
        BY <1>1, <3>3, ControllerAssumption
      <4>2. CASE t[1] = Read
        <5>1. Len(readQueue) > 1
          BY <3>1, <3>3, <4>2, SlotForm, Lengths, ControllerAssumption DEF IInv
        <5>2. Len(readQueue') # 0
          BY <3>2, <3>3, <5>1, Lengths DEF IInv
        <5> QED
          BY <3>2, <3>3, <5>2, EmptySeq
      <4>3. CASE t[1] = Writeback
        <5>1. Len(writeQueue) # 0
          BY <4>3, SlotFacts, Lengths, ControllerAssumption DEF IInv
        <5> QED
          BY <4>1, <5>1, Lengths DEF IInv
      <4> QED
        BY <4>2, <4>3, SlotFacts DEF IInv
    <3>4. CASE s[1] = Writeback
      <4>1. readQueue' = readQueue
        BY <1>1, <3>4, ControllerAssumption
      <4>2. CASE t[1] = Writeback
        <5>1. Len(writeQueue) > 1
          BY <3>1, <3>4, <4>2, SlotForm, Lengths, ControllerAssumption DEF IInv
        <5>2. Len(writeQueue') # 0
          BY <3>2, <3>4, <5>1, Lengths DEF IInv
        <5> QED
          BY <3>2, <3>4, <5>2, EmptySeq
      <4>3. CASE t[1] = Read
        <5>1. Len(readQueue) # 0
          BY <4>3, SlotFacts, Lengths, ControllerAssumption DEF IInv
        <5> QED
          BY <4>1, <5>1, Lengths DEF IInv
      <4> QED
        BY <4>2, <4>3, SlotFacts DEF IInv
    <3> QED
      BY <3>3, <3>4, SlotFacts DEF IInv
  <2> QED
    BY <1>1, <1>2, <1>3, <2>1, <2>2, <2>3 DEF TurnInv
<1> QED
  BY <1>4, <1>5

\* While the oldest request can be issued it is not passed.
LEMMA OldestIsReady ==
    ASSUME IInv, Counted, OldestNext, ToActivate = {}
    PROVE  \E o \in Slots : First(o, Slots) /\ isActive(o)
<1>1. PICK o \in Slots :
        /\ First(o, Slots)
        /\ isActive(o) \/ (bankIsClosed(o) /\ num_active_pages < MaxActive)
  BY DEF OldestNext
<1>2. Considered = Slots
  BY ConsideredAll DEF Counted, IInv
<1>3. isActive(o)
  BY <1>1, <1>2 DEF ToActivate
<1> QED
  BY <1>1, <1>3

LEMMA CloseKeepsTurn ==
    ASSUME IInv, AgeInv, TurnInv, GetClose \/ CloseForOldest
    PROVE  TurnInv' /\ AgeInv'
<1>1. UNCHANGED <<config, queueVars, event, curTick, passed>>
  BY DEF GetClose, CloseForOldest, CloseBank
<1>2. AgeInv'
  BY <1>1, AgeKept
<1>3. Older(readQueue)' = Older(readQueue) /\ Older(writeQueue)' = Older(writeQueue)
  BY <1>1 DEF Older, queueVars
<1>4. CASE GetClose
  <2>1. numReqsPastOldest' = numReqsPastOldest
    BY <1>4 DEF GetClose
  <2>2. ASSUME Counted, OldestNext PROVE OldestNext'
    <3>1. PICK o \in Slots : First(o, Slots) /\ isActive(o)
      BY <1>4, <2>2, OldestIsReady DEF GetClose
    <3>2. PICK b \in ToClose : CloseBank(b, BankOf[activePages[b]])
      BY <1>4 DEF GetClose
    <3>3. /\ b \in Banks /\ activePages[b] # Closed
          /\ Req(o).page # activePages[b]
      BY <3>1, <3>2 DEF ToClose
    <3>4. /\ BankOf[activePages[b]] = b /\ activePages[b] = openpage[b]
          /\ openpage' = [openpage EXCEPT ![b] = Closed]
      BY <3>2, <3>3 DEF CloseBank, IInv, PageInv, IsOpen
    <3>5. Bank(o) \in Banks /\ Bank(o) # b
      BY <3>1, <3>3, <3>4, SlotFacts DEF IInv, isActive
    <3>6. openpage'[Bank(o)] = openpage[Bank(o)]
      BY <3>4, <3>5 DEF IInv, PageInv
    <3>7. o \in Slots' /\ First(o, Slots)' /\ isActive(o)'
      BY <1>1, <3>1, <3>6 DEF Slots, Req, Bank, First, Before, isActive, queueVars
    <3> QED
      BY <1>1, <2>1, <2>2, <3>7 DEF OldestNext
  <2> QED
    BY <1>1, <1>2, <1>3, <2>1, <2>2 DEF TurnInv, Counted, queueVars
<1>5. CASE CloseForOldest
  <2> SUFFICES ASSUME Counted' PROVE TurnInv'
    BY <1>2 DEF TurnInv
  <2>1. Counted /\ config.starvationPreventionThreshold \in Nat
    BY <1>1, CountedConfig DEF Counted, IInv
  <2>2. numReqsPastOldest' = 0 /\ event' = Now
    BY <1>1, <1>5 DEF CloseForOldest, OldestForced, Served
  <2>3. PICK s \in Considered :
          /\ First(s, Considered)
          /\ \/ ~bankIsClosed(s) /\ CloseBank(Bank(s), Bank(s))
             \/ /\ bankIsClosed(s)
                /\ \E b \in Banks : OpenLongest(b) /\ CloseBank(b, BankOf[activePages[b]])
    BY <1>5 DEF CloseForOldest
  <2>4. s \in Slots /\ First(s, Slots)
    BY <2>1, <2>3, ConsideredAll DEF Counted, IInv
  <2>5. Bank(s) \in Banks
    BY <2>4, SlotFacts DEF IInv
  <2>6. num_active_pages' < MaxActive
    <3>1. num_active_pages' = num_active_pages - 1
      BY <2>3 DEF CloseBank
    <3> QED
      BY <3>1, OpenIsFinite DEF IInv, PageInv
  <2>7. openpage'[Bank(s)] = Closed
    <3>1. PICK b \in Banks : /\ openpage' = [openpage EXCEPT ![b] = Closed]
                             /\ b = Bank(s) \/ bankIsClosed(s)
      <4>1. CASE ~bankIsClosed(s) /\ CloseBank(Bank(s), Bank(s))
        BY <2>5, <4>1 DEF CloseBank
      <4>2. CASE /\ bankIsClosed(s)
                 /\ \E b \in Banks : OpenLongest(b) /\ CloseBank(b, BankOf[activePages[b]])
        <5>1. PICK b \in Banks : OpenLongest(b) /\ CloseBank(b, BankOf[activePages[b]])
          BY <4>2
        <5>2. BankOf[activePages[b]] = b
          BY <5>1 DEF OpenLongest, IInv, PageInv, IsOpen
        <5>3. openpage' = [openpage EXCEPT ![b] = Closed]
          BY <5>1, <5>2 DEF CloseBank
        <5> QED
          BY <4>2, <5>3
      <4> QED
        BY <2>3, <4>1, <4>2
    <3> QED
      BY <2>5, <3>1 DEF bankIsClosed, IInv, PageInv
  <2>8. s \in Slots' /\ First(s, Slots)' /\ Bank(s)' = Bank(s)
    BY <1>1, <2>4 DEF Slots, Req, Bank, First, Before, queueVars
  <2>9. OldestNext'
    BY <2>2, <2>6, <2>7, <2>8 DEF OldestNext, bankIsClosed
  <2> QED
    BY <1>1, <1>3, <2>1, <2>2, <2>9 DEF TurnInv, queueVars
<1> QED
  BY <1>2, <1>4, <1>5

LEMMA CommandKeepsTurn ==
    ASSUME IInv, AgeInv, TurnInv, HandleMemoryController
    PROVE  TurnInv' /\ AgeInv'
<1>1. CASE GetActivate
  <2>1. UNCHANGED <<queueVars, curTick>>
    BY <1>1 DEF GetActivate
  <2> QED
    BY <1>1, <2>1, GetActivateKeepsTurn, AgeKept
<1>2. CASE GetClose \/ CloseForOldest
  BY <1>2, CloseKeepsTurn
<1>3. CASE GetReady
  <2>1. PICK s \in ToIssue :
          /\ First(s, ToIssue) /\ Issue(s)
          /\ numReqsPastOldest' =
                 IF config.starvationPreventionThreshold = Unlimited
                    \/ First(s, Considered)
                 THEN 0 ELSE numReqsPastOldest + 1
    BY <1>3 DEF GetReady
  <2>2. s \in Considered /\ s \in Slots /\ ToActivate = {}
    BY <1>3, <2>1 DEF ToIssue, Considered, GetReady
  <2>3. First(s, Slots) => numReqsPastOldest' = 0
    <3>1. First(s, Slots) => First(s, Considered)
      BY <2>2 DEF First, Considered
    <3> QED
      BY <2>1, <3>1
  <2>4. ASSUME Counted, ~First(s, Slots)
        PROVE  /\ numReqsPastOldest' = numReqsPastOldest + 1
               /\ numReqsPastOldest # config.starvationPreventionThreshold
               /\ ~OldestNext
    <3>1. Considered = Slots /\ config.equalReadWritePri
      BY <2>4, ConsideredAll, CountedConfig DEF Counted, IInv
    <3>2. numReqsPastOldest' = numReqsPastOldest + 1
      BY <2>1, <2>4, <3>1 DEF Counted
    <3>3. numReqsPastOldest # config.starvationPreventionThreshold
      BY <2>1, <3>1 DEF ToIssue
    <3>4. ASSUME OldestNext PROVE FALSE
      <4>1. PICK o \in Slots : First(o, Slots) /\ isActive(o)
        BY <2>2, <2>4, <3>4, OldestIsReady
      <4>2. ToIssue \subseteq Slots /\ o \in ToIssue
        BY <3>1, <3>3, <4>1 DEF ToIssue, isReady
      <4>3. First(o, ToIssue)
        BY <4>1, <4>2 DEF First
      <4>4. o = s
        BY <2>1, <4>2, <4>3, FirstIsUnique DEF IInv
      <4> QED
        BY <2>4, <4>1, <4>4
    <3> QED
      BY <3>2, <3>3, <3>4
  <2> QED
    BY <2>1, <2>2, <2>3, <2>4, IssueKeepsTurn, IssueKeepsAge DEF IInv
<1>4. CASE IssueOldest
  <2>1. PICK s \in Considered : First(s, Considered) /\ Issue(s)
    BY <1>4 DEF IssueOldest
  <2>2. s \in Slots /\ numReqsPastOldest' = 0
    BY <1>4, <2>1 DEF Considered, IssueOldest
  <2>3. Counted => First(s, Slots)
    BY <2>1, ConsideredAll DEF Counted, IInv
  <2> QED
    BY <2>1, <2>2, <2>3, IssueKeepsTurn, IssueKeepsAge DEF IInv
<1>5. CASE Rest
  <2>1. /\ event' = Idle /\ ~hasMoreRequests
        /\ UNCHANGED <<config, queueVars, pageVars, orderVars, curTick>>
    BY <1>5 DEF Rest
  <2>2. readQueue = <<>> /\ writeQueue = <<>>
    BY <2>1, SomeSlot DEF hasMoreRequests, IInv
  <2>3. Counted => passed \in Nat /\ ~(passed > 0) /\ numReqsPastOldest \in Nat
    BY <2>2 DEF TurnInv, IInv, CountInv
  <2>4. TurnInv'
    BY <2>1, <2>3 DEF TurnInv, Counted, orderVars
  <2> QED
    BY <2>1, <2>4, AgeKept
<1> QED
  BY <1>1, <1>2, <1>3, <1>4, <1>5 DEF HandleMemoryController

LEMMA TickKeepsTurn ==
    ASSUME IInv, AgeInv, TurnInv, NextTick
    PROVE  TurnInv'
<1>1. /\ UNCHANGED <<config, orderVars>>
      /\ event # Now
  BY DEF NextTick
<1>2. /\ readQueue # <<>> => readQueue' # <<>> /\ Older(readQueue)'
      /\ writeQueue # <<>> => writeQueue' # <<>> /\ Older(writeQueue)'
  BY TickKeepsAge
<1>3. ~OldestNext
  BY <1>1 DEF OldestNext
<1> QED
  BY <1>1, <1>2, <1>3 DEF TurnInv, Counted, orderVars

LEMMA NextKeepsTurn == IInv /\ AgeInv /\ TurnInv /\ [Next]_vars => AgeInv' /\ TurnInv'
<1> SUFFICES ASSUME IInv, AgeInv, TurnInv, [Next]_vars PROVE AgeInv' /\ TurnInv'
  OBVIOUS
<1>1. ASSUME NEW cmd \in {Read, Writeback}, NEW p \in Pages, InsertRequest(cmd, p)
      PROVE  AgeInv' /\ TurnInv'
  BY <1>1, InsertKeepsAge, InsertKeepsTurn DEF IInv
<1>2. ASSUME NEW cmd \in {Read, Writeback}, NEW p \in Pages, SendAddr(cmd, p)
      PROVE  AgeInv' /\ TurnInv'
  BY <1>1, <1>2 DEF SendAddr
<1>3. ASSUME NEW p \in Pages, SendGeneratedRequest(p) PROVE AgeInv' /\ TurnInv'
  BY <1>1, <1>3 DEF SendGeneratedRequest
<1>4. ASSUME NEW p \in Pages, SetASRHighPriCPUID(OwnerOf[p]) PROVE AgeInv' /\ TurnInv'
  BY <1>4, AgeKept, TurnKept DEF SetASRHighPriCPUID
<1>5. CASE HandleMemoryController
  BY <1>5, CommandKeepsTurn
<1>6. CASE NextTick
  BY <1>6, TickKeepsAge, TickKeepsTurn
<1>7. CASE UNCHANGED vars
  BY <1>7, AgeKept, TurnKept DEF vars
<1> QED
  BY <1>2, <1>3, <1>4, <1>5, <1>6, <1>7 DEF Next

\* With a threshold, and no processor in favour, as many requests pass the oldest one
\* as the threshold says and no more, although a forced close resets the count of the
\* controller (numReqsPastOldest) while the oldest one still waits.
THEOREM OldestIsPassedInBounds == Spec => []BypassBound
<1>1. Init => AgeInv /\ TurnInv
  <2> SUFFICES ASSUME Init PROVE AgeInv /\ TurnInv
    OBVIOUS
  <2>1. /\ readQueue = <<>> /\ writeQueue = <<>> /\ Len(<<>>) = 0
        /\ passed = 0 /\ numReqsPastOldest = 0
    BY EmptySeq DEF Init
  <2>2. Counted => config.starvationPreventionThreshold \in Nat
    BY InitEstablishes, CountedConfig DEF IInv
  <2> QED
    BY <2>1, <2>2 DEF AgeInv, SortedByAge, NotLater, TurnInv
<1>2. TurnInv => BypassBound
  BY DEF TurnInv, BypassBound
<1>3. IInv /\ AgeInv /\ TurnInv /\ [Next]_vars => AgeInv' /\ TurnInv'
  BY NextKeepsTurn
<1> QED
  BY Inductive, <1>1, <1>2, <1>3, PTL DEF Spec

-----------------------------------------------------------------------------
(* The invariant of the controller on the bus.                             *)

\* The timing of a bank agrees with its page; a bank is ready when the command
\* on the bus, if any, has ended.
DramInv ==
    /\ dram \in [Banks -> BankTiming]
    /\ \A b \in Banks : dram[b].state = BankIdle <=> ~IsOpen(b)
    /\ nextfree \in Int
    /\ \A b \in Banks : dram[b].readyTime <= IF event = Later THEN nextfree ELSE curTick
    /\ event = Later => curTick < nextfree

ScheduledEvent(o, a, r, l) ==
    [original_time |-> o, at |-> a, resched |-> r, loops |-> l]

\* An arbitration event that has not been put off has not looped.
LoopInv ==
    \/ currently_scheduled = NoEvent
    \/ \E o, a : \E r \in BOOLEAN, l \in {0, 1} :
           currently_scheduled = ScheduledEvent(o, a, r, l) /\ (~r => l = 0)

BusInv == IInv /\ DramInv /\ LoopInv

LEMMA DramUntouched ==
    ASSUME DramInv, UNCHANGED <<dram, nextfree, curTick, openpage>>,
           event' = Later <=> event = Later
    PROVE  DramInv'
BY DEF DramInv, IsOpen

-----------------------------------------------------------------------------
(* The banks.                                                              *)

LEMMA LatestIsInt ==
    ASSUME NEW a \in Int, NEW b \in Int
    PROVE  Latest(a, b) \in Int /\ Latest(a, b) >= a /\ Latest(a, b) >= b
BY DEF Latest

LEMMA TurnsAreNat ==
    ASSUME NEW b \in BankTiming, NEW now \in Int
    PROVE  TurnToRead(b, now) \in Nat /\ TurnToWrite(b, now) \in Nat
BY DramAssumption DEF TurnToRead, TurnToWrite, Latest, BankTiming

\* An access ends before the bus is free again.
LEMMA AccessEnds ==
    ASSUME NEW b \in BankTiming, NEW now \in Int, NEW to \in {BankRead, BankWritten},
           NEW lat \in Nat, NEW turn \in Nat
    PROVE  /\ Access(b, now, to, lat, turn).bank \in BankTiming
           /\ Access(b, now, to, lat, turn).bank.state # BankIdle
           /\ Access(b, now, to, lat, turn).latency \in Nat \ {0}
           /\ Access(b, now, to, lat, turn).bank.readyTime
                  <= now + Access(b, now, to, lat, turn).latency
<1> DEFINE turned == b.state \notin {to, BankActive}
           opened == Opened(b, lat)
           delay == IF turned THEN turn ELSE 0
           wait == Latest(opened - now, 0)
           latency == data_time + delay + wait
           ready == IF b.state = to THEN Latest(opened, now) + data_time
                    ELSE IF turned THEN now + latency - data_time
                    ELSE opened
           after == [b EXCEPT !.state = to, !.readyTime = ready,
                              !.lastCmdFinish = now + latency]
<1>1. Access(b, now, to, lat, turn) = [bank |-> after, latency |-> latency]
  BY DEF Access
<1>2. opened \in Int /\ b.state \in {BankIdle, BankActive, BankRead, BankWritten}
  BY DEF Opened, BankTiming
<1>3. delay \in Nat /\ data_time \in Nat \ {0}
  BY DramAssumption
<1> HIDE DEF opened, delay
<1>4. wait \in Nat /\ now + wait >= opened /\ Latest(opened, now) = now + wait
  BY <1>2 DEF Latest
<1> HIDE DEF wait
<1>5. latency \in Nat \ {0}
  BY <1>3, <1>4
<1>6. ready \in Int /\ ready <= now + latency
  BY <1>2, <1>3, <1>4
<1> HIDE DEF latency, ready
<1> DEFINE finish == now + latency
<1>7. finish \in Int
  BY <1>5
<1>8. after = [b EXCEPT !.state = to, !.readyTime = ready, !.lastCmdFinish = finish]
  OBVIOUS
<1> HIDE DEF finish, after
<1>9. after \in BankTiming /\ after.state = to /\ after.readyTime = ready
  BY <1>6, <1>7, <1>8 DEF BankTiming
<1>10. to # BankIdle
  BY DramAssumption
<1> QED
  BY <1>1, <1>5, <1>6, <1>9, <1>10

LEMMA ActivateOpens ==
    ASSUME NEW b \in BankTiming, NEW now \in Int
    PROVE  /\ ActivateBank(b, now) \in BankTiming
           /\ ActivateBank(b, now).state # BankIdle
           /\ ActivateBank(b, now).readyTime = b.readyTime
<1> DEFINE last == Latest(b.activateTime, 0)
           active == IF last + internal_row_to_row > now /\ last > 0
                     THEN now - last + RAS_latency + now
                     ELSE RAS_latency + now
           time == active + Latest(b.closeTime - now, 0)
<1>1. time \in Int
  BY DramAssumption DEF BankTiming, Latest
<1>2. ActivateBank(b, now) = [b EXCEPT !.state = BankActive, !.activateTime = time]
  BY DEF ActivateBank
<1> HIDE DEF time
<1> QED
  BY <1>1, <1>2, DramAssumption DEF BankTiming

LEMMA PrechargeCloses ==
    ASSUME NEW b \in BankTiming, NEW now \in Int, b.state # BankIdle
    PROVE  /\ PrechargeBank(b, now) \in BankTiming
           /\ PrechargeBank(b, now).state = BankIdle
           /\ PrechargeBank(b, now).readyTime = b.readyTime
<1> DEFINE at == PrechargeAt(b, now)
           early == Latest(min_activate_to_precharge_latency - (at - b.activateTime), 0)
           time == at + early + precharge_latency
<1>1. at \in Int
  <2>1. b.readyTime \in Int /\ b.activateTime \in Int
    BY DEF BankTiming
  <2>2. Latest(b.readyTime, now) \in Int /\ Latest(b.activateTime, now) \in Int
    BY <2>1, LatestIsInt
  <2>3. CASE b.state = BankRead
    BY <2>2, <2>3, DramAssumption DEF PrechargeAt
  <2>4. CASE b.state = BankWritten
    BY <2>2, <2>4, DramAssumption DEF PrechargeAt
  <2>5. CASE b.state = BankActive
    BY <2>2, <2>5, DramAssumption DEF PrechargeAt
  <2> QED
    BY <2>3, <2>4, <2>5 DEF BankTiming
<1>2. PrechargeBank(b, now) = [b EXCEPT !.state = BankIdle, !.closeTime = time]
  BY DEF PrechargeBank
<1> HIDE DEF at
<1>3. time \in Int
  BY <1>1, DramAssumption DEF BankTiming, Latest
<1> HIDE DEF time
<1> QED
  BY <1>2, <1>3 DEF BankTiming

-----------------------------------------------------------------------------
(* The commands of the controller.                                         *)

LEMMA ActivatedKeepsDram ==
    ASSUME IInv, DramInv, Activated
    PROVE  DramInv'
<1>1. PICK s \in ToActivate : openpage' = [openpage EXCEPT ![Bank(s)] = Req(s).page]
  BY DEF Activated, GetActivate
<1>2. s \in Slots /\ bankIsClosed(s)
  BY <1>1 DEF ToActivate, Considered
<1>3. PICK b \in Banks : b = Bank(s)
  BY <1>2, SlotFacts DEF IInv
<1>4. PICK p \in Pages : p = Req(s).page
  BY <1>2, SlotFacts DEF IInv
<1>5. p # Closed /\ openpage[b] = Closed
  BY <1>2, <1>3, <1>4, ControllerAssumption DEF bankIsClosed
<1>6. openpage'[b] = p /\ \A a \in Banks \ {b} : openpage'[a] = openpage[a]
  BY <1>1, <1>3, <1>4 DEF IInv, PageInv
<1>7. /\ dram' = [a \in Banks |-> IF openpage'[a] = openpage[a] THEN dram[a]
                                  ELSE ActivateBank(dram[a], curTick)]
      /\ nextfree' = curTick
      /\ event = Now /\ UNCHANGED <<event, curTick>>
  BY DEF Activated, GetActivate, Served
<1>8. dram'[b] = ActivateBank(dram[b], curTick) /\ \A a \in Banks \ {b} : dram'[a] = dram[a]
  BY <1>5, <1>6, <1>7
<1>9. /\ ActivateBank(dram[b], curTick) \in BankTiming
      /\ ActivateBank(dram[b], curTick).state # BankIdle
      /\ ActivateBank(dram[b], curTick).readyTime = dram[b].readyTime
  BY ActivateOpens DEF DramInv, IInv, CountInv
<1>10. dram' \in [Banks -> BankTiming]
  BY <1>7, <1>8, <1>9 DEF DramInv
<1>11. \A a \in Banks : dram'[a].state = BankIdle <=> ~IsOpen(a)'
  BY <1>5, <1>6, <1>8, <1>9 DEF DramInv, IsOpen
<1>12. \A a \in Banks : dram'[a].readyTime = dram[a].readyTime
  BY <1>8, <1>9
<1>13. curTick \in Int /\ event' # Later /\ event # Later
  BY <1>7, ControllerAssumption DEF IInv, CountInv
<1>14. \A a \in Banks : dram'[a].readyTime <= curTick'
  BY <1>7, <1>12, <1>13 DEF DramInv
<1> QED
  BY <1>7, <1>10, <1>11, <1>13, <1>14 DEF DramInv

LEMMA PrechargedKeepsDram ==
    ASSUME IInv, DramInv, Precharged
    PROVE  DramInv'
<1>1. \E b \in Banks : IsOpen(b) /\ CloseBank(b, b)
  <2>1. CASE GetClose
    <3>1. PICK b \in ToClose : CloseBank(b, BankOf[activePages[b]])
      BY <2>1 DEF GetClose
    <3>2. b \in Banks /\ IsOpen(b) /\ BankOf[activePages[b]] = b
      BY <3>1 DEF ToClose, IInv, PageInv, IsOpen
    <3> QED
      BY <3>1, <3>2
  <2>2. CASE CloseForOldest
    <3>1. PICK s \in Considered :
            \/ ~bankIsClosed(s) /\ CloseBank(Bank(s), Bank(s))
            \/ \E b \in Banks : OpenLongest(b) /\ CloseBank(b, BankOf[activePages[b]])
      BY <2>2 DEF CloseForOldest
    <3>2. Bank(s) \in Banks
      BY <3>1, SlotFacts DEF Considered, IInv
    <3>3. \A b \in Banks : OpenLongest(b) => IsOpen(b) /\ BankOf[activePages[b]] = b
      BY DEF OpenLongest, IInv, PageInv, IsOpen
    <3> QED
      BY <3>1, <3>2, <3>3 DEF bankIsClosed, IsOpen
  <2> QED
    BY <2>1, <2>2 DEF Precharged
<1>2. PICK b \in Banks : IsOpen(b) /\ CloseBank(b, b)
  BY <1>1
<1>3. openpage[b] # Closed /\ openpage'[b] = Closed /\ \A a \in Banks \ {b} : openpage'[a] = openpage[a]
  BY <1>2 DEF CloseBank, IInv, PageInv, IsOpen
<1>4. /\ dram' = [a \in Banks |-> IF openpage'[a] = openpage[a] THEN dram[a]
                                  ELSE PrechargeBank(dram[a], curTick)]
      /\ nextfree' = curTick
  BY DEF Precharged
<1>5. event = Now /\ UNCHANGED <<event, curTick>>
  BY <1>2 DEF Precharged, GetClose, CloseForOldest, OldestForced, Served, CloseBank
<1>6. dram'[b] = PrechargeBank(dram[b], curTick) /\ \A a \in Banks \ {b} : dram'[a] = dram[a]
  BY <1>3, <1>4
<1>7. dram[b] \in BankTiming /\ dram[b].state # BankIdle /\ curTick \in Int
  BY <1>2 DEF DramInv, IInv, CountInv
<1>8. /\ PrechargeBank(dram[b], curTick) \in BankTiming
      /\ PrechargeBank(dram[b], curTick).state = BankIdle
      /\ PrechargeBank(dram[b], curTick).readyTime = dram[b].readyTime
  BY <1>7, PrechargeCloses
<1>9. dram' \in [Banks -> BankTiming]
  BY <1>4, <1>6, <1>8 DEF DramInv
<1>10. \A a \in Banks : dram'[a].state = BankIdle <=> ~IsOpen(a)'
  BY <1>3, <1>6, <1>8 DEF DramInv, IsOpen
<1>11. \A a \in Banks : dram'[a].readyTime = dram[a].readyTime
  BY <1>6, <1>8
<1>12. event' # Later /\ event # Later
  BY <1>5, ControllerAssumption
<1>13. \A a \in Banks : dram'[a].readyTime <= curTick'
  BY <1>5, <1>11, <1>12 DEF DramInv
<1> QED
  BY <1>4, <1>5, <1>7, <1>9, <1>10, <1>12, <1>13 DEF DramInv

\* Both ways to issue a request.
LEMMA IssuedKeepsDram ==
    ASSUME IInv, DramInv, event = Now, NEW t, Issue(t),
           NEW s \in Slots, isActive(s), Issued(s)
    PROVE  DramInv'
<1>1. event' = Later /\ UNCHANGED <<openpage, curTick>>
  BY DEF Issue, pageVars
<1>2. PICK b \in Banks : b = Bank(s)
  BY SlotFacts DEF IInv
<1>3. openpage[b] # Closed
  BY <1>2, SlotFacts, ControllerAssumption DEF isActive, IInv
<1>4. dram[b] \in BankTiming /\ curTick \in Int
  BY DEF DramInv, IInv, CountInv
<1> DEFINE acc == AccessOf(s)
<1>5. /\ acc.bank \in BankTiming /\ acc.bank.state # BankIdle
      /\ acc.latency \in Nat \ {0} /\ acc.bank.readyTime <= curTick + acc.latency
  <2>1. CASE s[1] = Read
    <3>1. acc = Access(dram[b], curTick, BankRead, CAS_latency, TurnToRead(dram[b], curTick))
      BY <1>2, <2>1 DEF AccessOf, ReadBank
    <3> HIDE DEF acc
    <3> QED
      BY <1>4, <3>1, TurnsAreNat, AccessEnds, DramAssumption
  <2>2. CASE s[1] # Read
    <3>1. acc = Access(dram[b], curTick, BankWritten, write_latency, TurnToWrite(dram[b], curTick))
      BY <1>2, <2>2 DEF AccessOf, WriteBank
    <3> HIDE DEF acc
    <3> QED
      BY <1>4, <3>1, TurnsAreNat, AccessEnds, DramAssumption
  <2> QED
    BY <2>1, <2>2
<1>6. dram' = [dram EXCEPT ![b] = acc.bank] /\ nextfree' = curTick + acc.latency
  BY <1>2 DEF Issued
<1> HIDE DEF acc
<1>7. dram'[b] = acc.bank /\ \A a \in Banks \ {b} : dram'[a] = dram[a]
  BY <1>6 DEF DramInv
<1>8. dram' \in [Banks -> BankTiming]
  BY <1>5, <1>6 DEF DramInv
<1>9. \A a \in Banks : dram'[a].state = BankIdle <=> ~IsOpen(a)'
  BY <1>1, <1>3, <1>5, <1>7 DEF DramInv, IsOpen
<1>10. nextfree' \in Int /\ curTick < nextfree'
  BY <1>4, <1>5, <1>6
<1>11. event # Later
  BY ControllerAssumption
<1>12. \A a \in Banks \ {b} : dram'[a].readyTime <= nextfree'
  <2> SUFFICES ASSUME NEW a \in Banks \ {b} PROVE dram[a].readyTime <= nextfree'
    BY <1>7
  <2>1. dram[a].readyTime <= curTick /\ dram[a] \in BankTiming
    BY <1>11 DEF DramInv
  <2>2. dram[a].readyTime \in Int
    BY <2>1 DEF BankTiming
  <2> QED
    BY <1>4, <1>10, <2>1, <2>2
<1>13. \A a \in Banks : dram'[a].readyTime <= nextfree'
  BY <1>5, <1>6, <1>7, <1>12
<1> QED
  BY <1>1, <1>8, <1>9, <1>10, <1>13 DEF DramInv

LEMMA TickKeepsDram ==
    ASSUME IInv, DramInv, Tick
    PROVE  DramInv'
<1>1. /\ curTick' = curTick + 1 /\ event # Now
      /\ event' = IF event = Later /\ nextfree = curTick' THEN Now ELSE event
      /\ UNCHANGED <<openpage, dram, nextfree>>
  BY DEF Tick, pageVars
<1>2. curTick \in Int /\ nextfree \in Int /\ Now # Later
  BY ControllerAssumption DEF IInv, CountInv, DramInv
<1>3. \A b \in Banks : dram[b].readyTime \in Int
  BY DEF DramInv, BankTiming
<1>4. \A b \in Banks : dram'[b].readyTime <= IF event' = Later THEN nextfree' ELSE curTick'
  BY <1>1, <1>2, <1>3 DEF DramInv
<1>5. event' = Later => curTick' < nextfree'
  BY <1>1, <1>2 DEF DramInv
<1> QED
  BY <1>1, <1>4, <1>5 DEF DramInv, IsOpen

-----------------------------------------------------------------------------
(* The arbitration.                                                        *)

LEMMA NewEventIsFresh ==
    ASSUME NEW o, NEW a, currently_scheduled' = NewEvent(o, a)
    PROVE  LoopInv'
<1>1. currently_scheduled' = ScheduledEvent(o, a, FALSE, 0)
  BY DEF NewEvent, ScheduledEvent
<1> QED
  BY <1>1 DEF LoopInv

\* An event that comes after the controller's finds the bus taken.
LEMMA PutOffLoopsOnce ==
    ASSUME IInv, DramInv, LoopInv, PutOff
    PROVE  LoopInv'
<1>1. /\ currently_scheduled # NoEvent /\ isBlockedFlag
      /\ currently_scheduled.resched => event # Now
      /\ currently_scheduled' =
             [currently_scheduled EXCEPT
                 !.resched = TRUE,
                 !.at = IF nextfree <= curTick THEN curTick ELSE nextfree,
                 !.loops = IF nextfree <= curTick THEN @ + 1 ELSE 0]
  BY DEF PutOff, ArbitrationServed, ArbitrationDue
<1>2. PICK o, a : \E r \in BOOLEAN, l \in {0, 1} :
          currently_scheduled = ScheduledEvent(o, a, r, l) /\ (~r => l = 0)
  BY <1>1 DEF LoopInv
<1>3. PICK r \in BOOLEAN, l \in {0, 1} :
          currently_scheduled = ScheduledEvent(o, a, r, l) /\ (~r => l = 0)
  BY <1>2
<1> DEFINE k == IF nextfree <= curTick THEN l + 1 ELSE 0
           at == IF nextfree <= curTick THEN curTick ELSE nextfree
<1>4. currently_scheduled' = ScheduledEvent(o, at, TRUE, k)
  BY <1>1, <1>3 DEF ScheduledEvent
<1>5. currently_scheduled.resched = r
  BY <1>3 DEF ScheduledEvent
<1>6. CASE r
  <2>1. event = Later
    BY <1>1, <1>5, <1>6 DEF IInv, EventInv
  <2>2. ~(nextfree <= curTick)
    BY <2>1 DEF DramInv, IInv, CountInv
  <2>3. k = 0
    BY <2>2
  <2> QED
    BY <1>4, <2>3 DEF LoopInv
<1>7. CASE ~r
  <2>1. k \in {0, 1}
    BY <1>3, <1>7
  <2> HIDE DEF k, at
  <2> QED
    BY <1>4, <2>1 DEF LoopInv
<1> QED
  BY <1>6, <1>7

-----------------------------------------------------------------------------
(* Every behaviour satisfies the invariant.                                *)

LEMMA BusInitEstablishes == BusInit => BusInv
<1> SUFFICES ASSUME BusInit PROVE BusInv
  OBVIOUS
<1>1. Init /\ IInv
  BY InitEstablishes DEF BusInit
<1>2. DramInv
  BY <1>1, ControllerAssumption, DramAssumption
     DEF BusInit, Init, DramInv, InitialBank, BankTiming, IsOpen
<1>3. LoopInv
  BY DEF BusInit, LoopInv
<1> QED
  BY <1>1, <1>2, <1>3 DEF BusInv

LEMMA BusNextPreserves == BusInv /\ [BusNext]_busVars => BusInv'
<1> SUFFICES ASSUME IInv, DramInv, LoopInv, [BusNext]_busVars PROVE BusInv'
  BY DEF BusInv
<1>1. ASSUME UNCHANGED <<vars, dram, nextfree>> PROVE IInv' /\ DramInv'
  <2>1. IInv'
    BY <1>1, NextPreserves
  <2>2. UNCHANGED <<dram, nextfree, curTick, openpage, event>>
    BY <1>1 DEF vars, pageVars
  <2> QED
    BY <2>1, <2>2, DramUntouched
<1>2. ASSUME HandleMemoryController PROVE IInv'
  BY <1>2, CommandPreserves
<1>3. ASSUME UNCHANGED arbVars PROVE LoopInv'
  BY <1>3 DEF arbVars, LoopInv
<1>4. ASSUME ScheduleNext PROVE LoopInv'
  <2>1. \/ currently_scheduled' = NoEvent
        \/ \E o, a : currently_scheduled' = NewEvent(o, a)
    BY <1>4 DEF ScheduleNext
  <2>2. CASE currently_scheduled' = NoEvent
    BY <2>2 DEF LoopInv
  <2> QED
    BY <2>1, <2>2, NewEventIsFresh
<1>5. ASSUME NEW time, RequestAddrBus(time) PROVE BusInv'
  <2>1. UNCHANGED <<vars, dram, nextfree>>
    BY <1>5 DEF RequestAddrBus
  <2>2. currently_scheduled' = NewEvent(time, time) \/ currently_scheduled' = currently_scheduled
    BY <1>5 DEF RequestAddrBus
  <2>3. LoopInv'
    <3>1. CASE currently_scheduled' = currently_scheduled
      BY <3>1 DEF LoopInv
    <3> QED
      BY <2>2, <3>1, NewEventIsFresh
  <2> QED
    BY <1>1, <2>1, <2>3 DEF BusInv
<1>6. CASE PutOff
  <2>1. UNCHANGED <<vars, dram, nextfree>>
    BY <1>6 DEF PutOff
  <2> QED
    BY <1>1, <1>6, <2>1, PutOffLoopsOnce DEF BusInv
<1>7. ASSUME NEW cmd \in {Read, Writeback}, NEW p \in Pages, Grant(cmd, p) PROVE BusInv'
  <2>1. SendAddr(cmd, p) /\ ScheduleNext
    BY <1>7 DEF Grant
  <2>2. IInv'
    <3>1. Next
      BY <2>1 DEF Next
    <3> QED
      BY <3>1, NextPreserves
  <2>3. /\ UNCHANGED <<dram, nextfree, curTick, openpage>>
        /\ event' = IF event = Idle THEN Now ELSE event
    BY <2>1 DEF SendAddr, InsertRequest, ScheduleNext, pageVars
  <2>4. DramInv'
    BY <2>3, DramUntouched, ControllerAssumption
  <2> QED
    BY <1>4, <2>1, <2>2, <2>4 DEF BusInv
<1>8. CASE GrantNull
  <2>1. UNCHANGED <<vars, dram, nextfree>> /\ ScheduleNext
    BY <1>8 DEF GrantNull, ScheduleNext
  <2> QED
    BY <1>1, <1>4, <2>1 DEF BusInv
<1>9. CASE Activated
  <2>1. GetActivate /\ UNCHANGED arbVars
    BY <1>9 DEF Activated
  <2> QED
    BY <1>2, <1>3, <1>9, <2>1, ActivatedKeepsDram DEF BusInv, HandleMemoryController
<1>10. CASE Precharged
  <2>1. (GetClose \/ CloseForOldest) /\ UNCHANGED arbVars
    BY <1>10 DEF Precharged
  <2> QED
    BY <1>2, <1>3, <1>10, <2>1, PrechargedKeepsDram DEF BusInv, HandleMemoryController
<1>11. CASE IssuedReady
  <2>1. PICK s \in ToIssue : Issued(s)
    BY <1>11 DEF IssuedReady
  <2>2. s \in Slots /\ isActive(s) /\ UNCHANGED arbVars
    BY <2>1 DEF ToIssue, Considered, isReady, Issued
  <2>3. GetReady /\ event = Now /\ \E t : Issue(t)
    BY <1>11 DEF IssuedReady, GetReady, Served
  <2>4. DramInv'
    BY <2>1, <2>2, <2>3, IssuedKeepsDram
  <2> QED
    BY <1>2, <1>3, <2>2, <2>3, <2>4 DEF BusInv, HandleMemoryController
<1>12. CASE IssuedOldest
  <2>1. PICK s \in Considered : isActive(s) /\ Issued(s)
    BY <1>12 DEF IssuedOldest
  <2>2. s \in Slots /\ UNCHANGED arbVars
    BY <2>1 DEF Considered, Issued
  <2>3. IssueOldest /\ event = Now /\ \E t : Issue(t)
    BY <1>12 DEF IssuedOldest, IssueOldest, OldestForced, Served
  <2>4. DramInv'
    BY <2>1, <2>2, <2>3, IssuedKeepsDram
  <2> QED
    BY <1>2, <1>3, <2>2, <2>3, <2>4 DEF BusInv, HandleMemoryController
<1>13. CASE Rested
  <2>1. /\ Rest /\ UNCHANGED <<dram, nextfree, arbVars, curTick, openpage>>
        /\ event = Now /\ event' = Idle
    BY <1>13 DEF Rested, Rest, Served, pageVars
  <2>2. DramInv'
    BY <2>1, DramUntouched, ControllerAssumption
  <2> QED
    BY <1>2, <1>3, <2>1, <2>2 DEF BusInv, HandleMemoryController
<1>14. CASE Tick
  <2>1. /\ curTick' = curTick + 1
        /\ event' = IF event = Later /\ nextfree = curTick' THEN Now ELSE event
        /\ UNCHANGED <<config, queueVars, pageVars, orderVars, highPriCPUID,
                       generatorVars, arbVars>>
    BY <1>14 DEF Tick
  <2>2. QueueInv' /\ PageInv'
    BY <2>1, QueueUntouched, PageUntouched DEF IInv
  <2>3. EventInv'
    BY <2>1, ControllerAssumption DEF IInv, EventInv, queueVars
  <2>4. curTick' \in Nat
    BY <2>1 DEF IInv, CountInv
  <2>5. CountInv'
    BY <2>1, <2>4 DEF IInv, CountInv, orderVars, generatorVars
  <2> QED
    BY <1>3, <1>14, <2>1, <2>2, <2>3, <2>5, TickKeepsDram DEF BusInv, IInv
<1>15. CASE UNCHANGED busVars
  BY <1>1, <1>3, <1>15 DEF busVars, BusInv
<1> QED
  BY <1>5, <1>6, <1>7, <1>8, <1>9, <1>10, <1>11, <1>12, <1>13, <1>14, <1>15 DEF BusNext

LEMMA BusInductive == BusSpec => []BusInv
BY BusInitEstablishes, BusNextPreserves, PTL DEF BusSpec

\* Whatever the latencies, a bank whose page is open is ready when the controller
\* chooses: isReady never says no to a row hit, so that the queue order decides.
THEOREM OpenIsReady == BusSpec => []ReadyWhenServed
<1>1. BusInv => ReadyWhenServed
  BY ControllerAssumption DEF BusInv, DramInv, ReadyWhenServed
<1> QED
  BY BusInductive, <1>1, PTL

\* assert(arbitrationLoopCounter < MAX_ARB_RESCHED) holds with room to spare: an
\* arbitration that finds the controller blocked waits for its event once.
THEOREM BlockedArbitrationWaits == BusSpec => []NoArbitrationLoop
<1>1. BusInv => NoArbitrationLoop
  <2> SUFFICES ASSUME LoopInv, currently_scheduled # NoEvent
               PROVE  currently_scheduled.loops <= 1
    BY DEF BusInv, NoArbitrationLoop
  <2>1. currently_scheduled.loops \in {0, 1}
    BY DEF LoopInv, ScheduledEvent
  <2> QED
    BY <2>1
<1> QED
  BY BusInductive, <1>1, PTL

\* The invariants of the controller hold of the controller on the bus, where ticks
\* are real and the arbitration decides when it is served.
THEOREM CopiesAgreeOnTheBus == BusSpec => [](BanksAgree /\ BlockedHasWork)
<1>1. BusInv => BanksAgree /\ BlockedHasWork
  BY SomeSlot DEF BusInv, IInv, PageInv, BanksAgree, OpenBanks, IsOpen, EventInv, BlockedHasWork
<1> QED
  BY BusInductive, <1>1, PTL

-----------------------------------------------------------------------------
(* The arbitration events.                                                 *)

Ascending(q) == \A i, j \in 1 .. Len(q) : i <= j => q[i] <= q[j]

AskedInv ==
    /\ arb_events \in Seq(Nat)
    /\ need_to_sort \in BOOLEAN
    /\ ~need_to_sort => Ascending(arb_events)
    /\ currently_scheduled = NoEvent => arb_events = <<>>
    /\ currently_scheduled # NoEvent => /\ currently_scheduled.original_time \in Nat
                                        /\ currently_scheduled.at \in Nat
    /\ lastarbevent \in Nat /\ lastarbevent <= curTick
    /\ ArbitrationInOrder

\* The places are those of a permutation.
LEMMA PlacesInOrder ==
    ASSUME NEW q \in Seq(Nat), NEW i \in DOMAIN q, NEW j \in DOMAIN q, Earlier(q, i, j)
    PROVE  Place(q, i) < Place(q, j)
<1> DEFINE A(k) == {m \in DOMAIN q : Earlier(q, m, k)}
<1>1. DOMAIN q = 1 .. Len(q) /\ Len(q) \in Nat /\ \A k \in DOMAIN q : q[k] \in Nat
  BY LenProperties, ElementOfSeq
<1>2. IsFiniteSet(DOMAIN q)
  BY <1>1, FS_Interval
<1>3. /\ IsFiniteSet(A(i)) /\ IsFiniteSet(A(j))
      /\ Place(q, i) = 1 + Cardinality(A(i)) /\ Place(q, j) = 1 + Cardinality(A(j))
  BY <1>2, FS_Subset DEF Place
<1>4. A(i) \in SUBSET A(j)
  <2> SUFFICES ASSUME NEW m \in DOMAIN q, Earlier(q, m, i) PROVE Earlier(q, m, j)
    OBVIOUS
  <2>1. q[m] \in Nat /\ q[i] \in Nat /\ q[j] \in Nat /\ m \in Nat /\ i \in Nat /\ j \in Nat
    BY <1>1
  <2> QED
    BY <2>1 DEF Earlier
<1>5. i \in A(j) /\ i \notin A(i)
  <2>1. q[i] \in Nat /\ i \in Nat
    BY <1>1
  <2> QED
    BY <2>1 DEF Earlier
<1> HIDE DEF A
<1>6. Cardinality(A(i)) <= Cardinality(A(j)) /\ Cardinality(A(i)) # Cardinality(A(j))
  BY <1>3, <1>4, <1>5, FS_Subset
<1>7. Cardinality(A(i)) \in Nat /\ Cardinality(A(j)) \in Nat
  BY <1>3, FS_CardinalityType
<1> QED
  BY <1>3, <1>6, <1>7

LEMMA PlaceIsTaken ==
    ASSUME NEW q \in Seq(Nat), NEW n \in DOMAIN q
    PROVE  \E i \in DOMAIN q : Place(q, i) = n
<1> DEFINE D == DOMAIN q
           f == [i \in D |-> Place(q, i)]
<1>1. D = 1 .. Len(q) /\ Len(q) \in Nat /\ \A k \in D : q[k] \in Nat
  BY LenProperties, ElementOfSeq
<1>2. IsFiniteSet(D) /\ Cardinality(D) = Len(q)
  <2> DEFINE k == Len(q)
  <2>1. k \in Int /\ 1 \in Int
    BY <1>1
  <2> HIDE DEF k
  <2>2. IsFiniteSet(1 .. k) /\ Cardinality(1 .. k) = IF 1 > k THEN 0 ELSE k - 1 + 1
    BY <2>1, FS_Interval
  <2>3. k \in Nat
    BY <1>1 DEF k
  <2>4. Cardinality(1 .. k) = k
    BY <2>2, <2>3
  <2> QED
    BY <1>1, <2>2, <2>4 DEF k
<1>3. ASSUME NEW i \in D PROVE Place(q, i) \in D
  <2> DEFINE A == {m \in D : Earlier(q, m, i)}
  <2>1. A \in SUBSET D /\ i \notin A
    BY <1>1 DEF Earlier
  <2>2. IsFiniteSet(A) /\ Cardinality(A) <= Cardinality(D) /\ Cardinality(A) # Cardinality(D)
    BY <1>2, <2>1, FS_Subset
  <2>3. Cardinality(A) \in Nat /\ Place(q, i) = 1 + Cardinality(A)
    BY <2>2, FS_CardinalityType DEF Place
  <2> HIDE DEF A, D
  <2> QED
    BY <1>1, <1>2, <2>2, <2>3
<1>4. ASSUME NEW i \in D, NEW j \in D, Place(q, i) = Place(q, j) PROVE i = j
  <2>1. ~Earlier(q, i, j) /\ ~Earlier(q, j, i)
    <3>1. Place(q, i) \in Nat /\ Place(q, j) \in Nat
      BY <1>1, <1>3
    <3> QED
      BY <1>4, <3>1, PlacesInOrder
  <2>2. q[i] \in Nat /\ q[j] \in Nat /\ i \in Nat /\ j \in Nat
    BY <1>1
  <2> QED
    BY <2>1, <2>2 DEF Earlier
<1>5. f \in [D -> D] /\ \A i, j \in D : f[i] = f[j] => i = j
  BY <1>3, <1>4
<1> HIDE DEF D, f
<1>6. f \in Injection(D, D)
  BY <1>5 DEF Injection, IsInjective
<1>7. f \in Surjection(D, D)
  BY <1>2, <1>6, FS_Injection
<1>8. PICK i \in D : f[i] = n
  BY <1>7 DEF Surjection, D
<1> QED
  BY <1>8 DEF f, D

\* The sort: nothing is lost, and the result is in order.
LEMMA SortProperties ==
    ASSUME NEW q \in Seq(Nat)
    PROVE  /\ InOrder(q) \in Seq(Nat) /\ Len(InOrder(q)) = Len(q)
           /\ Ascending(InOrder(q))
           /\ \A n \in 1 .. Len(q) : \E i \in 1 .. Len(q) : InOrder(q)[n] = q[i]
<1> DEFINE at(n) == CHOOSE i \in DOMAIN q : Place(q, i) = n
<1>1. DOMAIN q = 1 .. Len(q) /\ Len(q) \in Nat /\ \A k \in DOMAIN q : q[k] \in Nat
  BY LenProperties, ElementOfSeq
<1>2. \A n \in DOMAIN q : at(n) \in DOMAIN q /\ Place(q, at(n)) = n
  BY PlaceIsTaken
<1>3. InOrder(q) = [n \in 1 .. Len(q) |-> q[at(n)]]
  BY <1>1 DEF InOrder
<1> HIDE DEF at
<1>4. \A n \in 1 .. Len(q) : q[at(n)] \in Nat /\ at(n) \in 1 .. Len(q)
  BY <1>1, <1>2
<1>5. InOrder(q) \in Seq(Nat) /\ Len(InOrder(q)) = Len(q)
  BY <1>1, <1>3, <1>4
<1>6. ASSUME NEW m \in 1 .. Len(q), NEW n \in 1 .. Len(q), m <= n
      PROVE  InOrder(q)[m] <= InOrder(q)[n]
  <2>1. ~Earlier(q, at(n), at(m))
    <3>1. Earlier(q, at(n), at(m)) => Place(q, at(n)) < Place(q, at(m))
      BY <1>1, <1>4, PlacesInOrder
    <3>2. Place(q, at(n)) = n /\ Place(q, at(m)) = m
      BY <1>1, <1>2
    <3> QED
      BY <1>6, <3>1, <3>2
  <2>2. q[at(m)] \in Nat /\ q[at(n)] \in Nat
    BY <1>4
  <2>3. q[at(m)] <= q[at(n)]
    BY <2>1, <2>2 DEF Earlier
  <2> QED
    BY <1>3, <2>3
<1> QED
  BY <1>3, <1>4, <1>5, <1>6 DEF Ascending

\* The front of a queue in order, and the rest of it.
LEMMA HeadIsEarliest ==
    ASSUME NEW q \in Seq(Nat), q # <<>>, Ascending(q)
    PROVE  /\ Head(q) \in Nat /\ Tail(q) \in Seq(Nat) /\ Ascending(Tail(q))
           /\ \A n \in DOMAIN Tail(q) : Head(q) <= Tail(q)[n]
           /\ Head(q) = q[1] /\ 1 \in 1 .. Len(q)
<1>1. /\ Len(q) \in Nat \ {0} /\ Head(q) \in Nat /\ Tail(q) \in Seq(Nat)
      /\ Len(Tail(q)) = Len(q) - 1 /\ Head(q) = q[1]
      /\ \A n \in 1 .. Len(Tail(q)) : Tail(q)[n] = q[n + 1]
      /\ DOMAIN Tail(q) = 1 .. Len(Tail(q))
  <2>1. Len(q) \in Nat \ {0}
    BY LenProperties, EmptySeq
  <2> QED
    BY <2>1, HeadTailProperties, LenProperties
<1>2. 1 \in 1 .. Len(q)
  BY <1>1
<1>3. \A n \in 1 .. Len(Tail(q)) : n + 1 \in 1 .. Len(q)
  BY <1>1
<1>4. Ascending(Tail(q))
  <2>1. ASSUME NEW m \in 1 .. Len(Tail(q)), NEW n \in 1 .. Len(Tail(q)), m <= n
        PROVE  Tail(q)[m] <= Tail(q)[n]
    <3>1. q[m + 1] <= q[n + 1]
      BY <1>3, <2>1 DEF Ascending
    <3> QED
      BY <1>1, <3>1
  <2> QED
    BY <2>1 DEF Ascending
<1>5. \A n \in DOMAIN Tail(q) : Head(q) <= Tail(q)[n]
  <2> SUFFICES ASSUME NEW n \in 1 .. Len(Tail(q)) PROVE Head(q) <= Tail(q)[n]
    BY <1>1
  <2>1. q[1] <= q[n + 1]
    BY <1>2, <1>3 DEF Ascending
  <2> QED
    BY <1>1, <2>1
<1> QED
  BY <1>1, <1>2, <1>4, <1>5

LEMMA SortedFacts ==
    ASSUME AskedInv
    PROVE  /\ Sorted \in Seq(Nat) /\ Ascending(Sorted)
           /\ Sorted = <<>> <=> arb_events = <<>>
           /\ \A n \in 1 .. Len(Sorted) : \E i \in DOMAIN arb_events : Sorted[n] = arb_events[i]
<1>1. DOMAIN arb_events = 1 .. Len(arb_events)
  BY LenProperties DEF AskedInv
<1>2. CASE need_to_sort
  <2>1. Sorted = InOrder(arb_events)
    BY <1>2 DEF Sorted
  <2>2. arb_events \in Seq(Nat) /\ Len(arb_events) \in Nat
    BY LenProperties DEF AskedInv
  <2>3. /\ InOrder(arb_events) \in Seq(Nat) /\ Len(InOrder(arb_events)) = Len(arb_events)
        /\ Ascending(InOrder(arb_events))
        /\ \A n \in 1 .. Len(arb_events) : \E i \in 1 .. Len(arb_events) :
               InOrder(arb_events)[n] = arb_events[i]
    BY <2>2, SortProperties
  <2>4. Sorted \in Seq(Nat) /\ Len(Sorted) = Len(arb_events) /\ Ascending(Sorted)
    BY <2>1, <2>3
  <2>5. Sorted = <<>> <=> arb_events = <<>>
    <3>1. \A q \in Seq(Nat) : q = <<>> <=> Len(q) = 0
      BY EmptySeq
    <3> QED
      BY <2>2, <2>4, <3>1
  <2>6. \A n \in 1 .. Len(Sorted) : \E i \in DOMAIN arb_events : Sorted[n] = arb_events[i]
    BY <1>1, <2>1, <2>3, <2>4
  <2> QED
    BY <2>4, <2>5, <2>6
<1>3. CASE ~need_to_sort
  BY <1>1, <1>3 DEF Sorted, AskedInv
<1> QED
  BY <1>2, <1>3

\* A scheduled event is none but a record.
LEMMA NewEventIsOne ==
    ASSUME NEW time \in Nat, NEW at \in Nat
    PROVE  /\ NewEvent(time, at) # NoEvent
           /\ NewEvent(time, at).original_time = time /\ NewEvent(time, at).at = at
<1>1. NewEvent(time, at) \in ArbEvent
  BY DEF NewEvent, ArbEvent
<1> QED
  BY <1>1, BusAssumption DEF NewEvent

LEMMA RequestKeepsOrder ==
    ASSUME BusInv, AskedInv, NEW delay \in 0 .. HitLatency, RequestAddrBus(curTick + delay)
    PROVE  AskedInv'
<1> DEFINE time == curTick + delay
<1>1. time \in Nat /\ curTick \in Nat /\ curTick <= time
  BY BusAssumption DEF BusInv, IInv, CountInv
<1>2. /\ need_to_sort' = TRUE /\ lastarbevent' = lastarbevent /\ curTick' = curTick
      /\ \/ /\ currently_scheduled = NoEvent
            /\ currently_scheduled' = NewEvent(time, time)
            /\ arb_events' = arb_events
         \/ /\ currently_scheduled # NoEvent
            /\ currently_scheduled.original_time > time
            /\ arb_events' = Append(arb_events, currently_scheduled.original_time)
            /\ currently_scheduled' = NewEvent(time, time)
         \/ /\ currently_scheduled # NoEvent
            /\ currently_scheduled.original_time <= time
            /\ arb_events' = Append(arb_events, time)
            /\ currently_scheduled' = currently_scheduled
  BY DEF RequestAddrBus, vars
<1> HIDE DEF time
<1>3. /\ NewEvent(time, time) # NoEvent
      /\ NewEvent(time, time).original_time = time /\ NewEvent(time, time).at = time
  BY <1>1, NewEventIsOne
<1>4. lastarbevent <= time /\ lastarbevent \in Nat
  BY <1>1 DEF AskedInv
<1>5. ASSUME NEW v \in Nat
      PROVE  /\ Append(arb_events, v) \in Seq(Nat)
             /\ \A i \in DOMAIN Append(arb_events, v) :
                    Append(arb_events, v)[i] = v
                    \/ (i \in DOMAIN arb_events /\ Append(arb_events, v)[i] = arb_events[i])
  <2>1. /\ Append(arb_events, v) \in Seq(Nat) /\ Len(Append(arb_events, v)) = Len(arb_events) + 1
        /\ \A i \in 1 .. Len(arb_events) : Append(arb_events, v)[i] = arb_events[i]
        /\ Append(arb_events, v)[Len(arb_events) + 1] = v
        /\ Len(arb_events) \in Nat /\ DOMAIN arb_events = 1 .. Len(arb_events)
    BY AppendProperties, LenProperties DEF AskedInv
  <2>2. DOMAIN Append(arb_events, v) = 1 .. Len(arb_events) + 1
    BY <2>1, LenProperties
  <2> QED
    BY <2>1, <2>2
<1>6. \A i \in DOMAIN arb_events : arb_events[i] \in Nat
  BY LenProperties, ElementOfSeq DEF AskedInv
<1>7. CASE /\ currently_scheduled = NoEvent
           /\ currently_scheduled' = NewEvent(time, time)
           /\ arb_events' = arb_events
  <2>1. DOMAIN arb_events = {}
    BY <1>7, LenProperties, EmptySeq DEF AskedInv
  <2> QED
    BY <1>1, <1>2, <1>3, <1>4, <1>7, <2>1 DEF AskedInv, ArbitrationInOrder
<1>8. CASE /\ currently_scheduled # NoEvent
           /\ currently_scheduled.original_time > time
           /\ arb_events' = Append(arb_events, currently_scheduled.original_time)
           /\ currently_scheduled' = NewEvent(time, time)
  <2> DEFINE o == currently_scheduled.original_time
  <2>1. o \in Nat /\ time <= o /\ \A i \in DOMAIN arb_events : o <= arb_events[i]
    BY <1>1, <1>8 DEF AskedInv, ArbitrationInOrder
  <2>2. \A i \in DOMAIN arb_events : time <= arb_events[i]
    BY <1>1, <1>6, <2>1
  <2> HIDE DEF o
  <2>3. arb_events' = Append(arb_events, o)
    BY <1>8 DEF o
  <2>4. /\ arb_events' \in Seq(Nat)
        /\ \A i \in DOMAIN arb_events' : time <= arb_events'[i]
    BY <1>5, <2>1, <2>2, <2>3
  <2> QED
    BY <1>1, <1>2, <1>3, <1>4, <1>8, <2>4 DEF AskedInv, ArbitrationInOrder
<1>9. CASE /\ currently_scheduled # NoEvent
           /\ currently_scheduled.original_time <= time
           /\ arb_events' = Append(arb_events, time)
           /\ currently_scheduled' = currently_scheduled
  <2>1. /\ arb_events' \in Seq(Nat)
        /\ \A i \in DOMAIN arb_events' : currently_scheduled.original_time <= arb_events'[i]
    BY <1>1, <1>5, <1>9 DEF AskedInv, ArbitrationInOrder
  <2> QED
    BY <1>2, <1>9, <2>1 DEF AskedInv, ArbitrationInOrder
<1> QED
  BY <1>2, <1>7, <1>8, <1>9

LEMMA ScheduleNextKeepsOrder ==
    ASSUME BusInv, AskedInv, ArbitrationServed, ScheduleNext, curTick' = curTick
    PROVE  AskedInv'
<1> DEFINE o == currently_scheduled.original_time
<1>1. /\ o \in Nat /\ o <= curTick /\ curTick \in Nat
      /\ \A i \in DOMAIN arb_events : o <= arb_events[i]
  BY DEF ArbitrationServed, ArbitrationDue, AskedInv, ArbitrationInOrder, BusInv, IInv, CountInv
<1>2. lastarbevent' = o
  BY DEF ScheduleNext
<1> HIDE DEF o
<1>3. CASE arb_events = <<>>
  <2>1. currently_scheduled' = NoEvent /\ UNCHANGED <<arb_events, need_to_sort>>
    BY <1>3 DEF ScheduleNext
  <2> QED
    BY <1>1, <1>2, <1>3, <2>1 DEF AskedInv, ArbitrationInOrder
<1>4. CASE arb_events # <<>>
  <2> DEFINE h == Head(Sorted)
  <2>1. /\ h \in Nat /\ Tail(Sorted) \in Seq(Nat) /\ Ascending(Tail(Sorted))
        /\ \A n \in DOMAIN Tail(Sorted) : h <= Tail(Sorted)[n]
        /\ \E i \in DOMAIN arb_events : h = arb_events[i]
    BY <1>4, SortedFacts, HeadIsEarliest
  <2>2. /\ currently_scheduled' = NewEvent(h, Latest(curTick, h))
        /\ arb_events' = Tail(Sorted) /\ need_to_sort' = FALSE
    BY <1>4 DEF ScheduleNext
  <2> HIDE DEF h
  <2>3. Latest(curTick, h) \in Nat /\ h <= Latest(curTick, h)
    BY <1>1, <2>1 DEF Latest
  <2>4. /\ currently_scheduled' # NoEvent
        /\ currently_scheduled'.original_time = h
        /\ currently_scheduled'.at = Latest(curTick, h)
    BY <2>1, <2>2, <2>3, NewEventIsOne
  <2>5. o <= h
    BY <1>1, <2>1
  <2> QED
    BY <1>1, <1>2, <2>1, <2>2, <2>3, <2>4, <2>5 DEF AskedInv, ArbitrationInOrder, Ascending
<1> QED
  BY <1>3, <1>4

LEMMA PutOffKeepsOrder ==
    ASSUME BusInv, AskedInv, PutOff
    PROVE  AskedInv'
<1> DEFINE o == currently_scheduled.original_time
           at == IF nextfree <= curTick THEN curTick ELSE nextfree
<1>1. /\ currently_scheduled # NoEvent
      /\ o \in Nat /\ o <= curTick /\ curTick \in Nat /\ nextfree \in Int
  BY DEF PutOff, ArbitrationServed, ArbitrationDue, AskedInv, ArbitrationInOrder,
         BusInv, IInv, CountInv, DramInv
<1>2. /\ lastarbevent' = o /\ curTick' = curTick
      /\ currently_scheduled' =
           [currently_scheduled EXCEPT
               !.resched = TRUE, !.at = at,
               !.loops = IF nextfree <= curTick THEN @ + 1 ELSE 0]
      /\ UNCHANGED <<arb_events, need_to_sort>>
  BY DEF PutOff, vars
<1>3. at \in Nat /\ curTick <= at
  BY <1>1
<1> HIDE DEF at
<1>4. currently_scheduled'.original_time = o /\ currently_scheduled'.at = at
  <2>1. \E a, b : \E r \in BOOLEAN, l \in {0, 1} :
            currently_scheduled = ScheduledEvent(a, b, r, l)
    BY <1>1 DEF BusInv, LoopInv
  <2> QED
    BY <1>2, <2>1 DEF ScheduledEvent, o
<1> HIDE DEF o
<1>5. \A i \in DOMAIN arb_events : o <= arb_events[i]
  BY <1>1 DEF AskedInv, ArbitrationInOrder, o
<1>6. currently_scheduled' # NoEvent
  <2>1. PICK r \in BOOLEAN, l \in {0, 1} : \E a, b :
            currently_scheduled = ScheduledEvent(a, b, r, l)
    BY <1>1 DEF BusInv, LoopInv
  <2>2. PICK a, b : currently_scheduled = ScheduledEvent(a, b, r, l)
    BY <2>1
  <2>3. a = o
    BY <2>2 DEF ScheduledEvent, o
  <2> DEFINE k == IF nextfree <= curTick THEN l + 1 ELSE 0
  <2>4. currently_scheduled' = ScheduledEvent(a, at, TRUE, k)
    BY <1>2, <2>2 DEF ScheduledEvent
  <2>5. k \in Nat
    OBVIOUS
  <2> HIDE DEF k
  <2>6. ScheduledEvent(a, at, TRUE, k) \in ArbEvent
    BY <1>1, <1>3, <2>3, <2>5 DEF ScheduledEvent, ArbEvent
  <2> QED
    BY <2>4, <2>6, BusAssumption
<1>7. o <= at
  BY <1>1, <1>3
<1>8. lastarbevent' \in Nat /\ lastarbevent' <= curTick'
  BY <1>1, <1>2
<1>9. /\ arb_events' \in Seq(Nat) /\ need_to_sort' \in BOOLEAN
      /\ ~need_to_sort' => Ascending(arb_events')
  BY <1>2 DEF AskedInv
<1>10. ArbitrationInOrder'
  <2>1. \A i \in DOMAIN arb_events' : o <= arb_events'[i]
    BY <1>2, <1>5
  <2>2. lastarbevent' <= o
    BY <1>1, <1>2
  <2> QED
    BY <1>4, <1>7, <2>1, <2>2 DEF ArbitrationInOrder
<1> QED
  BY <1>1, <1>3, <1>4, <1>6, <1>8, <1>9, <1>10 DEF AskedInv, Ascending

\* The other actions.
LEMMA TimeKeepsOrder ==
    ASSUME AskedInv, UNCHANGED <<arb_events, need_to_sort, currently_scheduled, lastarbevent>>,
           curTick \in Nat, curTick' \in Nat, curTick <= curTick'
    PROVE  AskedInv'
<1>1. lastarbevent' <= curTick'
  BY DEF AskedInv
<1> QED
  BY <1>1 DEF AskedInv, ArbitrationInOrder, Ascending

LEMMA BusInitIsInOrder == BusInit => AskedInv
<1> SUFFICES ASSUME BusInit PROVE AskedInv
  OBVIOUS
<1>1. curTick \in Nat
  BY InitEstablishes DEF BusInit, IInv, CountInv
<1> QED
  BY <1>1, ControllerAssumption DEF BusInit, AskedInv, ArbitrationInOrder

LEMMA BusNextKeepsOrder == BusInv /\ AskedInv /\ [BusNext]_busVars => AskedInv'
<1> SUFFICES ASSUME BusInv, AskedInv, [BusNext]_busVars PROVE AskedInv'
  OBVIOUS
<1>1. curTick \in Nat
  BY DEF BusInv, IInv, CountInv
<1>2. ASSUME NEW delay \in 0 .. HitLatency, RequestAddrBus(curTick + delay) PROVE AskedInv'
  BY <1>2, RequestKeepsOrder
<1>3. ASSUME PutOff PROVE AskedInv'
  BY <1>3, PutOffKeepsOrder
<1>4. ASSUME NEW cmd, NEW page, Grant(cmd, page) PROVE AskedInv'
  <2>1. ArbitrationServed /\ ScheduleNext
    BY <1>4 DEF Grant
  <2>2. curTick' = curTick
    <3>1. SendAddr(cmd, page)
      BY <1>4 DEF Grant
    <3> QED
      BY <3>1 DEF SendAddr, InsertRequest
  <2> QED
    BY <2>1, <2>2, ScheduleNextKeepsOrder
<1>5. ASSUME GrantNull PROVE AskedInv'
  BY <1>5, ScheduleNextKeepsOrder DEF GrantNull, vars
<1>6. ASSUME UNCHANGED <<arbVars, curTick>> PROVE AskedInv'
  BY <1>1, <1>6, TimeKeepsOrder DEF arbVars
<1>7. CASE Activated
  BY <1>6, <1>7 DEF Activated, GetActivate
<1>8. CASE Precharged
  BY <1>6, <1>8 DEF Precharged, GetClose, CloseForOldest, CloseBank
<1>9. CASE IssuedReady
  BY <1>6, <1>9 DEF IssuedReady, Issued, GetReady, Issue
<1>10. CASE IssuedOldest
  BY <1>6, <1>10 DEF IssuedOldest, Issued, IssueOldest, Issue
<1>11. CASE Rested
  BY <1>6, <1>11 DEF Rested, Rest
<1>12. CASE Tick
  BY <1>1, <1>12, TimeKeepsOrder DEF Tick, arbVars
<1>13. CASE UNCHANGED busVars
  BY <1>6, <1>13 DEF busVars, vars
<1> QED
  BY <1>2, <1>3, <1>4, <1>5, <1>7, <1>8, <1>9, <1>10, <1>11, <1>12, <1>13 DEF BusNext

\* Requests for the bus are granted in the order of the ticks they were made
\* for, never ahead of time, through the queue of the events that wait and its
\* sorting: what AddrArbiterEvent::process asserts first.
THEOREM GrantsInOrder == BusSpec => []ArbitrationInOrder
<1>1. BusInit => BusInv /\ AskedInv
  BY BusInitEstablishes, BusInitIsInOrder
<1>2. BusInv /\ AskedInv /\ [BusNext]_busVars => (BusInv /\ AskedInv)'
  BY BusNextPreserves, BusNextKeepsOrder
<1>3. BusInv /\ AskedInv => ArbitrationInOrder
  BY DEF AskedInv
<1> QED
  BY <1>1, <1>2, <1>3, PTL DEF BusSpec

-----------------------------------------------------------------------------
(* The types.                                                              *)

LEMMA ControllerIsTyped == IInv => TypeOK
<1> SUFFICES ASSUME IInv PROVE TypeOK
  OBVIOUS
<1>1. num_active_pages \in Nat /\ active_bank_count \in Nat
  BY OpenIsFinite DEF IInv, PageInv
<1> QED
  BY <1>1 DEF IInv, QueueInv, EventInv, PageInv, CountInv, TypeOK

CountersTyped == nextfree \in Nat /\ asked \in Nat

LEMMA CountersStayTyped ==
    BusInv /\ BusInv' /\ CountersTyped /\ [BusNext]_busVars => CountersTyped'
<1> SUFFICES ASSUME BusInv, BusInv', CountersTyped, [BusNext]_busVars PROVE CountersTyped'
  OBVIOUS
<1>1. curTick \in Nat /\ (event' = Later => curTick' < nextfree') /\ nextfree' \in Int
  BY DEF BusInv, IInv, CountInv, DramInv
<1>2. ASSUME UNCHANGED <<nextfree, asked>> PROVE CountersTyped'
  BY <1>2 DEF CountersTyped
<1>3. ASSUME nextfree' = curTick, UNCHANGED asked PROVE CountersTyped'
  BY <1>1, <1>3 DEF CountersTyped
<1>4. ASSUME event' = Later, UNCHANGED <<curTick, asked>> PROVE CountersTyped'
  <2>1. curTick < nextfree'
    BY <1>1, <1>4
  <2> QED
    BY <1>1, <1>4, <2>1 DEF CountersTyped
<1>5. ASSUME NEW time, RequestAddrBus(time) PROVE CountersTyped'
  BY <1>5 DEF RequestAddrBus, CountersTyped
<1>6. CASE PutOff
  BY <1>2, <1>6 DEF PutOff
<1>7. ASSUME ScheduleNext PROVE CountersTyped'
  BY <1>2, <1>7 DEF ScheduleNext
<1>8. CASE Activated
  BY <1>3, <1>8 DEF Activated, arbVars
<1>9. CASE Precharged
  BY <1>3, <1>9 DEF Precharged, arbVars
<1>10. CASE IssuedReady
  BY <1>4, <1>10 DEF IssuedReady, Issued, GetReady, Issue, arbVars
<1>11. CASE IssuedOldest
  BY <1>4, <1>11 DEF IssuedOldest, Issued, IssueOldest, Issue, arbVars
<1>12. CASE Rested
  BY <1>2, <1>12 DEF Rested, arbVars
<1>13. CASE Tick
  BY <1>2, <1>13 DEF Tick, arbVars
<1>14. CASE UNCHANGED busVars
  BY <1>2, <1>14 DEF busVars, arbVars
<1> QED
  BY <1>5, <1>6, <1>7, <1>8, <1>9, <1>10, <1>11, <1>12, <1>13, <1>14 DEF BusNext, Grant, GrantNull

\* Every variable of the bus, of the controller and of the banks has its type.
THEOREM BusTypeCorrect == BusSpec => []BusTypeOK
<1>1. BusInit => CountersTyped
  BY DEF BusInit, CountersTyped
<1>2. BusInv /\ AskedInv /\ CountersTyped => BusTypeOK
  <2> SUFFICES ASSUME BusInv, AskedInv, CountersTyped PROVE BusTypeOK
    OBVIOUS
  <2>1. TypeOK
    BY ControllerIsTyped DEF BusInv
  <2>2. currently_scheduled \in ArbEvent \union {NoEvent}
    <3> SUFFICES ASSUME currently_scheduled # NoEvent PROVE currently_scheduled \in ArbEvent
      OBVIOUS
    <3>1. PICK r \in BOOLEAN, l \in {0, 1} : \E a, b :
              currently_scheduled = ScheduledEvent(a, b, r, l)
      BY DEF BusInv, LoopInv
    <3>2. PICK a, b : currently_scheduled = ScheduledEvent(a, b, r, l)
      BY <3>1
    <3>3. a \in Nat /\ b \in Nat
      BY <3>2 DEF AskedInv, ScheduledEvent
    <3> QED
      BY <3>2, <3>3 DEF ScheduledEvent, ArbEvent
  <2> QED
    BY <2>1, <2>2 DEF BusTypeOK, BusInv, DramInv, AskedInv, CountersTyped
<1>3. BusInit => BusInv /\ AskedInv
  BY BusInitEstablishes, BusInitIsInOrder
<1>4. BusInv /\ AskedInv /\ CountersTyped /\ [BusNext]_busVars => (BusInv /\ AskedInv /\ CountersTyped)'
  <2>1. BusInv /\ AskedInv /\ [BusNext]_busVars => BusInv' /\ AskedInv'
    BY BusNextPreserves, BusNextKeepsOrder
  <2> QED
    BY <2>1, CountersStayTyped
<1> QED
  BY <1>1, <1>2, <1>3, <1>4, PTL DEF BusSpec

=============================================================================
