------------------------------ MODULE MissQueue ------------------------------
(***************************************************************************)
(* The miss handling of a non-blocking cache: class MissQueue with its two *)
(* MSHRQueues, mq for misses and wb for writes on their way to memory, and *)
(* the flags by which they stop the cache (BaseCache::blocked) and make it *)
(* ask for the bus (BaseCache::masterRequests).                            *)
(*                                                                         *)
(* An action is one call of the cache: an access that misses, a grant of   *)
(* the bus (getMemReq, setBusCmd, sendResult), a response, a squash by the *)
(* fetch stage, a new number of MSHRs from a policy.  All run on the one   *)
(* thread of the event queue.  The tags are external: which accesses miss, *)
(* what a fill satisfies and whether it evicts a dirty block.  There is no *)
(* hardware prefetcher (the default).  Which of the two queues is granted  *)
(* depends on ready times, left open; in each queue the first goes first.  *)
(***************************************************************************)
EXTENDS Integers, FiniteSets, SequencesExt

CONSTANTS
    Blocks,        \* block addresses
    Threads,       \* hardware threads of the processor
    Mshrs,         \* the registers of mq
    MaxMSHRs,      \* the configured number of MSHRs
    NumTargets,    \* numTarget: the accesses one MSHR can hold
    WriteBuffers,  \* the configured number of write buffers
    WbSpare,       \* numReserve of wb: its registers beyond the write buffers
    Uncached,      \* uncacheable commands in use, a subset of {Read, Write}
    Fetches,       \* is this the instruction cache of a speculating processor?
    Coherent,      \* may a fill grant read permission only?
    Limits,        \* the numbers of MSHRs a policy sets
    Read, Write, Writeback,               \* commands
    NoMSHRs, NoTargets, NoWBBuffers,      \* BlockedCause
    RequestMSHR, RequestWB,               \* RequestCause
    Free, NoMshr, NoBlock, Mixed          \* no MSHR state, pointer, block, thread

ASSUME MissQueueAssumption ==
    /\ IsFiniteSet(Mshrs)
    /\ MaxMSHRs \in Nat \ {0} /\ Cardinality(Mshrs) >= MaxMSHRs
    /\ NumTargets \in Nat \ {0, 1}
    /\ WriteBuffers \in Nat \ {0}
    /\ WbSpare \in Nat \ {0}
    /\ Uncached \subseteq {Read, Write}
    /\ Fetches \in BOOLEAN /\ Coherent \in BOOLEAN
    /\ Limits \subseteq 1 .. MaxMSHRs
    /\ NoMshr \notin Mshrs /\ NoBlock \notin Blocks /\ Mixed \notin Threads
    /\ Read # Write /\ Writeback \notin {Read, Write}
    /\ NoMSHRs # NoTargets /\ NoWBBuffers \notin {NoMSHRs, NoTargets}
    /\ RequestMSHR # RequestWB

VARIABLES
    mshr,         \* the state of each register of mq, Free on its freeList
    pending,      \* pendingList of mq
    limit,        \* the number of MSHRs in use: mq.numMSHRs - numReserve + 1
    noTarget,     \* noTargetMSHR
    wbPending,    \* pendingList of wb: the commands, Writeback or Write
    wbInService,  \* wb.inServiceMSHRs: uncacheable writes not answered yet
    blocked,      \* BaseCache::blocked
    requests      \* BaseCache::masterRequests

vars == <<mshr, pending, limit, noTarget, wbPending, wbInService, blocked, requests>>

\* live: the thread has not squashed the access since it made it.
Target == [cmd : {Read, Write}, thread : Threads, live : BOOLEAN]

\* block is NoBlock for an uncacheable access, cmd the command it is sent with.
MSHR == [block : Blocks \cup {NoBlock}, cmd : {Read, Write}, inService : BOOLEAN,
         thread : Threads \cup {Mixed}, targets : Seq(Target)]

ASSUME FreeAssumption == Free \notin MSHR

TypeOK ==
    /\ mshr \in [Mshrs -> MSHR \cup {Free}]
    /\ pending \in Seq(Mshrs)
    /\ limit \in 1 .. MaxMSHRs
    /\ noTarget \in Mshrs \cup {NoMshr}
    /\ wbPending \in Seq({Writeback, Write})
    /\ wbInService \in Nat
    /\ blocked \subseteq {NoMSHRs, NoTargets, NoWBBuffers}
    /\ requests \subseteq {RequestMSHR, RequestWB}

Init ==
    /\ mshr = [m \in Mshrs |-> Free]
    /\ pending = <<>>
    /\ limit = MaxMSHRs
    /\ noTarget = NoMshr
    /\ wbPending = <<>>
    /\ wbInService = 0
    /\ blocked = {}
    /\ requests = {}

-----------------------------------------------------------------------------
(* The two queues.                                                         *)

Allocated(s) == {m \in Mshrs : s[m] # Free}

\* MSHRQueue::isFull of mq, and of wb with n entries.
IsFull(s, lim) == Cardinality(Allocated(s)) > lim - 1
WbAllocated == Len(wbPending) + wbInService
WbIsFull(n) == n > WriteBuffers - 1

\* An MSHR of block b (MSHRQueue::findMatch).
Holds(m, b) == mshr[m] # Free /\ mshr[m].block = b

\* The asserts of setBlocked and clearBlocked: the flag was clear, was set.
\* BlockedForCause says that neither fails.
Flag(cause, on) == IF on THEN {cause} ELSE {}

\* MissQueue::allocateMiss, of a cacheable miss or of an uncacheable read.
AllocateMiss(b, tgt) ==
    \E m \in Mshrs :
        /\ mshr[m] = Free
        /\ mshr' = [mshr EXCEPT ![m] = [block |-> b, cmd |-> tgt.cmd, inService |-> FALSE,
                                        thread |-> tgt.thread, targets |-> <<tgt>>]]
        /\ pending' = Append(pending, m)
        /\ blocked' = blocked \cup Flag(NoMSHRs, IsFull(mshr', limit))
        /\ requests' = requests \cup {RequestMSHR}
        /\ UNCHANGED <<limit, noTarget, wbPending, wbInService>>

\* Mutant of AllocateTarget: the MSHR stays the first thread's own.
AllocateTargetUnmixed(m, tgt) ==
    /\ mshr' = [mshr EXCEPT
                  ![m].targets = Append(@, tgt),
                  ![m].cmd     = IF ~mshr[m].inService /\ tgt.cmd = Write THEN Write ELSE @]
    /\ IF Len(mshr'[m].targets) = NumTargets
       THEN noTarget' = m /\ blocked' = blocked \cup {NoTargets}
       ELSE UNCHANGED <<noTarget, blocked>>
    /\ UNCHANGED <<pending, limit, wbPending, wbInService, requests>>

\* A hit in mq: the access becomes one more target of the MSHR.
AllocateTarget(m, tgt) ==
    /\ mshr' = [mshr EXCEPT
                  ![m].targets = Append(@, tgt),
                  ![m].thread  = IF @ = tgt.thread THEN @ ELSE Mixed,
                  ![m].cmd     = IF ~mshr[m].inService /\ tgt.cmd = Write THEN Write ELSE @]
    /\ IF Len(mshr'[m].targets) = NumTargets
       THEN noTarget' = m /\ blocked' = blocked \cup {NoTargets}
       ELSE UNCHANGED <<noTarget, blocked>>
    /\ UNCHANGED <<pending, limit, wbPending, wbInService, requests>>

-----------------------------------------------------------------------------
(* Accesses.  Neither the processor nor the interconnect accesses a        *)
(* blocked cache.                                                          *)

\* A thread of the fetch stage waits for one instruction block at a time.
MayAccess(t) ==
    /\ blocked = {}
    /\ Fetches =>
        \A m \in Allocated(mshr) : \A i \in 1 .. Len(mshr[m].targets) :
            ~(mshr[m].targets[i].thread = t /\ mshr[m].targets[i].live)

\* Mutant of Miss: an MSHR already sent is not matched.
MissUnsentOnly(t, b, c) ==
    LET tgt       == [cmd |-> c, thread |-> t, live |-> TRUE]
        match(m)  == Holds(m, b) /\ ~mshr[m].inService
    IN
    /\ MayAccess(t)
    /\ Fetches => c = Read
    /\ IF \E m \in Mshrs : match(m)
       THEN \E m \in Mshrs : match(m) /\ AllocateTarget(m, tgt)
       ELSE AllocateMiss(b, tgt)

\* handleMiss of a cacheable access: one MSHR per block.
Miss(t, b, c) ==
    LET tgt == [cmd |-> c, thread |-> t, live |-> TRUE]
    IN
    /\ MayAccess(t)
    /\ Fetches => c = Read
    /\ IF \E m \in Mshrs : Holds(m, b)
       THEN \E m \in Mshrs : Holds(m, b) /\ AllocateTarget(m, tgt)
       ELSE AllocateMiss(b, tgt)

\* handleMiss of an uncacheable read.
UncachedRead(t) ==
    /\ Read \in Uncached
    /\ MayAccess(t)
    /\ AllocateMiss(NoBlock, [cmd |-> Read, thread |-> t, live |-> TRUE])

\* MissQueue::allocateWrite.  The cache may be blocked already.
BlockedByWrite == blocked \cup Flag(NoWBBuffers, WbIsFull(WbAllocated + 1))

\* Mutant of WriteOut: it does not block the cache.
WriteOutUnblocked(c) ==
    /\ blocked = {} /\ ~Fetches
    /\ c = Write => Write \in Uncached
    /\ wbPending' = Append(wbPending, c)
    /\ requests' = requests \cup {RequestWB}
    /\ UNCHANGED <<mshr, pending, limit, noTarget, wbInService, blocked>>

\* handleMiss of an uncacheable write or of a writeback from the cache above,
\* and access() of a whole-block write that evicts a dirty block.
WriteOut(c) ==
    /\ blocked = {} /\ ~Fetches
    /\ c = Write => Write \in Uncached
    /\ wbPending' = Append(wbPending, c)
    /\ blocked' = BlockedByWrite
    /\ requests' = requests \cup {RequestWB}
    /\ UNCHANGED <<mshr, pending, limit, noTarget, wbInService>>

-----------------------------------------------------------------------------
(* The bus grants the cache.  markInService of an MSHR of mq never frees   *)
(* it, so it unblocks nothing.                                             *)

IssueMiss ==
    /\ requests # {}
    /\ pending # <<>>
    /\ mshr' = [mshr EXCEPT ![Head(pending)].inService = TRUE]
    /\ pending' = Tail(pending)
    /\ requests' = requests \ Flag(RequestMSHR, pending' = <<>>)
    /\ UNCHANGED <<limit, noTarget, wbPending, wbInService, blocked>>

\* Mutant of IssueWrite: wb never unblocks.
IssueWriteStaysBlocked ==
    /\ requests # {}
    /\ wbPending # <<>>
    /\ wbPending' = Tail(wbPending)
    /\ wbInService' = IF Head(wbPending) = Write THEN wbInService + 1 ELSE wbInService
    /\ requests' = requests \ Flag(RequestWB, wbPending' = <<>>)
    /\ UNCHANGED <<mshr, pending, limit, noTarget, blocked>>

\* A writeback gets no response: its register is free once it is sent.
IssueWrite ==
    /\ requests # {}
    /\ wbPending # <<>>
    /\ wbPending' = Tail(wbPending)
    /\ wbInService' = IF Head(wbPending) = Write THEN wbInService + 1 ELSE wbInService
    /\ requests' = requests \ Flag(RequestWB, wbPending' = <<>>)
    /\ blocked' = blocked \ Flag(NoWBBuffers, WbIsFull(WbAllocated) /\ ~WbIsFull(WbAllocated'))
    /\ UNCHANGED <<mshr, pending, limit, noTarget>>

-----------------------------------------------------------------------------
(* Responses, in any order.                                                *)

\* How many targets a fill may satisfy (CacheTags::handleFill): all, or with
\* read permission only, those before the first write.
Satisfied(e) ==
    LET n == Len(e.targets)
    IN {n} \cup (IF Coherent /\ e.cmd = Read
                 THEN {k \in 0 .. n - 1 : /\ e.targets[k + 1].cmd = Write
                                          /\ \A i \in 1 .. k : e.targets[i].cmd = Read}
                 ELSE {})

\* Mutants of Resent: still in service; with the command it had.
ResentInService(e, left) == [e EXCEPT !.targets = left, !.cmd = left[1].cmd]
ResentAsBefore(e, left) == [e EXCEPT !.targets = left, !.inService = FALSE]

\* MSHRQueue::markPending of an MSHR with targets left.
Resent(e, left) == [e EXCEPT !.targets = left, !.cmd = left[1].cmd, !.inService = FALSE]

\* Mutant of Unblocks: of two causes to unblock only the first is cleared.
UnblocksOne(m, s) ==
    IF m = noTarget THEN {NoTargets}
    ELSE Flag(NoMSHRs, IsFull(mshr, limit) /\ ~IsFull(s, limit))

\* The causes that the response to MSHR m clears when it leaves mq in state s.
Unblocks(m, s) ==
    Flag(NoTargets, m = noTarget) \cup Flag(NoMSHRs, IsFull(mshr, limit) /\ ~IsFull(s, limit))

\* Cache::handleResponse of a fill: the tags satisfy k targets and may evict a
\* dirty block; MissQueue::handleResponse sends the MSHR again if it has targets
\* left and frees it if not.
Fill(m, k, evicts) ==
    LET left == SubSeq(mshr[m].targets, k + 1, Len(mshr[m].targets))
    IN
    /\ mshr[m] # Free /\ mshr[m].inService /\ mshr[m].block # NoBlock
    /\ k \in Satisfied(mshr[m])
    /\ evicts => ~Fetches
    /\ mshr' = [mshr EXCEPT ![m] =
                  IF left = <<>> THEN Free ELSE Resent(@, left)]
    /\ pending' = IF left = <<>> THEN pending ELSE Append(pending, m)
    /\ noTarget' = IF m = noTarget THEN NoMshr ELSE noTarget
    /\ wbPending' = IF evicts THEN Append(wbPending, Writeback) ELSE wbPending
    /\ requests' = requests \cup Flag(RequestWB, evicts) \cup Flag(RequestMSHR, left # <<>>)
    /\ blocked' = (IF evicts THEN BlockedByWrite ELSE blocked) \ Unblocks(m, mshr')
    /\ UNCHANGED <<limit, wbInService>>

\* The response to an uncacheable read.
UncachedReadDone(m) ==
    /\ mshr[m] # Free /\ mshr[m].inService /\ mshr[m].block = NoBlock
    /\ mshr' = [mshr EXCEPT ![m] = Free]
    /\ blocked' = blocked \ Unblocks(m, mshr')
    /\ UNCHANGED <<pending, limit, noTarget, wbPending, wbInService, requests>>

\* The response to an uncacheable write.
UncachedWriteDone ==
    /\ wbInService > 0
    /\ wbInService' = wbInService - 1
    /\ blocked' = blocked \ Flag(NoWBBuffers, WbIsFull(WbAllocated) /\ ~WbIsFull(WbAllocated - 1))
    /\ UNCHANGED <<mshr, pending, limit, noTarget, wbPending, requests>>

-----------------------------------------------------------------------------
(* The fetch stage and the policies.                                       *)

\* The pending list without the MSHRs in S, the others in the order they had.
Unlisted(S) ==
    {q \in SeqOf(Mshrs, Len(pending)) :
        /\ Range(q) = Range(pending) \ S
        /\ \A i, j \in DOMAIN q : i < j =>
              \E k, l \in DOMAIN pending : k < l /\ pending[k] = q[i] /\ pending[l] = q[j]}

\* Mutant of SquashUnblocks: squash never unblocks.
SquashUnblocksNothing(hadNoTarget, s) == {}

\* The cause that squash clears when it leaves mq in state s.
SquashUnblocks(hadNoTarget, s) ==
    IF IsFull(mshr, limit) /\ hadNoTarget
    THEN {NoTargets}
    ELSE Flag(NoMSHRs, IsFull(mshr, limit) /\ ~IsFull(s, limit))

\* MissQueue::squash: the MSHRs of thread t lose their targets, those not sent
\* yet are freed.  MSHRs shared with another thread are left alone.
Squash(t) ==
    LET squashed == {m \in Allocated(mshr) : mshr[m].thread = t}
        stale(s) == [i \in DOMAIN s |-> IF s[i].thread = t THEN [s[i] EXCEPT !.live = FALSE]
                                           ELSE s[i]]
    IN
    /\ Fetches
    /\ mshr' = [m \in Mshrs |->
                  CASE m \in squashed /\ mshr[m].inService  -> [mshr[m] EXCEPT !.targets = <<>>]
                    [] m \in squashed /\ ~mshr[m].inService -> Free
                    [] m \in Allocated(mshr) \ squashed ->
                          [mshr[m] EXCEPT !.targets = stale(@)]
                    [] OTHER -> Free]
    /\ pending' \in Unlisted(squashed)
    /\ noTarget' = IF noTarget \in squashed THEN NoMshr ELSE noTarget
    /\ requests' = requests \ Flag(RequestMSHR, pending' = <<>>)
    /\ blocked' = blocked \ SquashUnblocks(noTarget \in squashed, mshr')
    /\ UNCHANGED <<limit, wbPending, wbInService>>

\* MissQueue::setNumMSHRs, called by the miss bandwidth policies.
SetNumMSHRs(n) ==
    /\ limit' = n
    /\ blocked' = IF IsFull(mshr, n) THEN blocked \cup {NoMSHRs} ELSE blocked \ {NoMSHRs}
    /\ UNCHANGED <<mshr, pending, noTarget, wbPending, wbInService, requests>>

-----------------------------------------------------------------------------
Next ==
    \/ \E t \in Threads :
          \/ \E b \in Blocks, c \in {Read, Write} : Miss(t, b, c)
          \/ UncachedRead(t)
          \/ Squash(t)
    \/ \E c \in {Write, Writeback} : WriteOut(c)
    \/ IssueMiss \/ IssueWrite
    \/ \E m \in Mshrs, k \in 0 .. NumTargets, evicts \in BOOLEAN : Fill(m, k, evicts)
    \/ \E m \in Mshrs : UncachedReadDone(m)
    \/ UncachedWriteDone
    \/ \E n \in Limits : SetNumMSHRs(n)

\* The bus grants a cache that asks, each queue's first request becomes the
\* oldest in time, and whatever is sent is answered.
Fairness ==
    /\ WF_vars(IssueMiss) /\ WF_vars(IssueWrite) /\ WF_vars(UncachedWriteDone)
    /\ \A m \in Mshrs :
          /\ WF_vars(\E k \in 0 .. NumTargets, evicts \in BOOLEAN : Fill(m, k, evicts))
          /\ WF_vars(UncachedReadDone(m))

Spec == Init /\ [][Next]_vars
FairSpec == Spec /\ Fairness

-----------------------------------------------------------------------------
(* Properties.                                                             *)

\* The cache is blocked for exactly the reasons that hold: mq is full, an MSHR is
\* out of targets, wb is full.  A flag too many is a cache that never wakes up, a
\* flag too few an access that finds no room; setBlocked and clearBlocked assert it.
BlockedForCause ==
    /\ NoMSHRs \in blocked <=> IsFull(mshr, limit)
    /\ NoTargets \in blocked <=> noTarget # NoMshr
    /\ NoWBBuffers \in blocked <=> WbIsFull(WbAllocated)

\* The pending list holds exactly the MSHRs still to be sent, once each, and none
\* without a target: nothing is sent twice, nothing is forgotten.
PendingIsUnsent ==
    /\ \A m \in Mshrs :
          (\E i \in 1 .. Len(pending) : pending[i] = m) <=> mshr[m] # Free /\ ~mshr[m].inService
    /\ \A i, j \in 1 .. Len(pending) : pending[i] = pending[j] => i = j
    /\ \A i \in 1 .. Len(pending) : mshr[pending[i]].targets # <<>>

\* noTargetMSHR is the one MSHR with no room for a target; it never points to
\* an MSHR that was freed or refilled since.
NoTargetIsFull ==
    \A m \in Mshrs :
        m = noTarget <=> mshr[m] # Free /\ Len(mshr[m].targets) >= NumTargets

\* Two misses are never outstanding for one block.
OneMissPerBlock ==
    \A m, n \in Mshrs : \A b \in Blocks : Holds(m, b) /\ Holds(n, b) => m = n

\* An MSHR marked as a thread's own holds no other thread's access: squash()
\* drops nobody else's request (the assert in MSHRQueue::squash).
SquashOnlyOwn ==
    \A m \in Allocated(mshr) : \A i \in 1 .. Len(mshr[m].targets) :
        mshr[m].thread \in {Mixed, mshr[m].targets[i].thread}

\* The cache asks for the bus for a queue exactly while that queue has something
\* to send ("assert(!doMasterRequest() || missQueue->havePending())").
AsksForBus ==
    /\ RequestMSHR \in requests <=> pending # <<>>
    /\ RequestWB \in requests <=> wbPending # <<>>

\* Fills write back while the cache is blocked, yet wb never runs out of registers.
WritebacksFit == WbAllocated <= WriteBuffers + WbSpare - 1

\* "CACHE DEADLOCK!": a blocked cache is not blocked for ever.
WakesUp == blocked # {} ~> blocked = {}

\* Every miss is answered in the end, and its MSHR freed.
MissAnswered == \A b \in Blocks : (\E m \in Mshrs : Holds(m, b)) ~> ~\E m \in Mshrs : Holds(m, b)
=============================================================================
