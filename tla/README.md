# TLA+ models of the M5/MM5 chip-multiprocessor simulator

The repository is MM5, a fork of the M5 simulator for chip multiprocessors: a
discrete-event kernel (`src/m5/sim`), processor models (`cpu`, `encumbered`), and
a memory system (`mem`): private caches with miss handling registers, a crossbar,
a banked shared cache, a memory bus with DRAM controllers, coherence protocols
and the policies that throttle misses. The numbers a simulator prints are only as
good as its queues: a request lost, answered twice or overtaken, or a cache that
stays blocked, gives a wrong result or a run that never ends. The models are about
these queues.

## 1. Inventory

Paths are under `src/m5`. A component that is modelled names its module.

| Component | State | Operations | Interacts by |
|---|---|---|---|
| Event queue (`sim/eventq.{hh,cc}`, `sim/main.cc`): EventQueue | the sorted list, each event's `_when`, `_priority`, flags; `curTick` | schedule, deschedule, reschedule, squash, serviceOne, asynchronous events | virtual `process()` of events, which call it again |
| Checkpoint (`sim/serialize.cc`): EventQueue, partly | what is written of each event | serialize, restart, unserialize | the event queue |
| Miss queue (`mem/cache/miss/miss_queue.cc`, `mshr_queue.*`, `mshr.*`, `mem/cache/base_cache.*`): MissQueue | MSHRs with targets, their pending list, write buffers, `noTargetMSHR`, blocked flags, bus request flags | handleMiss, doWriteback, getMemReq, markInService, handleResponse, squash, setNumMSHRs | called by the cache; blocks the processor or crossbar side; asks for the bus |
| Crossbar (`mem/interconnect/crossbar.*`, `address_dependent_ic.*`, `interconnect_master_impl.hh`, `interconnect_slave_impl.hh`): Crossbar | per-processor and per-bank queues, pipelines, delivery buffers, blocked flags, postponed retrievals, the arbitration event | request, retrieve, send, arbitrate, deliver, setBlocked, clearBlocked | events; pulls requests from caches; accesses banks |
| Memory bus (`mem/bus/bus.cc`): MemoryBus | arbitration events waiting and scheduled, when the bus is free | requestAddrBus, arbitrate, postpone, sendAddr, latencyCalculated | events; asks caches for their request; feeds the controller, which blocks it |
| Memory controllers (`mem/bus/controller`): MemoryController, the row-hit-first one | read and write queue, its own record of the open pages, starvation counter, blocked flag | insertRequest, getRequest, setBlocked, setUnBlocked | sends the DRAM one command per event; blocks the bus |
| Traffic generator (`mem/bus/controller/traffic_generator.*`): MemoryController | requests to send | send, requestCompleted | inserts into the controller past the bus's arbitration |
| DRAM banks (`mem/timing/simple_mem_bank_impl.hh`): DramBank | bank state, open row, activate, ready and close times | activate, read, write, close | called by the bus for the controller |
| Ring (`mem/interconnect/ring.cc`): Ring | queues of processors and banks, reserved links, delivery buffers, the arbitration event | request, send, arbitrate, deliver, setBlocked, clearBlocked | as the crossbar, which it replaces |
| Point to point link (`mem/interconnect/peer_to_peer_link.*`): PeerToPeerLink | request and response queue, delivery buffer, blocked flags, the arbitration event and when it may be next | send, arbitrate, deliver, clearBlocked | as the crossbar, between a processor's first level caches and its private second level cache |
| Private cache below the link (`mem/cache/cache_impl.hh`, `interconnect_slave_impl.hh`, `interconnect_interface.cc`): PrivateCache | the miss queue's, reads answered | access, handleResponse, setBlocked, clearBlocked | the link accesses it; it calls the link when it blocks and unblocks, also within its own handlers |
| Other interconnects (`butterfly.cc`, `split_trans_bus.cc`, `ideal_interconnect.cc`) | queues | as the crossbar | not modelled: legacy |
| Blocking buffer (`mem/cache/miss/blocking_buffer.cc`) | one miss, one writeback | as the miss queue | not modelled: the cache builder no longer builds it (`cache_builder.cc:613` is commented out) |
| Snooping coherence (`mem/cache/coherence/simple_coherence.hh`, `coherence_protocol.cc`) | block states of the caches on a bus | bus commands, state transitions, invalidates | not modelled: nothing calls it any more (section 6) |
| Directory coherence (`coherence/directory.cc`, `stenstrom.cc`) | owner and presence flags, outstanding requests, NACKs | messages through the interconnect | not modelled; the configurations run with `PROTOCOL=none` |
| Tags, partitioning (`mem/cache/tags`, `partitioning`) | LRU stacks, way limits | access, replace | not modelled: an environment of the miss queue |
| Throttling (`mem/cache/miss/throttle_control.cc`), adaptive MHA | next issue time | useThrottle, set caps | not modelled |
| Policies, accounting (`mem/policy`, `mem/accounting`) | measured statistics | numeric optimisation | act on the caches only by `setNumMSHRs` and throttles: `SetNumMSHRs` of MissQueue |
| Simple processor (`cpu/simple`) | one outstanding access | tick, completion | not modelled: a client of the event queue |
| Out-of-order processor (`encumbered/cpu/full`) | pipeline | | only its fetch stage's contract with the cache, in MissQueue |
| Sampler, devices, kernel, ISA, functional memory, base library, Python configuration, scripts, vendored code | | | not modelled: I/O, generated, statistics or third-party |

Everything runs on one thread, driven by the event queue. The hard part is not
preemption but the order of events: which handler runs next, what it calls back into, and
what has changed between the tick an event was scheduled and the tick it fires.

What makes each component correct:

* Event queue: served in order of time and priority; the flags agree with the
  list; time never goes back; nothing freed is linked; a restored event is what it was.
* Miss queue: the cache is blocked exactly for the reasons that hold; nothing is sent
  twice or forgotten; one outstanding miss per block; a squash drops only its
  own thread's accesses; a blocked cache wakes up and every miss is answered.
* Crossbar: an ordered lossless channel from each processor to each bank; buffers
  of fixed size suffice; a full queue and a blocked bank are always resumed; no
  processor starves.
* Memory controller and banks: what the controller believes of the banks is what the DRAM
  has open; the queues hold what they were built for; a blocked controller unblocks; row hits
  pass the oldest request no oftener than the threshold allows; an open bank is ready when a command is chosen.
* Memory bus: granted in the order it was asked for; an arbitration that finds the controller
  blocked does not spin in its tick.
* Point to point link: as the crossbar; one request at most is under way to a cache that blocks; an
  arbitration that is not scheduled because the cache is blocked is made up for when it unblocks.
* Link and cache together: the link knows at any time whether the cache is blocked, and no read is lost
  or answered twice, although unblocking calls back into the cache.
* Ring: no two transfers on a link at once; the same channels as the crossbar; no starvation
  although arbitration stops at the first queue it cannot serve.

The hazards (list with lines in `PROJECT.json`) follow from that: stale flags read after
a callback, two causes of blocking cleared in different branches, counters decremented
on one of two paths, events that find nothing to do, a queue that empties while
its source is still marked blocked.

## 2. Plan

Done, in this order: EventQueue with EventPool and its proofs; MissQueue and its proofs;
Crossbar with Channels and its proofs; MemoryController and its proofs, DramBank and MemoryBus, which
composes the two with real ticks, and its proofs; Ring, against the same Channels, and its proofs; PeerToPeerLink, against
Channels too, and its proofs; PrivateCache, which composes it with MissQueue, and its proofs; Selection, the operators the
properties count with, and what the proofs need to know of them.

Left, most important first:

1. The same composition for the shared banks: Crossbar or Ring with a bank's MissQueue, whose liveness they assume.
2. Proofs: every safety property that a run checks is proved, the refinements included; to prove next is what that
   composition assumes of the banks.
3. LRU and partitioning as algorithms checked against reference definitions.
4. The other memory controllers, the bus with simulated contention, throttling.
5. Clients of the event queue: simple processor, sampler.

## 3. Modules

### EventQueue (abstract: EventPool)

| Model | Code |
|---|---|
| `queue` | the list from `EventQueue::head` along `Event::next` |
| `when`, `prio`, `scheduled`, `squashed` | `_when`, `_priority`, flags `Scheduled` and `Squashed` |
| `alive` | event objects allocated (`AutoDelete`, or `delete this` in `process`) |
| `ctx` | whose code runs: constructors, main loop, its signal handling, an event's `process` |
| `Schedule`, `NewEvent`, `Deschedule`, `Reschedule`, `Squash`, `SetPriority` | the calls a `process()` makes |
| `Link`, `Unlink` | `EventQueue::insert`, `remove` |
| `Dispatch`, `Return` | `serviceOne` before and after `process()` |
| `AsyncEvent`, `NextRound`, `NoEvents`, `EnterLoop` | the loop of `main()` |
| `Serialize`, `Restart`, `Unserialize` | `SerializeEvent`, a new process with a checkpoint, `Event::unserialize` |

A `process()` is any sequence of calls: what a handler may do is not
restricted to what today's handlers do, beyond the asserts it must respect.
Two guards are contracts of the callers rather than code of the queue, and both are checked against
the call sites: `reschedule` is called with `curTick` plus a delay (there is no assert),
and `squash` on pending events.

EventPool is what the users of the queue rely on: a set of pending events with a tick and a
priority, of which one at a time is run, always one that none precedes, at the time it is due; a
squashed one is passed over in its turn. `PoolSpec` is that EventQueue with the main loop implements it
under `due <- pending, off <- squashed, now <- curTick, actor <- running` (whose code runs, with
the loop's own states merged).

### MissQueue

`mshr[m]` is one register of `mq`: block, command, in service or not, the thread it belongs to (or
`Mixed`), and its targets. `pending` is mq's pending list, `wbPending` and `wbInService` the
write buffers, `noTarget` is `noTargetMSHR`, `blocked` and `requests` are
`BaseCache::blocked` and `masterRequests`.

`Miss`, `UncachedRead` and `WriteOut` are `handleMiss` and the writes of `access`;
`IssueMiss` and `IssueWrite` are one grant: `getMemReq`, `setBusCmd`, `sendResult` and
`markInService`; `Fill`, `UncachedReadDone` and `UncachedWriteDone` are `Cache::handleResponse`
with `MissQueue::handleResponse`, including a partial fill that satisfies targets up to
the first write, the writeback of the evicted block, and the clearing of both
blocking causes; `Squash` is `MissQueue::squash`; `SetNumMSHRs` a policy's call.
The tags are external: any access may miss, any fill may evict a dirty block. Which of
`mq` and `wb` a grant serves depends on ready times and is left open.

### Crossbar (abstract: Channels)

`events[i]` counts the retrieve events scheduled for a cache, `notRetrieved[i]` those put off
because the processor's queue was full. `requests`, `responses` are the crossbar's queues,
`pipe`, `back` the transfers under way, `inProgress` is `requestsInProgress`, `buffer` is
`slaveDeliveryBuffer`. `age` stands for `inserted_into_crossbar`: only
the order of the insertion ticks matters, so the ages are ranks, and `Tick` moves the
entries of the current tick one rank down. `Arbitrate` is the whole handler:
service order, grants to banks and to processors, unblocking of local queues with
`retrieveAdditionalRequests`, rescheduling of the event. `BankUnblocks` is `clearBlocked`
with its loop, which the bank may interrupt by blocking again.

Channels promises the ends of the crossbar a FIFO channel per processor and bank, and one
answer per read. `ChannelSpec` is that Crossbar implements it, reading a channel as
delivery buffer, pipeline and local queue in a row.

### MemoryController

| Model | Code |
|---|---|
| `readQueue`, `writeQueue`, `isBlockedFlag` | the same members of `RDFCFSTimingMemoryController` and `TimingMemoryController` |
| `activePages`, `activatedAt`, `num_active_pages` | the controller's own record of the pages it opened |
| `openpage`, `active_bank_count` | the DRAM's (`SimpleMemBank`) |
| `numReqsPastOldest`, `highPriCPUID` | the starvation counter; the processor a policy gives priority |
| `event` | `memoryControllerEvent`: not scheduled, for this tick, for a later one |
| `due`, `generated` | what `TrafficGenerator` sends in this tick; whether its request is on the bus |
| `SendAddr`, `SendGeneratedRequest` | `Bus::sendAddr`, `Bus::sendGeneratedRequest` with `insertRequest` |
| `GetActivate`, `GetClose`, `GetReady`, `IssueOldest`, `CloseForOldest`, `Rest` | `Bus::handleMemoryController` with the branch of `getRequest` that finds a command, and what the DRAM does with it |
| `SetASRHighPriCPUID` | the policy's call |
| `NextTick` | the queue of events moves on |

`CloseForOldest` has no guard for the assertion before `closePageForRequest`: `ClosedNeverForced` says when it fails. It ends the
simulation in `m5.debug` and `m5.opt`; in `m5.fast`, which is built with `NDEBUG` (`src/m5/SConscript:537`), the page is closed and the
controller goes on. What the runs and theorems say of a configuration after the assertion has failed is about `m5.fast`.

The parameters of the constructor are in `config`, so that one run covers several
configurations. A tick is a rank among the ticks still compared (insertions and activations), which
keeps the state space finite without a bound on time. `passed` is a history variable: how many
requests have been issued since the oldest one was. It is apart from `numReqsPastOldest`, which
the code resets in more places. The page of a request stands for its address, the bank for `page % num_banks`.

### DramBank and MemoryBus

DramBank is `SimpleMemBank::calculateLatency` as functions from a bank's state and a
tick to its next state and the latency; the row-to-row delay is what the code computes, which looks at one bank
only. MemoryBus extends MemoryController and DramBank: its actions are the controller's, with
the time the bank computes (`Activated`, `Precharged`, `IssuedReady`, `IssuedOldest`, `Rested`),
and those of the arbitration: `RequestAddrBus`, `PutOff`, `Grant` and `GrantNull` (`AddrArbiterEvent::process`
with `arbitrateAddrBus`). `arb_events`, `currently_scheduled` and `need_to_sort` are the members of Bus.
Two events of one tick are ordered by priority as EventQueue
orders them: arbitration first, but after the controller once it has put itself off (`resched`).
MemoryBus answers what MemoryController takes for granted, that an open bank is ready (`isReady(s) == isActive(s)`).

### Ring (abstract: Channels)

`findMasterPath` and `findSlavePath` are the operators `Link` and `LinkBack`. `ringLinkOccupied` is the set
of reservations, each a ring, link, direction and tick (relative to now); `transfers` and
`answers` are the scheduled deliver events. An arbitration's loop over the queues,
oldest head first, is a sequence of steps (`phase`, `tried`: the queues this arbitration has served),
between which no other event is served. The `age` of a queue entry is a rank, as in Crossbar, and `gone` the time since a transfer was granted, in units of `arbitrationDelay`. How requests are retrieved from the caches is in Crossbar, of the class both derive from.

### PeerToPeerLink (abstract: Channels)

| Model | Code |
|---|---|
| `wants`, `events`, `notRetrieved` | what a cache above has to send, the retrieve events scheduled for it, `notRetrievedRequests` |
| `p2pRequestQueue`, `p2pResponseQueue`, `deliveryBuffer`, `blockedLocal` | the members of that name |
| `arbEvent`, `nextLegalArbTime` | the same, in ticks from now |
| `toSlave`, `toMaster` | the deliver events scheduled |
| `slaveBlocked` | `blockedInterfaces[0]` |
| `serving`, `fills` | external: the reads the slave has to answer, the misses memory has to answer |
| `Retrieve`, `Arbitrate`, `Deliver` | the events of AddressDependentIC with the link's `send`, `arbitrate`, `deliver` |
| `SlaveUnblocks`, `SlaveFills`, `SlaveResponds` | `clearBlocked` with its loop, `setBlocked`, `respond` with the retrieve event and `send` |

Here, unlike in Crossbar, times are exact, because that the buffer suffices depends on them. The slave is left open: it
may miss, block and answer as it likes, but it blocks by itself (`SlaveFills`) only when memory answers a miss it has under way.

### PrivateCache

PeerToPeerLink with MissQueue for its slave. The variables of both are kept, `ready` counts the reads answered that the link has
not retrieved, and `unblocking` says that the cache is inside `BaseCache::clearBlocked`: its own handler has done
all its changes, the link has still to empty its buffer and to access the cache again. Nothing else
happens before (`CacheNext`). Every step of the pair is a step of the link, a step of the miss queue, or both:
`DeliverAccess` is `DeliverToSlave` with `Miss`, `WriteOut` or a hit; `UnblockLink` is `SlaveUnblocks`; `CacheFilled` is `SlaveFills` with
`Fill`; the link does not see `CacheIssuesMiss` and `CacheIssuesWrite`. `fills` is the number of MSHRs in use.
`LinkSpec` is that the pair implements the link's specification, fairness of the slave included.

## 4. What the runs check

| Run | Instance | Shows |
|---|---|---|
| `event_queue` | 3 events (one frees itself, two are checkpointed), 2 priorities, ticks 0-2 | nothing freed is linked; exact restore; last in first out among equals; implements EventPool |
| `miss_queue_data` | data cache: 3 MSHRs, 3 targets, 2 blocks, 2 write buffers, partial fills, uncacheable accesses, limits 1-3 | blocked for cause; each request sent once; one miss per block; reserve registers suffice; a blocked cache wakes up, each miss is answered |
| `miss_queue_fetch` | instruction cache: 3 threads, 3 MSHRs, 3 targets, 3 blocks, squash | blocked for cause where squash matters; a squash drops only the thread's own accesses |
| `crossbar_local` | 2 processors, one with 4 requests and squashes, queue of 3, 1 bank, 1 stage | every request has its event; requests put off are fetched; no starvation |
| `crossbar_banks` | 2 processors, 2 banks, 2 requests each, 2 stages | delivery buffers suffice; arbitration goes on; implements Channels |
| `memory_controller` | 3 banks of which 2 may be open, 5 pages, queues of 1, twelve configurations | the controller's record agrees with the DRAM; queues suffice; under the closed policy only a threshold or a priority processor brings the controller to where a close may be forced; the threshold bounds bypassing; every request is issued and the bus unblocks |
| `memory_bus` | 2 banks, 3 pages, ticks 0-10, 4 requests for the bus, three configurations | open banks are ready when a command is chosen; grants in order; no arbitration loop |
| `ring` | 2 processors, 2 banks, hop of 2, queues and buffers of 2, 2 and 1 requests | transfers never meet; buffers suffice; implements Channels; no starvation |
| `peer_to_peer_link` | an instruction cache that squashes and a data cache with 2 writebacks, queue of 2, delay of 2 | one request in the buffer at most; an arbitration for whatever can be served; the response queue suffices; implements Channels; the queue moves on |
| `private_cache` | the same above a cache with 2 MSHRs of 2 targets, 1 write buffer, 2 blocks | the link knows whether the cache is blocked; each read is held once; the cache is a slave as assumed, fairness included; reads come back |
| `closed_threshold`, `traffic_generator` | see Findings | two assertions that the code reaches |

A few invariants are proved and no longer checked by a run. Types (`TypeCorrect` of each proof module) are one; the others follow
from what the run does check, in that a mutant that breaks one breaks the other: `Sorted`, `NotInThePast`, `FlagMatchesList` and
`SquashedIsPending` from `PoolSpec`; `AsksForBus` from `WakesUp`; `BlockedQueueMoves` (a processor that stays blocked) from
`WantsAreFetched`; `BlockedHasWork` from `BusUnblocks`. `NoTargetIsFull`, `LocalQueueFits`, `QueuesFit` and `InProgressCounts` are left to their proofs.
Every passing run is complete: TLC finishes the state space under the bounds.
Each property is also checked to be violated by a mutant of a mapped definition
(an operator named after its fault, just before the definition it changes).

### Bounds and why they are enough

* `MaxTick = 2`: three ticks give an event before, with and after another; two
  priorities and three events give every relative place in the list.
* Three MSHRs and targets: full with one to spare, full at the policy's lower
  limit, a middle target (the first write of a partial fill). `numTarget = 3` against 4 in the
  configurations only shortens the way to a full MSHR. Two blocks in `miss_queue_data`: a hit under a miss beside another
  miss; the third MSHR is taken by uncacheable accesses.
* `WbSpare = 5` is tight: with 4, `WritebacksFit` fails in the same
  instance (each MSHR may evict a block while the cache is blocked, and a partial fill
  does so again). `WritebacksFitReserve` proves that the bound is the same for every instance: one register for each MSHR, and where
  fills may be partial one more for each but one. The code reserves `numMSHRs + 1000` (`miss_queue.cc:54`), enough for up to 1001 MSHRs.
* `QueueSize = 3` for `perEndPointQueueSize` (32): the smallest that is larger than two.
  Below it a grant can empty the queue of a waiting processor. The assumption
  `CrossbarAssumption` records it.
* `Stages` is `crossbarTransferDelay / requestOccupancyTicks`; 1 and 2 give a pipeline that is
  full with one transfer and one that drains in part.
* `Outstanding` bounds the requests of a cache, as its number of MSHRs and write buffers do. In
  `crossbar_local` it exceeds the queue, so that retrievals are put off. Several caches on one processor's queue are in
  `peer_to_peer_link` (the handlers of AddressDependentIC are shared), and in the proofs.
* MSHRs are interchangeable (`CHOOSE` is not used on them and `\E` picks any free one):
  `SYMMETRY` in `miss_queue_fetch` only, never with liveness.

* `ReadQueueSize = WriteQueueSize = 1` (64 in the configurations): a full queue with one in progress is then two
  requests, enough for a hit behind a miss, in both queues. `MaxActive = 2` of three banks makes the limit of
  active pages bite. Five pages: two in one bank for conflicts, one that only the generator uses.
  Thresholds 0, 1 and 2: none, one and more than one may pass. A priority processor's request meets a page another processor has open in
  its own bank, and two other banks open. The two violation runs use queues of 2.
* `MaxTick = 10` and `MaxAsked = 4` in `memory_bus`: long enough for a page to be opened, read, written,
  closed early (`min_activate_to_precharge_latency = 3` exceeds the other latencies, which are 1 or 2) and
  opened again while the arbitration is put off. `OpenIsReady` is proved for every latency.
* `Hop = 2` in `ring` (`transferDelay / arbitrationDelay`): transfers of successive arbitrations are on the way at once,
  one link apart, and can meet only if reservations are wrong. One ring each way makes every conflict possible.

* `queueSize = 2` in `peer_to_peer_link` and `private_cache` (32 in the code): the first level caches have up to four requests under
  way, so that it fills and retrievals are put off. `transferDelay = 2` is the least at which an arbitration in the next tick
  would overtake a transfer. `slaveMSHRs = 1` alone, 2 with the cache: full with one and with two misses. With two targets, one write buffer and two
  blocks the cache blocks for each of its reasons and for two at once.

`CHECK_DEADLOCK FALSE` in `event_queue`, since the program ends in `Exited` when the queue
runs dry ("no events on event loop!"), and in `memory_bus`, where `MaxTick` ends time. Everywhere
else a deadlock would be reported.

### Fairness

Weak fairness, and only of what the event queue or the other end of a wire guarantees:

* MissQueue: the bus grants a cache that asks; the first request of each of its two
  queues is granted in the end, since the choice is by age; whatever is sent is answered.
  Nothing is assumed of accesses, squashes, or policies.
* Crossbar: a scheduled event fires (`Retrieve`, `Arbitrate`, `Deliver`, `DeliverToCache`)
  and time passes (`Tick`). Retrieve and Deliver are fair as a whole, since the event
  fires once, whatever it then finds. A bank unblocks and answers, which is what
  `WakesUp` and `MissAnswered` say of a non-blocking cache. No fairness
  of the caches: they need not send anything.

* MemoryController: its event and the generator's, once scheduled, are served, and a command on the bus ends. Nothing is
  assumed of the caches: they may stop asking.
* Ring: as Crossbar, but a bank's unblocking is strongly fair, because the steps of an arbitration interrupt
  it: in the code they are one event, and the bank unblocks at some tick between two of them.

* PeerToPeerLink: its events fire and time passes; its slave unblocks and answers (`SlaveIsFair`). PrivateCache
  does not assume the latter but shows it (`LinkSpec`), from the fairness of MissQueue: memory grants the cache and answers
  it. The fairness of an event is of the event without the guard `~unblocking`, which holds it up only for the one step of
  `UnblockLink`.

### Findings

Two runs end in a violation, each of an assertion of the code.

* `closed_threshold`: `getOther` asserts `!closedPagePolicy` (`rdfcfs_memory_controller.cc:616`) when it closes a
  page for the oldest request. Under the default page policy (`ClosedPage`) with a starvation
  threshold, which `configs/CMP/run.py:149` sets, row hits are not looked for once the threshold is reached, so
  the bank of the oldest request is still open for younger requests' page and the assertion fails.
  A threshold is not the only way there. Under the ASR policy (`configs/CMP/run.py:978`), which gives one processor
  priority after another, `filterQueue` hides the other processors' requests while `getClose` keeps pages open for them, and the
  assertion fails too: with `Configs <- ClosedWithPriority` in `MCClosedThreshold.cfg` TLC finds it in four steps.
  These two are all: `ForcedOnlyIfOverruled` says that under the closed page policy `getOther` is reached only while a row hit waits that
  the threshold or the priority overrules. `memory_controller` checks it with thresholds and priority processors under both page policies, and
  `ForcedWhileHitWaits` proves it for every configuration. `ClosedNeverForced` itself is proved where neither is configured
  (`ClosedNeedsNoForce`).
* `traffic_generator`: `Bus::sendGeneratedRequest` (`bus.cc:1085`) inserts a request without asking whether the controller
  is blocked. Beside the reads of the caches the queue grows beyond the "full queue + one in progress" of
  `rdfcfs_memory_controller.cc:238`, and `setBlocked` asserts `!isBlockedFlag` (`memory_controller.cc:86`). `QueuesSuffice` proves
  that without the generator neither happens.

## 5. What is proved

`EventQueue_proofs`, for every set of events, priorities and every `MaxTick`, under
`EventQueueAssumption` only (sets and distinct context values; no finiteness):

* `QueueConsistent`, and one theorem for each part (`TypeCorrect`,
  `ScheduledMeansListed`, `ListIsSorted`, `NeverInThePast`, `NoStaleSquash`, `NoDanglingLink`);
* `RestoreIsExact`;
* `LastScheduledIsFirst`: `LastInFirstOut`, an action property, of every way an event gets into the list;
* `ListImplementsPool`: `Spec => PoolSpec`, the refinement.

The argument. The properties hold only together: that `Dispatch` does not move time
back needs the list sorted and the head not in the past; that `Unlink` unlinks
needs flags and list to agree; that a linked event keeps its place needs its priority
unchanged, which `SetPriority` respects only because its guard says the running event is not
scheduled. `IInv` adds three facts to the properties: events that are not freed by
themselves are always allocated; while events are being restored there is a checkpoint; what is
restored so far is exact. Lemmas on the list (`InsertPos` exists, `Link` and `Unlink` keep the list sorted and
free of repetitions, a sorted list's head is its least element) come first;
then one step per action. For the refinement, each call maps to `Put`, `Cancel` or `CallOff` of the pool, `Dispatch` to `Serve`
because the head is the least, `Return` and `EnterLoop` to `Done`, and the rest to stutters.

`MissQueue_proofs`, for every set of blocks, threads and MSHRs, every number of targets
(two at least), write buffers and limits, for data and instruction caches, under
`MissQueueAssumption` and `FreeAssumption` (a free register is no MSHR state): one theorem for
each safety property of the runs, and for the parts they rest on: `TypeCorrect`, `BlocksForCause`, `SendsEachOnce`,
`PointsToFull`, `MergesMisses`, `SquashesOnlyOwn`, `AsksWhenNeeded`, `WritebacksFitReserve`.

The argument. None of the properties is inductive alone, and their conjunction is not either. What is
missing is what one register may look like, `RegisterInv`:

* a register sent for reading starts with a read. Without it a fill with read permission could
  satisfy no target at all, and the MSHR sent again would still be full while `noTarget` is cleared;
* only an instruction cache has registers without targets, since only `squash` empties them: for the
  others "sent again" and "has a target" agree, which `PendingIsUnsent` needs;
* no MSHR has more than `NumTargets` targets, an uncacheable access shares its MSHR with nothing, so that the
  branch of `handleResponse` that frees one need not clear `noTargetMSHR`;
* in an instruction cache an MSHR of a thread's own has one target, which is live. So `squash` never meets
  `noTargetMSHR` (there are at least two targets), and its first branch, which would clear only
  one of two causes, is not taken.

`ListInv` is `PendingIsUnsent` of any list and registers; lemmas say that appending, removing the head and
taking squashed entries out of the middle preserve it, others that freeing registers can only
turn a full queue into one that is not. Then one lemma per action, a fill in two (it frees or resends).

`WritebacksFitReserve` has a hypothesis, `WbSpare >= MostFills`, which the code's reserve satisfies for up to 1001 MSHRs and without which
TLC finds the property violated. That what is in the write buffers fits is not inductive: a fill adds to it and the queue
says nothing of how many fills are still to come. `DueFit` counts these too: one writeback for each MSHR, and a second for one that
a fill with read permission can leave with a write in it. While the cache is not blocked there is room for one more of
either, and once it is blocked the sum only shrinks.

`Crossbar_proofs`, for any finite sets of processors, banks and interfaces, any number of stages and
queues of more than two requests, under `CrossbarAssumption`: every safety invariant of the runs, and what it rests on:
`TypeCorrect`, `CountsAreExact`, `BufferSuffices`, `QueueSuffices`, `ArbitrationComes`, `BlockedMoves`,
`WantsHaveEvents`; and `CrossbarIsAChannel`, that it implements Channels.

The argument. `IInv` is one part for each part of the state (`CacheInv`, `QueueInv`, `PutOffInv`, `BankInv`,
`BackInv`, `EventInv`), so that an action need only be considered for the parts it changes. The buffer
suffices because of one fact that is not a property of the runs: a bank has no more under way than its pipeline has
stages, which `attemptDelivery` tests against a count that includes the buffer. `Arbitrate` is taken
apart as the code does it: what the grants leave in the queues (`RemainingInv`: a processor that stays
blocked has still a request, since the test for unblocking comes before the request leaves a queue
of more than two), then what `retrieveAdditionalRequests` fetches into the room
(`SentFits`, and a retrieval is still put off only if the queue is full again).

The channels. A path is the buffer, the pipeline and the queue in a row, each reduced to one processor and one bank, so
that every step is a statement on what such a reduction does to a sequence that gets longer at one end or shorter at the other.
Those statements are `Selection_proofs`, shared with the ring and the link: the entries of a sequence that lie in a set
(`Only`, `Picked`) and how many they are, in one sequence (`Count`) or in several (`CountIn`). They are defined by the
places of the entries, not by recursion over the sequence, which is what puts their laws (of concatenation, head, append, and of entries that
differ in nothing that matters) within reach. `OwnInv` says that a queue holds its own
processor's requests only. A grant then moves the head of a queue to the end of a pipeline, which leaves the path as it is, and
is the one step with several processors and banks at once.

`MemoryBus_proofs` has two parts. The first is about MemoryController, for any banks, pages, queue sizes, number of active pages and set of configurations, under
`ControllerAssumption`: `TypeCorrect`; `CopiesAgree` and `BlockedIsServed` for every configuration;
`QueuesSuffice` if no configuration has a traffic generator (with one it is false, see Findings);
`ForcedWhileHitWaits` for every configuration, and `ClosedNeedsNoForce` if those with the closed page policy have neither a threshold
nor a priority processor (with either it is false); `OldestIsPassedInBounds`, the bound on how many requests pass the oldest one, in every configuration with
a threshold and no priority processor.

The argument. `IInv` is `QueueInv` (while the flag is clear the queues are within their sizes), `EventInv` (a blocked
controller has a request, and with a request its event is scheduled), `PageInv` and `CountInv` (without the priority policy
no processor has priority). `QuietInv`, on top of it, is that no request of the generator exists. `PageInv` is what `BanksAgree` needs to be inductive: an open page lies in the bank it is open in, so that
the bank the controller names (of its record) and the one the DRAM closes (of the page) are the same; and the
counters are the cardinality of the open banks, which each command changes by one. Under the closed policy a row hit always
waits when `getOther` is reached (`HitWaits`): a bank open for a page nobody waits for would have been closed, and with no bank open
one would have been opened. Nothing but a threshold or a priority keeps the controller from issuing it.

`BypassBound` needs a relation between the counter in the code and what has really passed, and the obvious one, that the
counter is at least as large, is false: closing a page by force resets the counter although the oldest request
has not been issued. `TurnInv` says that this is so only while the oldest request is next (`OldestNext`: its page is open or can be
opened, nothing precedes it, and the controller's event is due in this tick). It needs that the queues are in the order of insertion (`AgeInv`).

The second part, for every latency, `HitLatency`, `MaxTick` and `MaxAsked`: `OpenIsReady`,
`BlockedArbitrationWaits`, `GrantsInOrder`, `BusTypeCorrect`, and `CopiesAgreeOnTheBus`, that the controller's invariant survives real ticks. `DramInv` says
of each bank that it is idle exactly if closed, and that its `readyTime` lies no later than the end of the command on the bus or, if
there is none, than now. `LoopInv` says that an arbitration has been put off within its tick once at most, and has then lowered its
priority: it is served again only after the controller's event of this tick, and since a blocked controller has a request
(`IInv`), that event has left a command on the bus, which sets `nextfree` ahead.
`GrantsInOrder` rests on `AskedInv`: the requests waiting are ascending except while `need_to_sort` says so, and no
scheduled one was asked for later than any of them. The sort is a permutation by rank, of which the lemmas show that it is ascending.

`Ring_proofs`, for any number of processors and banks, rings, hops, queue and buffer sizes: `TypeCorrect`, `LinksSuffice`,
`BufferSuffices`, `RingIsAChannel` (it implements Channels). `IInv` has a part for queues, links, banks and arbitration. That transfers never meet holds
because every link still ahead of a transfer is reserved for its tick (`LinkInv`) and no two transfers were granted
with a common reservation; `Fresh`, of the arbitration, keeps a processor's grant of this tick apart from its earlier ones.
The buffer suffices because what is granted to a bank and what its buffer holds are tested together.

For the channel, what is in flight is laid out by how long it has been: a tick moves each transfer one place, a grant puts one at the
far end, a delivery takes the one at the near end. That is a sequence of requests only if no place holds two, which `WayInv`
says: no two transfers of one processor started in the same tick (its answers under way are finitely many, so that they can be counted). It
follows from `Fresh`. A transfer cannot overtake another on a path of the same length, and a tick passes only when none has
arrived (`NothingDue`). An answer that is granted is a new one because its links were free.

`PeerToPeerLink_proofs`, for any delay, queue size, finite set of caches above and any slave: `TypeCorrect`, `OneIsBufferedHolds`,
`WorkIsScheduledHolds`, `QueuesFitHolds`, `LinkIsAChannel` (it implements Channels), `ResponsesFitHolds`. The buffer suffices because of `ArrivesInTime`: what is under way to the slave arrives no
later than `nextLegalArbTime`, and an arbitration that is scheduled is not before that; with the priorities (deliveries of a tick come
before its arbitration) no request is granted while one is under way, and none while the slave is blocked. So
every path that schedules an arbitration must respect `nextLegalArbTime` (`ArbIsLegal`).
The response queue suffices because of `LoadFits`: for each cache the reads it wants to send, has in the channel, has at the slave and has
coming back are together at most `Outstanding`. The channel's steps move a read from one of these to the next.

`PrivateCache_proofs`, for any number of MSHRs, targets, write buffers, blocks and caches above, under `CacheAssumption` and
`LinkAssumption`: `LinkAlwaysKnows`, `CacheIsASlave` (`CacheSpec => Spec`, the refinement but for its fairness), `PairIsAMissQueue`
(the other half of the composition), `EveryReadIsHeld`, `PairTypeCorrect`; and, by the two refinements, of the pair what is proved of its parts:
`OneIsBufferedInPair`, `PairIsAChannel`, `ResponsesFitInPair`, `WritebacksFitInPair` (for `WbSpare >= slaveMSHRs`).
The invariant `PairInv` is the link's `IInv`, the miss queue's `IInv`, that `fills` counts the MSHRs in use, and `LinkKnows`.
One lemma per action shows that the step is one of the link's, one of the miss queue's, and keeps the two in agreement; the
two invariants then follow from the lemmas of the two modules, and the type of `fills` from `MissAllocates` and `FillReleases` (an access
takes one MSHR at most, a fill frees one). That the link accesses the cache at most once within its `clearBlocked`
(`OneIsBuffered`) is what makes `UnblockLink` one access.
For `ReadsAreHeld`, `HeldInv` counts the reads the link waits for as pairs of an MSHR and a target (one finite set, no sum), and each step adds
or removes such pairs, or turns them into answers.

Only model-checked: the liveness properties (`WakesUp`, `MissAnswered`, `WantsAreFetched`, `EveryRequestIssued`, `BusUnblocks`, `QueueMoves`,
`ReadsComeBack`, `NoStarvation` of Crossbar and Ring) and of `LinkSpec` the fairness: with fairness and ENABLED they are outside TLAPS's reach.
Every safety property of a passing run is proved, under the assumptions on the constants named above.
No proof uses an induction over data and no module declares a RECURSIVE operator.

## 6. What is left out of the modelled components

* EventQueue: `dump`, tracing, names. What a `process()` computes.
  Events that delete themselves in `process` although `serviceOne` reads their flags afterwards are
  treated as gone.
* Checkpoint: the file and the sections of other objects.
* MissQueue: hardware prefetches (off in every configuration), directory writebacks,
  copies and invalidates, which the configurations do not use; the accounting; ready times, so that the
  order between the two queues is open.
* Crossbar: warm-up mode before `detailedSimStartTick` (`send` delivers after a fixed delay, without queues),
  `fixedRoundtripLat`, the bandwidth accounting and the interference estimates; exact latencies.
  The ends of a transfer are external: which bank an address maps to, when a bank blocks.
* Memory controllers: the first-come-first-served, network fair queueing and fixed bandwidth controllers; interference
  estimates and the accounting of waiting times.
* Memory bus: the fast-forward phase and infinite bandwidth (the bus then bypasses its controller), simulated contention,
  virtual private writes. What a cache sends when it is granted the bus is left open, as MissQueue has it.
* DRAM banks: static latencies, the conversion of the parameters to processor cycles.
* PeerToPeerLink: warm-up mode, statistics. PrivateCache: what MissQueue leaves out; which accesses hit is open; the
  number of MSHRs does not change (`Limits = {}`).
* Ring: warm-up mode, `fixedRoundtripLat`, retrieval from the caches, interference estimates.

Not modelled at all, besides what the inventory names: snooping coherence, which this code cannot reach (the call of `snoop` in
`interconnect_master_impl.hh:34` is commented out, the bus asserts that it sends only reads and writebacks, and hands them to the
controller, `bus.cc:463` and `bus.cc:585`), so that there is no protocol run to be faithful to, only tables; directory coherence, which the configurations switch off; tags and
partitioning, sequential algorithms without interleavings; the processors, of which only the fetch stage's
contract with its cache is used; policies and accounting, numeric code over measured statistics that reaches the
memory system through `setNumMSHRs` alone.
