------------------------------ MODULE MemoryBus ------------------------------
(***************************************************************************)
(* The bus of a memory channel, class Bus, with the controller and the     *)
(* DRAM banks behind it.  The caches ask for the bus at a tick; one        *)
(* arbitration event at a time grants it, in the order of those ticks, and *)
(* hands the request of the cache to the controller.  While the controller *)
(* is blocked the arbitration event puts itself off, with a priority that  *)
(* lets the controller's event of the same tick come first.                *)
(*                                                                         *)
(* The actions of the controller are those of MemoryController; here ticks *)
(* are real and a command takes the time DramBank computes.  The detailed  *)
(* mode without simulated contention is modelled; what a cache asks for    *)
(* when it is granted the bus is left open: one of its requests or, when   *)
(* it has been dropped meanwhile, none.                                    *)
(***************************************************************************)
EXTENDS MemoryController, DramBank

CONSTANTS
    HitLatency,    \* a cache asks for the bus this many ticks ahead
    MaxTick,       \* the bound on the ticks
    MaxAsked,      \* the bound on the requests for the bus
    NoEvent        \* no arbitration event is scheduled

VARIABLES
    dram,          \* the timing of each bank
    nextfree,
    arb_events,    \* original_time of the events that wait to be scheduled
    need_to_sort,
    currently_scheduled,
    lastarbevent,
    asked          \* the requests for the bus so far

arbVars == <<arb_events, need_to_sort, currently_scheduled, lastarbevent, asked>>
busVars == <<vars, dram, nextfree, arbVars>>

\* at is the tick the event is scheduled for, resched whether it has lowered its
\* priority (Resched_Arb_Pri), loops its arbitrationLoopCounter.
ArbEvent == [original_time : Nat, at : Nat, resched : BOOLEAN, loops : Nat]

ASSUME BusAssumption ==
    /\ HitLatency \in Nat /\ MaxTick \in Nat /\ MaxAsked \in Nat
    /\ NoEvent \notin ArbEvent

NewEvent(time, at) ==
    [original_time |-> time, at |-> at, resched |-> FALSE, loops |-> 0]

BusTypeOK ==
    /\ TypeOK
    /\ dram \in [Banks -> BankTiming]
    /\ nextfree \in Nat
    /\ arb_events \in Seq(Nat)
    /\ need_to_sort \in BOOLEAN
    /\ currently_scheduled \in ArbEvent \union {NoEvent}
    /\ lastarbevent \in Nat
    /\ asked \in Nat

BusInit ==
    /\ Init
    /\ dram = [b \in Banks |-> InitialBank]
    /\ nextfree = 0
    /\ arb_events = <<>>
    /\ need_to_sort = TRUE
    /\ currently_scheduled = NoEvent
    /\ lastarbevent = 0
    /\ asked = 0

(***************************************************************************)
(* Arbitration                                                             *)
(***************************************************************************)
\* requestAddrBus: an earlier request takes the place of the scheduled one.
RequestAddrBus(time) ==
    /\ asked < MaxAsked
    /\ asked' = asked + 1
    /\ need_to_sort' = TRUE
    /\ \/ /\ currently_scheduled = NoEvent
          /\ currently_scheduled' = NewEvent(time, time)
          /\ UNCHANGED arb_events
       \/ /\ currently_scheduled # NoEvent
          /\ currently_scheduled.original_time > time
          /\ arb_events' = Append(arb_events, currently_scheduled.original_time)
          /\ currently_scheduled' = NewEvent(time, time)
       \/ /\ currently_scheduled # NoEvent
          /\ currently_scheduled.original_time <= time
          /\ arb_events' = Append(arb_events, time)
          /\ UNCHANGED currently_scheduled
    /\ UNCHANGED <<vars, dram, nextfree, lastarbevent>>

ArbitrationDue == currently_scheduled # NoEvent /\ currently_scheduled.at = curTick

\* The event has the default priority, before the controller's, until it has
\* put itself off: then it comes after.
ArbitrationServed ==
    /\ ArbitrationDue
    /\ currently_scheduled.resched => event # Now

\* Mutant: the event keeps its priority.
PutOffFirst ==
    /\ ArbitrationServed /\ isBlockedFlag
    /\ lastarbevent' = currently_scheduled.original_time
    /\ currently_scheduled' =
           [currently_scheduled EXCEPT
               !.at = IF nextfree <= curTick THEN curTick ELSE nextfree,
               !.loops = IF nextfree <= curTick THEN @ + 1 ELSE 0]
    /\ UNCHANGED <<vars, dram, nextfree, arb_events, need_to_sort, asked>>

PutOff ==
    /\ ArbitrationServed /\ isBlockedFlag
    /\ lastarbevent' = currently_scheduled.original_time
    /\ currently_scheduled' =
           [currently_scheduled EXCEPT
               !.resched = TRUE,
               !.at = IF nextfree <= curTick THEN curTick ELSE nextfree,
               !.loops = IF nextfree <= curTick THEN @ + 1 ELSE 0]
    /\ UNCHANGED <<vars, dram, nextfree, arb_events, need_to_sort, asked>>

\* Mutant: an arbitration takes the events as they were added.
Unsorted == arb_events

\* event_compare, and the sort of std::list, which keeps equals in order.
Earlier(q, i, j) == q[i] < q[j] \/ (q[i] = q[j] /\ i < j)
Place(q, i) == 1 + Cardinality({j \in DOMAIN q : Earlier(q, j, i)})
InOrder(q) == [n \in DOMAIN q |-> q[CHOOSE i \in DOMAIN q : Place(q, i) = n]]

Sorted == IF need_to_sort THEN InOrder(arb_events) ELSE arb_events

\* The end of AddrArbiterEvent::process: the earliest event left is scheduled.
ScheduleNext ==
    /\ lastarbevent' = currently_scheduled.original_time
    /\ IF arb_events = <<>>
       THEN /\ currently_scheduled' = NoEvent
            /\ UNCHANGED <<arb_events, need_to_sort>>
       ELSE /\ currently_scheduled' =
                   NewEvent(Head(Sorted), Latest(curTick, Head(Sorted)))
            /\ arb_events' = Tail(Sorted)
            /\ need_to_sort' = FALSE
    /\ UNCHANGED <<dram, nextfree, asked>>

Grant(cmd, page) ==
    /\ ArbitrationServed
    /\ SendAddr(cmd, page)
    /\ ScheduleNext

GrantNull ==
    /\ ArbitrationServed /\ ~isBlockedFlag
    /\ ScheduleNext
    /\ UNCHANGED vars

(***************************************************************************)
(* The controller's event, after an arbitration of the default priority,   *)
(* and latencyCalculated.                                                  *)
(***************************************************************************)
ControllerServed ==
    ArbitrationDue => currently_scheduled.resched

\* The bank a command is for is the one whose open page it changes.
Activated ==
    /\ ControllerServed /\ GetActivate
    /\ dram' = [b \in Banks |-> IF openpage'[b] = openpage[b] THEN dram[b]
                                ELSE ActivateBank(dram[b], curTick)]
    /\ nextfree' = curTick
    /\ UNCHANGED arbVars

Precharged ==
    /\ ControllerServed /\ (GetClose \/ CloseForOldest)
    /\ dram' = [b \in Banks |-> IF openpage'[b] = openpage[b] THEN dram[b]
                                ELSE PrechargeBank(dram[b], curTick)]
    /\ nextfree' = curTick
    /\ UNCHANGED arbVars

AccessOf(s) ==
    IF s[1] = Read THEN ReadBank(dram[Bank(s)], curTick)
    ELSE WriteBank(dram[Bank(s)], curTick)

Issued(s) ==
    /\ dram' = [dram EXCEPT ![Bank(s)] = AccessOf(s).bank]
    /\ nextfree' = curTick + AccessOf(s).latency
    /\ UNCHANGED arbVars

IssuedReady ==
    /\ ControllerServed /\ GetReady
    /\ \E s \in ToIssue : First(s, ToIssue) /\ Issued(s)

IssuedOldest ==
    /\ ControllerServed /\ IssueOldest
    /\ \E s \in Considered : First(s, Considered) /\ isActive(s) /\ Issued(s)

Rested ==
    /\ ControllerServed /\ Rest
    /\ UNCHANGED <<dram, nextfree, arbVars>>

\* Nothing is left for this tick.
Tick ==
    /\ curTick < MaxTick /\ event # Now /\ ~ArbitrationDue
    /\ curTick' = curTick + 1
    /\ event' = IF event = Later /\ nextfree = curTick' THEN Now ELSE event
    /\ UNCHANGED <<config, queueVars, pageVars, orderVars, highPriCPUID,
                   generatorVars, dram, nextfree, arbVars>>

BusNext ==
    \/ \E delay \in 0..HitLatency : RequestAddrBus(curTick + delay)
    \/ PutOff
    \/ \E cmd \in {Read, Writeback}, p \in Pages : Grant(cmd, p)
    \/ GrantNull
    \/ Activated \/ Precharged \/ IssuedReady \/ IssuedOldest \/ Rested
    \/ Tick

BusSpec == BusInit /\ [][BusNext]_busVars

(***************************************************************************)
(* Properties                                                              *)
(***************************************************************************)
\* isReady: whenever the controller chooses, a bank that has a page open is
\* ready, so that to be ready is to be open; getReady then never has to pass
\* over a row hit, and a hit never waits (assert(!isHit)).
ReadyWhenServed ==
    event = Now =>
        \A b \in Banks : openpage[b] # Closed => dram[b].readyTime <= curTick

\* The first assertions of AddrArbiterEvent::process: requests for the bus are
\* granted in the order of the ticks they were made for, never ahead of time.
ArbitrationInOrder ==
    currently_scheduled # NoEvent =>
        /\ lastarbevent <= currently_scheduled.original_time
        /\ currently_scheduled.original_time <= currently_scheduled.at
        /\ \A i \in DOMAIN arb_events :
               currently_scheduled.original_time <= arb_events[i]

\* MAX_ARB_RESCHED is never near: a blocked arbitration is put off within its own
\* tick at most once, since the controller's event then occupies the bus.
NoArbitrationLoop ==
    currently_scheduled # NoEvent => currently_scheduled.loops <= 1
=============================================================================
