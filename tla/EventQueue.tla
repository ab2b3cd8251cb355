------------------------------ MODULE EventQueue ------------------------------
(***************************************************************************)
(* The discrete-event kernel of the simulator: the class Event and the     *)
(* class EventQueue of sim/eventq.{hh,cc}, the loop of main() that serves  *)
(* mainEventQueue, and the checkpoint and restart of events.               *)
(*                                                                         *)
(* Everything the simulator does is done by the process() of some event,   *)
(* on one thread.  A process() is modelled as a sequence of the calls it   *)
(* may make on events (schedule, deschedule, reschedule, squash, ...), in  *)
(* any order and number; ctx says whose code is running.                   *)
(***************************************************************************)
EXTENDS Integers, SequencesExt

CONSTANTS
    Events,      \* the event objects
    AutoDelete,  \* those freed once served: flag AutoDelete, or "delete this"
    Persistent,  \* those that their owner serializes and unserializes
    Priorities,  \* the values of Event::Priority in use
    InitPrio,    \* the priority each event is constructed with
    MaxTick,     \* bound: the last tick a caller schedules for
    Setup, Loop, Poll, Exited,  \* values of ctx that are not events
    NoCheckpoint                \* value of ckpt before the first checkpoint

ASSUME EventQueueAssumption ==
    /\ AutoDelete \subseteq Events
    /\ Persistent \subseteq Events \ AutoDelete
    /\ Priorities \subseteq Int
    /\ InitPrio \in [Events -> Priorities]
    /\ MaxTick \in Nat
    /\ {Setup, Loop, Poll, Exited} \cap Events = {}
    /\ Setup \notin {Loop, Poll, Exited} /\ Loop \notin {Poll, Exited} /\ Poll # Exited

VARIABLES
    curTick,    \* the global curTick
    queue,      \* the list from EventQueue::head on
    when,       \* Event::_when
    prio,       \* Event::_priority
    scheduled,  \* events whose flag Scheduled is set
    squashed,   \* events whose flag Squashed is set
    alive,      \* allocated event objects
    ctx,        \* who runs: the constructors (Setup), the main loop (Loop), its
                \* handling of signals (Poll), an event's process(), nobody (Exited)
    ckpt,       \* the events of the last checkpoint written
    toRestore   \* events the current process has still to unserialize

vars == <<curTick, queue, when, prio, scheduled, squashed, alive, ctx, ckpt, toRestore>>

Ticks == 0 .. MaxTick
Static == Events \ AutoDelete
SavedEvent == [scheduled : BOOLEAN, squashed : BOOLEAN, prio : Priorities]

TypeOK ==
    /\ curTick \in Ticks
    /\ queue \in Seq(Events)
    /\ when \in [Events -> Ticks]
    /\ prio \in [Events -> Priorities]
    /\ scheduled \subseteq Events
    /\ squashed \subseteq Events
    /\ alive \subseteq Events
    /\ ctx \in Events \cup {Setup, Loop, Poll, Exited}
    /\ ckpt \in [Persistent -> SavedEvent] \cup {NoCheckpoint}
    /\ toRestore \subseteq Persistent

-----------------------------------------------------------------------------
(* The list.                                                               *)

\* The order of the list: earlier first, then lower priority value first.
NotAfter(w, p, e, f) ==
    \/ w[e] < w[f]
    \/ w[e] = w[f] /\ p[e] <= p[f]

\* Mutant: after its equals instead of before.
InsertPosAfterEquals(q, w, p, e) ==
    CHOOSE i \in 1 .. Len(q) + 1 :
        /\ \A j \in 1 .. i - 1 : NotAfter(w, p, q[j], e)
        /\ i <= Len(q) => ~NotAfter(w, p, q[i], e)

\* Where insert() links event e in: before the first event it is not after.
InsertPos(q, w, p, e) ==
    CHOOSE i \in 1 .. Len(q) + 1 :
        /\ \A j \in 1 .. i - 1 : ~NotAfter(w, p, e, q[j])
        /\ i <= Len(q) => NotAfter(w, p, e, q[i])

Link(q, w, p, e) == InsertAt(q, InsertPos(q, w, p, e), e)

\* remove() unlinks the event if it is there.
Unlink(q, e) ==
    IF \E i \in 1 .. Len(q) : q[i] = e
    THEN RemoveAt(q, CHOOSE i \in 1 .. Len(q) : q[i] = e)
    ELSE q

Init ==
    /\ curTick = 0
    /\ queue = <<>>
    /\ when = [e \in Events |-> 0]
    /\ prio = InitPrio
    /\ scheduled = {}
    /\ squashed = {}
    /\ alive = Static
    /\ ctx = Setup
    /\ ckpt = NoCheckpoint
    /\ toRestore = {}

-----------------------------------------------------------------------------
(* What code may call on an event.  Each first conjunct of the three       *)
(* inline functions is the assert they start with.                         *)

InHandler == ctx \in Events

\* Simulation objects schedule their first events in their constructors and
\* init(), before any event is restored, or in startup(), after all are.
InSetup == ctx = Setup /\ toRestore \in {{}, Persistent}

ScheduleAt(e, t) ==
    /\ e \notin scheduled
    /\ t >= curTick
    /\ scheduled' = scheduled \cup {e}
    /\ when' = [when EXCEPT ![e] = t]
    /\ queue' = Link(queue, when', prio', e)
    /\ UNCHANGED <<curTick, squashed, ctx, ckpt, toRestore>>

Schedule(e, t) ==
    /\ InHandler \/ InSetup
    /\ e \in alive
    /\ UNCHANGED <<prio, alive>>
    /\ ScheduleAt(e, t)

\* "new SomeEvent(...)" of an event that frees itself: constructed, scheduled.
Construct(e, t) ==
    /\ e \in AutoDelete \ alive
    /\ alive' = alive \cup {e}
    /\ prio' = [prio EXCEPT ![e] = InitPrio[e]]
    /\ ScheduleAt(e, t)

NewEvent(e, t) == InHandler /\ Construct(e, t)

Deschedule(e) ==
    /\ InHandler
    /\ e \in scheduled
    /\ squashed' = squashed \ {e}
    /\ scheduled' = scheduled \ {e}
    /\ queue' = Unlink(queue, e)
    /\ UNCHANGED <<curTick, when, prio, alive, ctx, ckpt, toRestore>>

\* No assert compares t with curTick; every caller passes curTick plus a delay.
Reschedule(e, t) ==
    /\ InHandler
    /\ e \in scheduled
    /\ t >= curTick
    /\ squashed' = squashed \ {e}
    /\ when' = [when EXCEPT ![e] = t]
    /\ queue' = Link(Unlink(queue, e), when', prio, e)
    /\ UNCHANGED <<curTick, prio, scheduled, alive, ctx, ckpt, toRestore>>

\* Event::squash() as its callers use it: on an event that is pending.
Squash(e) ==
    /\ InHandler
    /\ e \in scheduled
    /\ squashed' = squashed \cup {e}
    /\ UNCHANGED <<curTick, queue, when, prio, scheduled, alive, ctx, ckpt, toRestore>>

\* The bus arbitration event, which deletes itself unless it is scheduled again,
\* changes its own priority before it schedules itself.
SetPriority(p) ==
    /\ ctx \in AutoDelete
    /\ ctx \notin scheduled
    /\ prio' = [prio EXCEPT ![ctx] = p]
    /\ UNCHANGED <<curTick, queue, when, scheduled, squashed, alive, ctx, ckpt, toRestore>>

-----------------------------------------------------------------------------
(* The main loop.                                                          *)

\* Mutant of Free: a pending event is freed too.
FreePending(e, stillPending) == alive \ ({e} \cap AutoDelete)

\* An event that frees itself is freed when it is served and not pending again.
Free(e, stillPending) == alive \ ({e} \cap (AutoDelete \ stillPending))

\* Mutant of Dispatch: a squashed event does not advance simulated time.
DispatchSquashedInNoTime ==
    /\ ctx = Loop
    /\ queue # <<>>
    /\ queue' = Tail(queue)
    /\ scheduled' = scheduled \ {Head(queue)}
    /\ IF Head(queue) \in squashed
       THEN /\ squashed' = squashed \ {Head(queue)}
            /\ alive' = Free(Head(queue), scheduled')
            /\ ctx' = Poll
            /\ UNCHANGED curTick
       ELSE /\ ctx' = Head(queue)
            /\ curTick' = when[Head(queue)]
            /\ UNCHANGED <<squashed, alive>>
    /\ UNCHANGED <<when, prio, ckpt, toRestore>>

\* One round of the loop up to the call of process().
Dispatch ==
    /\ ctx = Loop
    /\ queue # <<>>
    /\ curTick' = when[Head(queue)]
    /\ queue' = Tail(queue)
    /\ scheduled' = scheduled \ {Head(queue)}
    /\ IF Head(queue) \in squashed
       THEN /\ squashed' = squashed \ {Head(queue)}
            /\ alive' = Free(Head(queue), scheduled')
            /\ ctx' = Poll
       ELSE /\ ctx' = Head(queue)
            /\ UNCHANGED <<squashed, alive>>
    /\ UNCHANGED <<when, prio, ckpt, toRestore>>

\* process() returns to serviceOne().
Return ==
    /\ InHandler
    /\ alive' = Free(ctx, scheduled)
    /\ ctx' = Poll
    /\ UNCHANGED <<curTick, queue, when, prio, scheduled, squashed, ckpt, toRestore>>

\* A signal handler asked for statistics or for the end: a new event, now.
AsyncEvent(e) ==
    /\ ctx = Poll
    /\ Construct(e, curTick)

NextRound ==
    /\ ctx = Poll
    /\ ctx' = Loop
    /\ UNCHANGED <<curTick, queue, when, prio, scheduled, squashed, alive, ckpt, toRestore>>

\* The loop ends when it runs out of events.
NoEvents ==
    /\ ctx = Loop
    /\ queue = <<>>
    /\ ctx' = Exited
    /\ UNCHANGED <<curTick, queue, when, prio, scheduled, squashed, alive, ckpt, toRestore>>

-----------------------------------------------------------------------------
(* Checkpoints.                                                            *)

\* SerializeEvent::process: every owner writes its events' flags and priority.
Serialize ==
    /\ InHandler
    /\ ckpt' = [e \in Persistent |->
                   [scheduled |-> e \in scheduled, squashed |-> e \in squashed, prio |-> prio[e]]]
    /\ UNCHANGED <<curTick, queue, when, prio, scheduled, squashed, alive, ctx, toRestore>>

\* The process ends, or is killed, at any point; a new one is started from the
\* checkpoint.  Neither curTick nor the list itself is restored.
Restart ==
    /\ ckpt # NoCheckpoint
    /\ curTick' = 0
    /\ queue' = <<>>
    /\ when' = [e \in Events |-> 0]
    /\ prio' = InitPrio
    /\ scheduled' = {}
    /\ squashed' = {}
    /\ alive' = Static
    /\ ctx' = Setup
    /\ toRestore' = Persistent
    /\ UNCHANGED ckpt

\* Mutant of Unserialize: a squashed event is scheduled again.
UnserializeSquashed(e) ==
    LET descheduled == Unlink(queue, e)
    IN
    /\ ctx = Setup
    /\ e \in toRestore
    /\ toRestore' = toRestore \ {e}
    /\ prio' = [prio EXCEPT ![e] = ckpt[e].prio]
    /\ squashed' = squashed \ {e}
    /\ IF ckpt[e].scheduled
       THEN /\ scheduled' = scheduled \cup {e}
            /\ when' = [when EXCEPT ![e] = curTick]
            /\ queue' = Link(descheduled, when', prio', e)
       ELSE /\ scheduled' = scheduled \ {e}
            /\ queue' = descheduled
            /\ UNCHANGED when
    /\ UNCHANGED <<curTick, alive, ctx, ckpt>>

\* Event::unserialize: an event that was pending is due at once.
Unserialize(e) ==
    LET wasScheduled == ckpt[e].scheduled /\ ~ckpt[e].squashed
        descheduled  == Unlink(queue, e)
    IN
    /\ ctx = Setup
    /\ e \in toRestore
    /\ toRestore' = toRestore \ {e}
    /\ prio' = [prio EXCEPT ![e] = ckpt[e].prio]
    /\ squashed' = squashed \ {e}
    /\ IF wasScheduled
       THEN /\ scheduled' = scheduled \cup {e}
            /\ when' = [when EXCEPT ![e] = curTick]
            /\ queue' = Link(descheduled, when', prio', e)
       ELSE /\ scheduled' = scheduled \ {e}
            /\ queue' = descheduled
            /\ UNCHANGED when
    /\ UNCHANGED <<curTick, alive, ctx, ckpt>>

\* The constructors are done: main() enters its loop.
EnterLoop ==
    /\ ctx = Setup
    /\ toRestore = {}
    /\ ctx' = Loop
    /\ UNCHANGED <<curTick, queue, when, prio, scheduled, squashed, alive, ckpt, toRestore>>

-----------------------------------------------------------------------------
Next ==
    \/ \E e \in Events, t \in Ticks :
          \/ Schedule(e, t)
          \/ NewEvent(e, t)
          \/ Reschedule(e, t)
    \/ \E e \in Events : Deschedule(e) \/ Squash(e) \/ AsyncEvent(e)
    \/ \E p \in Priorities : SetPriority(p)
    \/ \E e \in Persistent : Unserialize(e)
    \/ Dispatch \/ Return \/ NextRound \/ NoEvents
    \/ Serialize \/ Restart \/ EnterLoop

Spec == Init /\ [][Next]_vars

-----------------------------------------------------------------------------
(* Properties.                                                             *)

\* The flag Scheduled and the links agree: an event is in the list exactly when
\* its flag is set, and only once.  Every assert of schedule(), deschedule() and
\* reschedule() relies on the flag alone.
FlagMatchesList ==
    /\ \A e \in Events : e \in scheduled <=> \E i \in 1 .. Len(queue) : queue[i] = e
    /\ \A i, j \in 1 .. Len(queue) : queue[i] = queue[j] => i = j

\* The list is sorted by time and priority, whatever handlers reschedule,
\* restore or re-prioritise.
Sorted ==
    \A i, j \in 1 .. Len(queue) : i < j => NotAfter(when, prio, queue[i], queue[j])

\* "event scheduled in the past": the assert of the main loop cannot fail.
NotInThePast == \A e \in scheduled : curTick <= when[e]

\* A squashed event is one still pending: no Squashed flag survives the event's
\* service, deschedule or restore, where it would silently kill the next use.
SquashedIsPending == squashed \subseteq scheduled

\* The list never links freed memory: a pending event is allocated.
PendingIsAlive == scheduled \subseteq alive

\* After a restart an event is pending exactly when the checkpoint had it
\* pending and not squashed, and then it is due at once.
RestoredExactly ==
    ctx = Setup /\ toRestore # {} =>
        \A e \in Persistent \ toRestore :
            /\ e \in scheduled <=> ckpt[e].scheduled /\ ~ckpt[e].squashed
            /\ e \in scheduled => when[e] = curTick

EventQueueInv ==
    /\ TypeOK
    /\ FlagMatchesList
    /\ Sorted
    /\ NotInThePast
    /\ SquashedIsPending
    /\ PendingIsAlive

\* A step that links an event in, or moves one, puts it before all its equals.
LinksBeforeEquals ==
    \A i, j \in 1 .. Len(queue') :
       /\ \/ queue'[i] \notin scheduled
          \/ when'[queue'[i]] # when[queue'[i]]
       /\ when'[queue'[i]] = when'[queue'[j]]
       /\ prio'[queue'[i]] = prio'[queue'[j]]
       => i <= j

\* Among events due at the same tick with the same priority the one scheduled or
\* moved last is served first.
LastInFirstOut == [][LinksBeforeEquals]_vars

\* What the list and the loop implement: a pool of pending events, run one at a
\* time in order of time and priority, at the time they are due, unless squashed
\* (module EventPool).
pending == [e \in scheduled |-> [tick |-> when[e], prio |-> prio[e]]]
running == IF ctx \in Events \cup {Setup} THEN ctx ELSE Loop

Pool == INSTANCE EventPool WITH
    due <- pending, off <- squashed, now <- curTick, actor <- running, Main <- Loop
PoolSpec == Pool!Spec
=============================================================================
