------------------------------ MODULE EventPool ------------------------------
(***************************************************************************)
(* What the simulator's components rely on from the event queue: a pool of *)
(* pending events, each due at a tick with a priority.  One event is run   *)
(* at a time, and always one that no other pending event precedes, at the  *)
(* simulated time it is due; one that was called off is passed over.  Ties *)
(* are left open: how the list breaks them is the list's business.         *)
(***************************************************************************)
EXTENDS Integers, Functions

CONSTANTS Events, Priorities, MaxTick, Setup, Main

VARIABLES
    due,   \* the pending events, with the tick and the priority of each
    off,   \* the pending events called off
    now,   \* simulated time
    actor  \* whose code runs: an event's, the constructors' (Setup) or main()'s

vars == <<due, off, now, actor>>

Ticks == 0 .. MaxTick
Due == [tick : Ticks, prio : Priorities]

Precedes(d1, d2) ==
    \/ d1.tick < d2.tick
    \/ d1.tick = d2.tick /\ d1.prio < d2.prio

Init == due = [e \in {} |-> 0] /\ off = {} /\ now = 0 /\ actor = Setup

\* Make an event pending, or move a pending one, to a tick that is not past.
Put(e, d) ==
    /\ d.tick >= now
    /\ due' = [f \in DOMAIN due \cup {e} |-> IF f = e THEN d ELSE due[f]]
    /\ off' = off \ {e}
    /\ UNCHANGED <<now, actor>>

\* Take a pending event back.
Cancel(e) ==
    /\ actor # Main
    /\ due' = Restrict(due, DOMAIN due \ {e})
    /\ off' = off \ {e}
    /\ UNCHANGED <<now, actor>>

\* Call a pending event off, but leave it where it is.
CallOff(e) ==
    /\ actor # Main
    /\ off' = off \cup {e}
    /\ UNCHANGED <<due, now, actor>>

\* It is the turn of an event that none precedes: it runs unless it is called off.
Serve(e) ==
    /\ actor = Main
    /\ \A f \in DOMAIN due : ~Precedes(due[f], due[e])
    /\ now' = due[e].tick
    /\ due' = Restrict(due, DOMAIN due \ {e})
    /\ off' = off \ {e}
    /\ actor' = IF e \in off THEN Main ELSE e

\* The event, or the construction of the simulated machine, is done.
Done == actor # Main /\ actor' = Main /\ UNCHANGED <<due, off, now>>

\* The process is restarted.
Reset == due' = [e \in {} |-> 0] /\ off' = {} /\ now' = 0 /\ actor' = Setup

Next ==
    \/ \E e \in Events, d \in Due : Put(e, d)
    \/ \E e \in DOMAIN due : Cancel(e) \/ CallOff(e) \/ Serve(e)
    \/ Done \/ Reset

Spec == Init /\ [][Next]_vars
=============================================================================
