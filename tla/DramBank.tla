------------------------------- MODULE DramBank -------------------------------
(***************************************************************************)
(* The timing of one DRAM bank, SimpleMemBank::calculateLatency: what a    *)
(* command at a tick does to the bank and how long it occupies the bus.    *)
(* Opening and closing a page answer at once; the time they take is paid   *)
(* by the access that follows.  Ticks are plain numbers; the statistics    *)
(* and the static_memory_latency option are left out.                      *)
(***************************************************************************)
EXTENDS Integers

CONSTANTS
    RAS_latency, CAS_latency, precharge_latency,
    min_activate_to_precharge_latency,
    write_latency, write_recovery_time,
    internal_write_to_read, internal_read_to_precharge,
    read_to_write_turnaround, internal_row_to_row,
    data_time,
    BankIdle, BankActive, BankRead, BankWritten   \* DDR2State

ASSUME DramAssumption ==
    /\ RAS_latency \in Nat /\ CAS_latency \in Nat /\ precharge_latency \in Nat
    /\ min_activate_to_precharge_latency \in Nat
    /\ write_latency \in Nat /\ write_recovery_time \in Nat
    /\ internal_write_to_read \in Nat /\ internal_read_to_precharge \in Nat
    /\ read_to_write_turnaround \in Nat /\ internal_row_to_row \in Nat
    /\ data_time \in Nat \ {0}
    /\ BankIdle # BankActive /\ BankIdle # BankRead /\ BankIdle # BankWritten
    /\ BankActive # BankRead /\ BankActive # BankWritten /\ BankRead # BankWritten

BankTiming ==
    [state : {BankIdle, BankActive, BankRead, BankWritten},
     activateTime : Int, closeTime : Int, readyTime : Int, lastCmdFinish : Int]

InitialBank ==
    [state |-> BankIdle, activateTime |-> 0, closeTime |-> 0, readyTime |-> 0,
     lastCmdFinish |-> 0]

Latest(a, b) == IF a > b THEN a ELSE b

\* The row to row delay looks at the bank itself only: the loop over the banks
\* reads activateTime[bank], not activateTime[i].  After an activation that lies
\* ahead the difference is negative: the page then opens sooner, even before the
\* precharge of the bank has ended.
ActivateBank(b, now) ==
    LET last == Latest(b.activateTime, 0)
        active == IF last + internal_row_to_row > now /\ last > 0
                  THEN now - last + RAS_latency + now
                  ELSE RAS_latency + now
    IN  [b EXCEPT !.state = BankActive,
                  !.activateTime = active + Latest(b.closeTime - now, 0)]

\* The tick at which the precharge command can go to a bank that is open.
PrechargeAt(b, now) ==
    CASE b.state = BankRead ->
             Latest(b.readyTime, now) + internal_read_to_precharge
      [] b.state = BankWritten ->
             Latest(b.readyTime, now) + data_time + write_recovery_time
      [] b.state = BankActive -> Latest(b.activateTime, now)

PrechargeBank(b, now) ==
    LET at == PrechargeAt(b, now)
        early == Latest(min_activate_to_precharge_latency - (at - b.activateTime), 0)
    IN  [b EXCEPT !.state = BankIdle,
                  !.closeTime = at + early + precharge_latency]

\* The tick at which an access may start in an open bank, as far as the bank's
\* activation goes, and the delay of turning it around after the other kind.
Opened(b, cmdLatency) ==
    IF b.state = BankActive THEN b.activateTime + cmdLatency ELSE b.readyTime

TurnToRead(b, now) ==
    Latest(internal_write_to_read + CAS_latency - (now - b.lastCmdFinish), 0)

TurnToWrite(b, now) ==
    Latest(read_to_write_turnaround + write_latency - (now - b.readyTime), 0)

\* Mutant: the data come without waiting for the page to open.
AccessEarly(b, now, to, cmdLatency, turn) ==
    [bank |-> [b EXCEPT !.state = to, !.readyTime = Opened(b, cmdLatency),
                        !.lastCmdFinish = now + data_time],
     latency |-> data_time]

\* An access: to is the state it leaves, turn the delay if the bank was in the
\* state of the other kind.
Access(b, now, to, cmdLatency, turn) ==
    LET turned  == b.state \notin {to, BankActive}
        opened  == Opened(b, cmdLatency)
        latency == data_time + (IF turned THEN turn ELSE 0) + Latest(opened - now, 0)
        ready   == IF b.state = to THEN Latest(opened, now) + data_time
                   ELSE IF turned THEN now + latency - data_time
                   ELSE opened
    IN  [bank |-> [b EXCEPT !.state = to, !.readyTime = ready,
                            !.lastCmdFinish = now + latency],
         latency |-> latency]

ReadBank(b, now) == Access(b, now, BankRead, CAS_latency, TurnToRead(b, now))
WriteBank(b, now) == Access(b, now, BankWritten, write_latency, TurnToWrite(b, now))
=============================================================================
