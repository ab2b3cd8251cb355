------------------------------ MODULE Channels ------------------------------
(***************************************************************************)
(* What an interconnect between private caches and the banks of a shared   *)
(* cache promises: a processor's requests reach a bank in the order they   *)
(* were sent, each once, and every read is answered once.                  *)
(***************************************************************************)
EXTENDS Integers, FiniteSets, SequencesExt

CONSTANTS Cpus, Banks, Interfaces, CpuOf, Read

VARIABLES
    channel,      \* what a processor has sent to a bank and the bank has not got
    serving,      \* the reads a bank has got and not answered, for each interface
    returning     \* the answers on their way to an interface

vars == <<channel, serving, returning>>

Init ==
    /\ channel = [c \in Cpus |-> [b \in Banks |-> <<>>]]
    /\ serving = [b \in Banks |-> [i \in Interfaces |-> 0]]
    /\ returning = [i \in Interfaces |-> 0]

\* Several processors may send several requests in one step.
Send ==
    /\ UNCHANGED <<serving, returning>>
    /\ \A p \in {<<channel[c][b], channel'[c][b]>> : c \in Cpus, b \in Banks} :
           IsPrefix(p[1], p[2])

Reads(s, i) == Cardinality({n \in DOMAIN s : s[n].from = i /\ s[n].cmd = Read})

\* A bank takes some of the requests at the heads of its channels.
Take(b) ==
    LET taken == [c \in Cpus |-> Len(channel[c][b]) - Len(channel'[c][b])]
    IN  /\ UNCHANGED returning
        /\ \A c \in Cpus : taken[c] >= 0
        /\ channel' = [c \in Cpus |-> [channel[c] EXCEPT ![b] = SubSeq(@, taken[c] + 1, Len(@))]]
        /\ serving' = [serving EXCEPT ![b] = [i \in Interfaces |->
                @[i] + Reads(SubSeq(channel[CpuOf[i]][b], 1, taken[CpuOf[i]]), i)]]

Answer(b, i) ==
    /\ serving[b][i] > 0
    /\ serving' = [serving EXCEPT ![b][i] = @ - 1]
    /\ returning' = [returning EXCEPT ![i] = @ + 1]
    /\ UNCHANGED channel

Receive(i) ==
    /\ returning[i] > 0
    /\ returning' = [returning EXCEPT ![i] = @ - 1]
    /\ UNCHANGED <<channel, serving>>

Next ==
    \/ Send
    \/ \E i \in Interfaces : Receive(i) \/ \E b \in Banks : Answer(b, i)
    \/ \E b \in Banks : Take(b)

Spec == Init /\ [][Next]_vars
=============================================================================
