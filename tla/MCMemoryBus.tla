----------------------------- MODULE MCMemoryBus -----------------------------
(* Small instances of MemoryBus: two banks, short latencies.                 *)
EXTENDS MemoryBus, TLC

CONSTANTS Cpu0

MCPages == 1..3
MCBankOf == (1 :> 0) @@ (2 :> 0) @@ (3 :> 1)
MCOwnerOf == [p \in MCPages |-> Cpu0]

With(closed, threshold) ==
    [closedPagePolicy |-> closed, equalReadWritePri |-> TRUE,
     starvationPreventionThreshold |-> threshold, infiniteWriteBW |-> FALSE,
     asr |-> FALSE, load |-> 0,
     traffic |-> {<<Read, 1>>, <<Read, 3>>, <<Writeback, 2>>}]

MCConfigs == {With(TRUE, Unlimited), With(FALSE, 0), With(FALSE, 1)}
=============================================================================
