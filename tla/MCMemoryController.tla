-------------------------- MODULE MCMemoryController --------------------------
(***************************************************************************)
(* Instances of MemoryController: three banks of which two may be active,  *)
(* pages that share a bank, and one page of the traffic generator.          *)
(***************************************************************************)
EXTENDS MemoryController, TLC

CONSTANTS Cpu0, Cpu1

MCPages == 1..5
MCBankOf == (1 :> 0) @@ (2 :> 0) @@ (3 :> 1) @@ (4 :> 2) @@ (5 :> 1)
MCOwnerOf == (1 :> Cpu0) @@ (2 :> Cpu1) @@ (3 :> Cpu1) @@ (4 :> Cpu0)
             @@ (5 :> Generator)

Writebacks == {<<Writeback, 2>>, <<Writeback, 4>>}
OneBank == {<<Read, 1>>, <<Writeback, 2>>}
Conflicting == {<<Read, 1>>} \union Writebacks
ThreeBanks == {<<Read, 1>>, <<Read, 3>>, <<Writeback, 4>>}
FromCaches == {<<Read, 3>>} \union Conflicting

With(closed, fcfs, threshold, inf, asr, load, traffic) ==
    [closedPagePolicy |-> closed, equalReadWritePri |-> fcfs,
     starvationPreventionThreshold |-> threshold, infiniteWriteBW |-> inf,
     asr |-> asr, load |-> load, traffic |-> traffic]

\* Both page policies, alone, with a threshold and with a processor that has
\* priority, and variants of the default.  The generator has the reads to itself:
\* with other reads it overfills the queue.
MCConfigs ==
    {With(TRUE, TRUE, Unlimited, FALSE, FALSE, 0, Conflicting),
     With(TRUE, TRUE, Unlimited, TRUE, FALSE, 0, Conflicting),
     With(TRUE, FALSE, Unlimited, FALSE, FALSE, 0, Conflicting),
     With(TRUE, TRUE, Unlimited, FALSE, FALSE, 1, Writebacks),
     With(TRUE, TRUE, 1, FALSE, FALSE, 0, Conflicting),
     With(TRUE, TRUE, Unlimited, FALSE, TRUE, 0, OneBank),
     With(TRUE, TRUE, Unlimited, FALSE, TRUE, 0, ThreeBanks),
     With(FALSE, TRUE, 1, FALSE, FALSE, 0, ThreeBanks),
     With(FALSE, TRUE, 0, FALSE, FALSE, 0, Conflicting),
     With(FALSE, TRUE, 2, FALSE, FALSE, 0, Conflicting),
     With(FALSE, FALSE, Unlimited, FALSE, FALSE, 0, Conflicting),
     With(FALSE, TRUE, Unlimited, FALSE, TRUE, 0, OneBank)}

\* The default page policy with a threshold set, as run.py allows.
ClosedWithThreshold == {With(TRUE, TRUE, 1, FALSE, FALSE, 0, FromCaches)}

\* The default page policy under the ASR policy.
ClosedWithPriority == {With(TRUE, TRUE, Unlimited, FALSE, TRUE, 0, OneBank)}

\* Background traffic beside the reads of the caches.
WithGenerator == {With(TRUE, TRUE, Unlimited, FALSE, FALSE, 2, FromCaches)}
=============================================================================
