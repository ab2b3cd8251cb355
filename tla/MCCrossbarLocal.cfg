SPECIFICATION FairSpec
CONSTANTS
    Cpus = {0, 1}
    Banks = {0}
    Interfaces = {D0, D1}
    D0 = D0
    D1 = D1
    CpuOf <- TwoCpus
    QueueSize = 3
    Stages = 1
    Outstanding <- FourAndOne
    Squashing = {D0}
    Read = Read
    Writeback = Writeback
INVARIANTS EveryWantHasEvent
PROPERTIES NoStarvation WantsAreFetched
