SPECIFICATION Spec
CONSTANTS
    Cpus = {0, 1}
    Banks = {0, 1}
    Interfaces = {D0, D1}
    D0 = D0
    D1 = D1
    CpuOf <- TwoCpus
    QueueSize = 3
    Stages = 2
    Outstanding <- TwoEach
    Squashing = {}
    Read = Read
    Writeback = Writeback
INVARIANTS BufferFits WorkIsScheduled
PROPERTIES ChannelSpec
