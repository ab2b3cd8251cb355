SPECIFICATION FairSpec
CONSTANTS
    I0 = I0
    D0 = D0
    Interfaces = {I0, D0}
    queueSize = 2
    transferDelay = 2
    Outstanding <- MCOutstanding
    slaveMSHRs = 1
    Squashing = {I0}
    Read = Read
    Writeback = Writeback
INVARIANTS
    OneIsBuffered
    WorkIsScheduled
    ResponsesFit
PROPERTIES
    ChannelSpec
    QueueMoves
