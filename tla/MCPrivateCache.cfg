SPECIFICATION CacheSpec
CONSTANTS
    I0 = I0
    D0 = D0
    Interfaces = {I0, D0}
    queueSize = 2
    transferDelay = 2
    Outstanding <- MCOutstanding
    slaveMSHRs = 2
    Squashing = {I0}
    Blocks = {b1, b2}
    Mshrs = {m1, m2}
    NumTargets = 2
    WriteBuffers = 1
    WbSpare = 5
    Read = Read
    Write = Write
    Writeback = Writeback
    NoMSHRs = NoMSHRs
    NoTargets = NoTargets
    NoWBBuffers = NoWBBuffers
    RequestMSHR = RequestMSHR
    RequestWB = RequestWB
    Free = Free
    NoMshr = NoMshr
    NoBlock = NoBlock
    Mixed = Mixed
INVARIANTS
    LinkKnows
    ReadsAreHeld
PROPERTIES
    LinkSpec
    ReadsComeBack
