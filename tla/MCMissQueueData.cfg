SPECIFICATION FairSpec
CONSTANTS
    Blocks = {b1, b2}
    Threads = {t1}
    Mshrs = {m1, m2, m3}
    MaxMSHRs = 3
    NumTargets = 3
    WriteBuffers = 2
    WbSpare = 5
    Uncached = {Read, Write}
    Fetches = FALSE
    Coherent = TRUE
    Limits = {1, 2, 3}
    Read = Read
    Write = Write
    Writeback = Writeback
    NoMSHRs = NoMSHRs
    NoTargets = NoTargets
    NoWBBuffers = NoWBBuffers
    RequestMSHR = RequestMSHR
    RequestWB = RequestWB
    Free = Free
    NoMshr = NoMshr
    NoBlock = NoBlock
    Mixed = Mixed
INVARIANTS
    BlockedForCause
    PendingIsUnsent
    OneMissPerBlock
    WritebacksFit
PROPERTIES
    WakesUp
    MissAnswered
