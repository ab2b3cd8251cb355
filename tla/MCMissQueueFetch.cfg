SPECIFICATION Spec
CONSTANTS
    Blocks = {b1, b2, b3}
    Threads = {t1, t2, t3}
    Mshrs = {m1, m2, m3}
    MaxMSHRs = 3
    NumTargets = 3
    WriteBuffers = 1
    WbSpare = 2
    Uncached = {}
    Fetches = TRUE
    Coherent = FALSE
    Limits = {}
    Read = Read
    Write = Write
    Writeback = Writeback
    NoMSHRs = NoMSHRs
    NoTargets = NoTargets
    NoWBBuffers = NoWBBuffers
    RequestMSHR = RequestMSHR
    RequestWB = RequestWB
    Free = Free
    NoMshr = NoMshr
    NoBlock = NoBlock
    Mixed = Mixed
INVARIANTS
    BlockedForCause
    SquashOnlyOwn
SYMMETRY MshrSymmetry
