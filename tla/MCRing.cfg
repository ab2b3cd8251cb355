SPECIFICATION FairSpec
CONSTANTS
    cpu_count = 2
    sharedCacheBankCount = 2
    Hop = 2
    numberOfRequestRings = 1
    numberOfResponseRings = 1
    queueSize = 2
    recvBufferSize = 2
    Traffic <- MCTraffic
    Outstanding <- TwoAndOne
    Read = Read
    Writeback = Writeback
    Clockwise = Clockwise
    Counterclockwise = Counterclockwise
    Idle = Idle
    Due = Due
    Soon = Soon
    Off = Off
    Requests = Requests
    Responses = Responses
INVARIANTS
    TransfersNeverMeet
    RecvBufferFits
PROPERTIES
    ChannelSpec
    NoStarvation
