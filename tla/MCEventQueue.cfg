SPECIFICATION Spec
CONSTANTS
    tick = tick
    done = done
    once = once
    Events <- MCEvents
    AutoDelete <- MCAutoDelete
    Persistent <- MCPersistent
    Priorities <- MCPriorities
    InitPrio <- MCInitPrio
    MaxTick = 2
    Setup = Setup
    Loop = Loop
    Poll = Poll
    Exited = Exited
    NoCheckpoint = NoCheckpoint
INVARIANTS
    PendingIsAlive
    RestoredExactly
PROPERTIES
    LastInFirstOut
    PoolSpec
CHECK_DEADLOCK FALSE
