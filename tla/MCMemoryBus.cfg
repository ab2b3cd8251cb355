SPECIFICATION BusSpec
CONSTANTS
    Banks = {0, 1}
    Pages <- MCPages
    BankOf <- MCBankOf
    OwnerOf <- MCOwnerOf
    Generator = Generator
    Cpu0 = Cpu0
    Configs <- MCConfigs
    ReadQueueSize = 1
    WriteQueueSize = 1
    MaxActive = 1
    Read = Read
    Writeback = Writeback
    Closed = Closed
    Nobody = Nobody
    Idle = Idle
    Now = Now
    Later = Later
    RAS_latency = 1
    CAS_latency = 1
    precharge_latency = 1
    min_activate_to_precharge_latency = 3
    write_latency = 1
    write_recovery_time = 2
    internal_write_to_read = 1
    internal_read_to_precharge = 1
    read_to_write_turnaround = 1
    internal_row_to_row = 1
    data_time = 1
    BankIdle = BankIdle
    BankActive = BankActive
    BankRead = BankRead
    BankWritten = BankWritten
    HitLatency = 1
    MaxTick = 10
    MaxAsked = 4
    NoEvent = NoEvent
INVARIANTS
    ReadyWhenServed
    ArbitrationInOrder
    NoArbitrationLoop
CHECK_DEADLOCK FALSE
