SPECIFICATION Spec
CONSTANTS
    Banks = {0, 1, 2}
    Pages <- MCPages
    BankOf <- MCBankOf
    OwnerOf <- MCOwnerOf
    Generator = Generator
    Cpu0 = Cpu0
    Cpu1 = Cpu1
    Configs <- ClosedWithThreshold
    ReadQueueSize = 2
    WriteQueueSize = 2
    MaxActive = 2
    Read = Read
    Writeback = Writeback
    Closed = Closed
    Nobody = Nobody
    Idle = Idle
    Now = Now
    Later = Later
INVARIANTS ClosedNeverForced
