\* Liveness: every call that is waiting ends.
CONSTANTS
    w1 = w1
    w2 = w2
    Workers = {w1, w2}
    LedgersPerFile = 2
    MaxUint32 = 15
    BufferSize = 2
    BufferBytes = 2
    BatchSizes = {1, 4}
    RetryLimit = 0
    Ranges <- MCTwo
    LastPublished = 5
    NoRange = NoRange
    NoBatch = NoBatch
    NoLedger = NoLedger
SPECIFICATION FairSpec
PROPERTIES
    GetLedgerReturns
    CloseFinishes
    CloseInterrupts
CHECK_DEADLOCK FALSE
