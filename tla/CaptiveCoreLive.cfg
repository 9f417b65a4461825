\* Liveness: every call and every cleanup ends.
CONSTANTS
    CheckpointFrequency = 4
    ReadAhead = 1
    PipeSize = 1
    NetworkTip = 3
    Forks = {1}
    LatestCheckpoints = {7}
    Ranges <- MCLive
    NoRange = NoRange
    NoLedger = NoLedger
    NoHash = NoHash
SPECIFICATION FairSpec
PROPERTIES 
    GetLedgerReturns
    CloseFinishes
    CleanupFinishes
CHECK_DEADLOCK FALSE
