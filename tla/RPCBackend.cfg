\* Batches of three ledgers from a server that keeps four.
CONSTANTS
    BufferSize = 3
    Ranges <- MCRanges
    NetworkTip = 7
    Retention = 4
    NoRange = NoRange
    NoLedger = NoLedger
SPECIFICATION FairStreamSpec
INVARIANTS
    BufferInStep
    StreamsTheRange
PROPERTIES
    ServesInOrder
    GetLedgerReturns
    Interruptible
CHECK_DEADLOCK FALSE
