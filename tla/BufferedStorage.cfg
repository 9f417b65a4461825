\* Safety: three ranges, re-preparation, failures and Close at any time.
CONSTANTS
    w1 = w1
    w2 = w2
    Workers = {w1, w2}
    LedgersPerFile = 2
    MaxUint32 = 15
    BufferSize = 2
    BufferBytes = 0
    BatchSizes = {2}
    RetryLimit = 0
    Ranges <- MCRanges
    LastPublished = 7
    NoRange = NoRange
    NoBatch = NoBatch
    NoLedger = NoLedger
SYMMETRY Symmetry
SPECIFICATION Spec
INVARIANTS
    TypeOK
    CursorFollowsServed
PROPERTY ServesInOrder
CHECK_DEADLOCK FALSE
