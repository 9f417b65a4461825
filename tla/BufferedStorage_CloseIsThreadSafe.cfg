\* A Close that overtakes a GetLedger in its decompression.
CONSTANTS
    w1 = w1
    w2 = w2
    Workers = {w1, w2}
    LedgersPerFile = 2
    MaxUint32 = 15
    BufferSize = 2
    BufferBytes = 0
    BatchSizes = {2}
    RetryLimit = 0
    Ranges <- MCUnbounded
    LastPublished = 5
    NoRange = NoRange
    NoBatch = NoBatch
    NoLedger = NoLedger
SPECIFICATION Spec
INVARIANT CloseIsThreadSafe
CHECK_DEADLOCK FALSE
