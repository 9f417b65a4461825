\* Two workers, objects of two ledgers, a buffer of two objects with a byte cap.
CONSTANTS
    w1 = w1
    w2 = w2
    w3 = w3
    Workers = {w1, w2}
    LedgersPerFile = 2
    MaxUint32 = 63
    BufferSize = 2
    BufferBytes = 4
    BatchSizes = {1, 8}
    RetryLimit = 1
    Ranges <- MCRanges
    LastPublished = 9
SYMMETRY Symmetry
SPECIFICATION BufferSpec
INVARIANTS
    BufferTypeOK
    DeliveredInOrder
    ExactlyOnce
    DepthBounded
CHECK_DEADLOCK FALSE
