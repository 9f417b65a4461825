\* Every legal history of two keys in three buckets, live and hot.
CONSTANTS
    Keys <- MCKeys
    UniqueKeys <- MCUniqueKeys
    Readers <- MCReaders
    Buckets = 3
    BufferSize = 1
    MaxStreamRetries = 1
    MaxFaults = 2
    MaxRecords = 3
    None = None
SPECIFICATION FairSpec
INVARIANTS
    SnapshotExact
PROPERTIES
    ErrorIsFinal
    ReadReturns
    GoroutineEnds
CHECK_DEADLOCK FALSE
