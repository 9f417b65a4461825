\* Ledgers of up to six changes to two entries, in both configurations.
CONSTANTS
    data = data
    ttl = ttl
    Null = Null
    Keys <- MCKeys
    TtlKeys <- MCTtlKeys
    Values <- MCValues
    MaxChanges = 6
    Ledgers <- MCLedgers
SPECIFICATION ReaderSpec
INVARIANTS
    TypeOK
    SquashCorrect
    TypesFitStore
    PreIsBeforeLedger
    RejectsExactly
    ReadsEachChangeOnce
CHECK_DEADLOCK FALSE
