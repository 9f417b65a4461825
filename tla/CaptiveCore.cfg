\* Safety: an offline and an online range, prepared again and again.
CONSTANTS
    CheckpointFrequency = 4
    ReadAhead = 1
    PipeSize = 1
    NetworkTip = 6
    Forks = {1, 2}
    LatestCheckpoints = {7}
    Ranges <- MCRanges
    NoRange = NoRange
    NoLedger = NoLedger
    NoHash = NoHash
SPECIFICATION Spec
INVARIANTS
    CursorsAgree
    StartsInReach
    NothingLeftRunning
    PipeNeverClosesFirst
PROPERTY OneChain
CHECK_DEADLOCK FALSE
