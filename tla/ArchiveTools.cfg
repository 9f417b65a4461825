\* Two commands, two failures, an archive of two checkpoints that share a bucket.
CONSTANTS
    w1 = w1
    w2 = w2
    Workers = {w1, w2}
    CheckpointFrequency = 64
    Chks <- MCChks
    BucketsOf <- MCBucketsOf
    SrcRoot = 127
    SrcGaps <- MCSrcGaps
    DstGaps <- MCDstGaps
    Options <- MCOptions
    MaxCommands = 2
    MaxFaults = 2
    None = None
SYMMETRY Symmetry
SPECIFICATION Spec
INVARIANTS
    CompleteOnSuccess
    ScanTellsTruth
    NoSharedWrites
CHECK_DEADLOCK FALSE
