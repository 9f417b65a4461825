\* A dry run of Mirror.
CONSTANTS
    w1 = w1
    w2 = w2
    Workers = {w1, w2}
    CheckpointFrequency = 64
    Chks <- MCChks
    BucketsOf <- MCBucketsOf
    SrcRoot = 127
    SrcGaps <- MCSrcGaps
    DstGaps <- MCDstGaps
    Options <- MCOptions
    MaxCommands = 2
    MaxFaults = 0
    None = None
SPECIFICATION Spec
PROPERTY DryRunWritesNothing
CHECK_DEADLOCK FALSE
