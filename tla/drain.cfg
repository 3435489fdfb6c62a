SPECIFICATION Spec
CONSTANTS
    MaxLines = 5
    ChunkLines = 2
    Batches = {0, 2}
    Multiline = {TRUE, FALSE}
    From = {"beginning", "end"}
    Parallel = {TRUE, FALSE}
    Configs <- MCConfigs
    MaxFaults = 1
    Segment = 2
    Reads = 3
    FileBytes = 8
INVARIANTS
    TypeOK
    NoLoss
    NoGap
    WholeEntries
    DuplicatesNeedFaults
    TwoBatchesExposed
PROPERTIES
    CheckpointMonotone
    ImplementsAtLeastOnce
    EventuallyDelivered
