SPECIFICATION Spec
CONSTANTS
    MaxLines = 4
    ChunkLines = 2
    Batches = {0, 2}
    Multiline = {TRUE}
    From = {"beginning"}
    Parallel = {FALSE}
    Configs <- MCConfigs
    MaxFaults = 1
    Segment = 2
    Reads = 3
    FileBytes = 8
INVARIANT OneBatchExposed
