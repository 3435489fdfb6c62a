SPECIFICATION Spec
CONSTANTS
    MaxLines = 3
    ChunkLines = 2
    Batches = {0}
    Multiline = {TRUE}
    From = {"end"}
    Parallel = {FALSE}
    Configs <- MCConfigs
    MaxFaults = 1
    Segment = 2
    Reads = 3
    FileBytes = 8
PROPERTY AnchorHonoured
