SPECIFICATION Spec
CONSTANTS
    Realtime = realtime
    Running = running
    Files <- MCFiles
    Checkpoints <- MCCheckpoints
    NotFound = NotFound
    MaxLines = 3
    OldLines = 1
    Froms = {"beginning", "end"}
    Backends = {"sqlite", "file", "memory"}
    TTL = 1
    RecentMax = 2
    MaxClock = 3
    MaxFaults = 1
INVARIANTS
    TypeOK
    AckedSurvives
    NoErrorLost
    DuplicatesNeedFaults
    HistoryStays
PROPERTY EventuallyShipped
