SPECIFICATION Spec
CONSTANTS
    MaxLines = 3
    Text <- AllDifferent
    ChunkLines = 2
    RewindLines = 2
    RingLines = 3
    Margin = 2
    DedupWindow = 3
    Lookback = 2
    EventDelay = 0
    EventLead = 1
    EventLag = 1
    TailLines = 1
    RestartGap = 5
    MaxRestarts = 2
    MaxClock = 5
    MaxFaults = 0
INVARIANTS
    NoKeptLineMissedIfMarked
    OneNoticePerRestart
