SPECIFICATION Spec
CONSTANTS
    MaxLines = 4
    Text <- AllDifferent
    ChunkLines = 2
    RewindLines = 2
    RingLines = 4
    Margin = 2
    DedupWindow = 3
    Lookback = 2
    EventDelay = 1
    EventLead = 1
    EventLag = 1
    TailLines = 1
    RestartGap = 5
    MaxRestarts = 1
    MaxClock = 2
    MaxFaults = 0
INVARIANT NoKeptLineMissed
