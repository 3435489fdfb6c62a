SPECIFICATION Spec
CONSTANTS
    MaxLines = 4
    Text <- AllDifferent
    ChunkLines = 2
    RewindLines = 2
    RingLines = 4
    Margin = 1
    DedupWindow = 2
    Lookback = 2
    EventDelay = 0
    EventLead = 0
    EventLag = 0
    TailLines = 1
    RestartGap = 2
    MaxRestarts = 1
    MaxClock = 1
    MaxFaults = 1
INVARIANTS
    TypeOK
    NoKeptLineMissedIfMarked
    DuplicatesNeedFaults
    
PROPERTY EventuallyDelivered
