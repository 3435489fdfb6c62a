SPECIFICATION Spec
CONSTANTS
    f1 = f1
    f2 = f2
    archive = archive
    alert = alert
    Files = {f1, f2}
    MaxBatches = 2
    Sinks <- MCSinks
    Wanted <- MCWanted
    Known = {archive}
    MaxAttempts = 2
    PageSize = 1
    MaxFaults = 2
INVARIANTS
    TypeOK
    NothingDropped
    DuplicatesNeedFaults
PROPERTY EventuallyDelivered
CHECK_DEADLOCK FALSE
