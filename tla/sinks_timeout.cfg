SPECIFICATION Spec
CONSTANTS
    f1 = f1
    f2 = f2
    archive = archive
    alert = alert
    Files = {f1}
    MaxBatches = 1
    Sinks <- MCSinks
    Wanted <- MCWanted
    Known = {archive, alert}
    MaxAttempts = 1
    PageSize = 1
    MaxFaults = 1
PROPERTY FailsOnlyUnparked
CHECK_DEADLOCK FALSE
