SPECIFICATION Spec
CONSTANTS
    i1 = i1
    i2 = i2
    broken = broken
    Instances = {i1, i2, broken}
    Unbuildable = {broken}
    Dynamic = {TRUE, FALSE}
    Concurrency = {0, 1}
    MaxDynamicWorkers = 3
    MaxChanges = 2
INVARIANTS
    TypeOK
    OneWorkerPerInstance
    SlotsRespected
PROPERTIES
    FleetIsTailed
    DepartedStops
    ShutdownEnds
CHECK_DEADLOCK FALSE
