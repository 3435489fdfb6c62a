SPECIFICATION Spec
CONSTANTS
    MaxHours = 4
    Volume <- MCVolume
    Busy = {1}
    Retain = 2
    KeepRows = 1
    Froms = {"beginning", "end"}
    Windows = {"unset"}
    EmptyMarkers = {"hour", "begin"}
    MaxFaults = 1
INVARIANTS
    TypeOK
    NothingPassedOver
    ReadOnce
PROPERTY EventuallyRead
