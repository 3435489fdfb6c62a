SPECIFICATION Spec
CONSTANTS
    MaxHours = 4
    Volume <- MCVolume
    Busy = {1}
    Retain = 2
    KeepRows = 1
    Froms = {"beginning"}
    Windows = {"undrained"}
    EmptyMarkers = {"hour"}
    MaxFaults = 1
INVARIANT NothingPassedOver
