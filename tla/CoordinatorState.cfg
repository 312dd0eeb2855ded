CONSTANTS
    d1 = d1
    Device = {d1}
    Door = Door
    Level = Level
    Path = {Door, Level}
    Clash = {}
    Value <- MCValue
    Missing = Missing
    MaxChanges = 3
    MaxTime = 4
SPECIFICATION Spec
INVARIANTS
    TypeOK
    UnpublishedOnlyInDebounce
PROPERTIES
    DoorNeverRollsBack
    RefreshRepairs
CHECK_DEADLOCK FALSE
