CONSTANTS
    c1 = c1
    c2 = c2
    Caller = {c1, c2}
    g = g
    w = w
    Uid = {g, w}
    Hub = {g}
    NoUid = NoUid
    None = None
    Profile <- AllProfiles
    Level = {1, 128}
    Kelvin = {6000}
    Temp = {16, 30}
    Percentage = {10, 50, 51}
    Position = {0, 49, 50}
    MaxAsks = 2
    MaxChanges = 1
    MaxReports = 2
SYMMETRY Symmetry
SPECIFICATION Spec
INVARIANTS
    TypeOK
    
    OutcomeIsTrue
PROPERTY
    SettingsLostOnlyWhenStale
CHECK_DEADLOCK FALSE
