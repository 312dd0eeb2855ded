CONSTANTS
    d1 = d1
    onoff = onoff
    onoffStatus = onoffStatus
    level = level
    v1 = v1
    v2 = v2
    Device = {d1}
    Path <- MCPath
    Clash <- MCClash
    Value = {v1, v2}
    Missing = Missing
    Update <- MCUpdate
    MaxWrites = 3
SPECIFICATION Spec
INVARIANTS
    TypeOK
    FieldsHoldNewest
    ValuesComeFromWrites
