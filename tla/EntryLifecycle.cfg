CONSTANTS
    e1 = e1
    e2 = e2
    c1 = c1
    c2 = c2
    Entry = {e1, e2}
    Busy = {e1}
    Coord = {c1, c2}
    MaxReloads = 2
    None = None
SPECIFICATION Spec
INVARIANTS
    TypeOK
    NoOrphanCoordinator
    RegistrationsFollowLoad
PROPERTY
    ClosedStartsNothing
