CONSTANTS
    c1 = c1
    c2 = c2
    k1 = k1
    k2 = k2
    Client = {c1, c2}
    Credentials = {k1, k2}
    MaxEvents = 2
    MaxInbox = 2
    None = None
SPECIFICATION FairSpec
INVARIANTS
    TypeOK
    SessionUsesCurrentCredentials
    NoOrphanClient
PROPERTIES
    EventsInOrder
    KeepsReconnecting
    OwnersReturn
