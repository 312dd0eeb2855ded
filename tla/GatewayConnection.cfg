CONSTANTS
    u1 = u1
    u2 = u2
    User = {u1, u2}
    Uncorrelated = {u2}
    AllowMissingUid = TRUE
    None = None
SPECIFICATION Spec
INVARIANTS
    TypeOK
    NoWaiterOnDeadTransport
    NothingLeftBehind
    AnswersMatch
    NoOrphanTransport
    OnlyTheExpectedGateway
PROPERTY ImplementsSession
CHECK_DEADLOCK FALSE
