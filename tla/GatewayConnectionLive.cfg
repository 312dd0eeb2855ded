CONSTANTS
    u1 = u1
    u2 = u2
    User = {u1, u2}
    Uncorrelated = {u1, u2}
    AllowMissingUid = FALSE
    None = None
SPECIFICATION FairSpec
PROPERTIES
    SilentGatewayDetected
    EveryCallEnds
CHECK_DEADLOCK FALSE
