CONSTANTS
    f1 = f1
    f2 = f2
    p1 = p1
    p2 = p2
    Family = {f1, f2}
    Password = {p1, p2}
    None = None
SPECIFICATION FairSpec
INVARIANTS
    TypeOK
    FailuresAreBlamedRightly
    AtMostSevenRequests
PROPERTY
    RecoversWithServer
