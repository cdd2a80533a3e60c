CONSTANTS
    Calls = {c1, c2}
    Objects = {o1, o2}
    Names = {ttyA, ttyB}
    MaxRequests = 5
    Overlap = FALSE
    None = None
SPECIFICATION FairSpec
INVARIANTS
    TypeOK
    IsOpenTellsTheTruth
    ListenersMatch
    ServedByOwnOpening
PROPERTIES
    OpenPortsStayInHand
    LifecycleCallsReturn
CHECK_DEADLOCK FALSE
