CONSTANTS
    Ports = {ttyA}
    MaxBytes = 2
    MaxOpens = 2
    MaxLate = 2
    Together = FALSE
    None = None
SPECIFICATION FairSpec
INVARIANTS
    TypeOK
    OneTimer
    BytesInOrder
PROPERTIES
    BytesReachTheApplication
    HangUpIsReported
CHECK_DEADLOCK FALSE
