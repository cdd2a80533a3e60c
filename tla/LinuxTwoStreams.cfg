\* Two ports are open at the same time and share the one event channel.
CONSTANTS
    Ports = {ttyA, ttyB}
    MaxBytes = 1
    MaxOpens = 2
    MaxLate = 0
    Together = TRUE
    None = None
SPECIFICATION FairSpec
PROPERTIES
    BytesReachTheApplication
CHECK_DEADLOCK FALSE
