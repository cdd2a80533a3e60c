\* readUntil and the event pump read the same port.
CONSTANTS
    Ports = {ttyA}
    MaxBytes = 3
    MaxOpens = 1
    MaxLate = 0
    Together = FALSE
    None = None
SPECIFICATION Spec
INVARIANTS
    ReadUntilSeesEveryByte
CHECK_DEADLOCK FALSE
