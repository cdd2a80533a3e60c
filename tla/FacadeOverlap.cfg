\* Two overlapping calls of open() on one SerialPort object.
CONSTANTS
    Calls = {c1, c2}
    Objects = {o1}
    Names = {ttyA}
    MaxRequests = 3
    Overlap = TRUE
    None = None
SPECIFICATION Spec
INVARIANTS
    IsOpenTellsTheTruth
CHECK_DEADLOCK FALSE
