CONSTANTS
    Lengths = {1, 2}
    Timeouts = {0}
    Capacity = 1
    Lines = {}
    MaxCalls = 1
    MaxSignals = 0
    MaxStalls = 0
    MaxRivals = 1
    MaxArrivals = 1
SPECIFICATION Spec
INVARIANT ZeroMeansNoTimeout
CHECK_DEADLOCK FALSE
