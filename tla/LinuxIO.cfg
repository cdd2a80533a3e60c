CONSTANTS
    Lengths = {0, 3}
    Timeouts = {0, 2}
    Capacity = 2
    Lines = {rts, dtr}
    MaxCalls = 2
    MaxSignals = 1
    MaxStalls = 1
    MaxRivals = 1
    MaxArrivals = 2
SPECIFICATION FairSpec
INVARIANTS
    TypeOK
    WrittenIsAPrefix
    BackInTime
    TimesOutInTime
    EmptyReadsAreExplained
    SignalsAsAsked
PROPERTIES
    TimedCallsReturn
CHECK_DEADLOCK FALSE
