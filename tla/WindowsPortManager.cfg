CONSTANTS
    Threads = {t1, t2}
    Devices = {com1, com3}
    Ports = {p1, p2, p3}
    MaxCalls = 4
    Nobody = Nobody
    Invalid = Invalid
SPECIFICATION FairSpec
INVARIANTS
    TypeOK
    OneOpenPortPerDevice
    HandleOutlivesItsUse
    ListingIsASnapshot
PROPERTIES
    CallsAreRegular
    EveryCallReturns
CHECK_DEADLOCK FALSE
