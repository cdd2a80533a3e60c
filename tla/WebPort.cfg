CONSTANTS
    Apps = {a1}
    Readers = {r1, r2}
    Writers = {w1, w2}
    None = None
    MaxOpens = 3
    MaxBytes = 1
SPECIFICATION FairSpec
INVARIANTS
    TypeOK
    NoLostPort
    LoopEndsBeforeItsStream
    NoMissedNotification
PROPERTIES
    EveryCloseReturns
CHECK_DEADLOCK FALSE
