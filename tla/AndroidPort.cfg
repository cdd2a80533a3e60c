CONSTANTS
    Apps = {a1}
    Readers = {r1}
    Users = {u1}
    Receiver = Receiver
    Engine = Engine
    Loop = Loop
    None = None
    MaxOpens = 2
    MaxBytes = 1
SPECIFICATION FairSpec
INVARIANTS
    TypeOK
    NoLostConnection
    NothingAfterClosed
PROPERTIES
    ReadersOfClosedPortsReturn
    EveryCallReturns
CHECK_DEADLOCK FALSE
