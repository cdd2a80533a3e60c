CONSTANTS
    Threads = {t1, t2}
    Names = {tty0, tty1}
    Fds = {fd3, fd4, fd5}
    MaxCalls = 3
    Nobody = Nobody
    Closed = Closed
SPECIFICATION FairSpec
INVARIANTS
    TypeOK
    OnePortPerName
    DescriptorsAccounted
    ConsistentLifetime
PROPERTIES
    CallsAreAtomic
    EveryCallReturns
