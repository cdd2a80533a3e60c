CONSTANTS
    Threads = {t1, t2}
    Names = {tty0}
    Fds = {fd3, fd4}
    MaxCalls = 2
    Nobody = Nobody
    Closed = Closed
SPECIFICATION Spec
INVARIANT OpenReportsItsHandle
