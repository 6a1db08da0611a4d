SPECIFICATION Spec

CONSTANTS
    MaxThreads = 2
    MaxConns = 2
    MaxFds = 2
    Starters <- MCAnyThread

INVARIANT StartIsThreadSafe
CHECK_DEADLOCK FALSE
