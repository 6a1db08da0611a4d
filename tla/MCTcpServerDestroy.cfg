SPECIFICATION FairSpec

CONSTANTS
    MaxThreads = 2
    MaxConns = 1
    MaxFds = 1
    Starters <- MCOwner

PROPERTY DestructorReturns

\* the server may be destroyed, and nothing is left to happen
CHECK_DEADLOCK FALSE
