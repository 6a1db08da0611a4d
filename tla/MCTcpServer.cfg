SPECIFICATION FairSpec

CONSTANTS
    MaxThreads = 2
    MaxConns = 3
    MaxFds = 2
    Starters <- MCOwner

INVARIANTS
    TypeOK
    LoopsAreLive
    LoadIsBalanced
    NothingOutlivesServer
    UpBeforeDown
    DestroyedOnce

PROPERTIES
    StartReturns
    LoopingThreadIsJoined
    ClientsAreServed
    DispatchIsSafe

\* the server may be destroyed, and nothing is left to happen
CHECK_DEADLOCK FALSE
