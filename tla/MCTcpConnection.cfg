SPECIFICATION FairSpec

CONSTANTS
    KCheapPrend = 1
    kInitialSize = 2
    ExtraBuf = 2
    Byte <- MCByte
    Zero = 0
    CrossThread <- MCCrossThread
    Callbacks <- MCCallbacks
    Lens <- MCLens
    SndBuf <- MCSndBuf
    HighWaterMark = 2
    MaxSent <- MCMaxSent
    MaxIn <- MCMaxIn

INVARIANTS
    TypeOK
    StreamInOrder
    OutputIsWatched
    EndIsReported
    CloseFindsServer

PROPERTIES
    UsesPoller
    ImplementsConnection
    OnlyLateShutdownReopens
    OutputDrains
    EndIsCleanedUp

\* the process may end: a signal, a fatal log
CHECK_DEADLOCK FALSE
