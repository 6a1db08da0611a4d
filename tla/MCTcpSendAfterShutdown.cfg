SPECIFICATION Spec

CONSTANTS
    KCheapPrend = 1
    kInitialSize = 2
    ExtraBuf = 2
    Byte <- MCByte
    Zero = 0
    CrossThread <- MCSend
    Callbacks <- MCCallbacks
    Lens <- MCLens
    SndBuf <- MCSndBuf
    HighWaterMark = 2
    MaxSent <- MCMaxSent
    MaxIn <- MCMaxIn

INVARIANT NoWriteAfterShutdown
CHECK_DEADLOCK FALSE
