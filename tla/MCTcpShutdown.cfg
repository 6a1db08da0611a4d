SPECIFICATION ReceivingSpec

CONSTANTS
    KCheapPrend = 1
    kInitialSize = 2
    ExtraBuf = 2
    Byte <- MCByte
    Zero = 0
    CrossThread <- MCNone
    Callbacks <- MCCallbacks
    Lens <- MCLens
    SndBuf <- MCSndBuf
    HighWaterMark = 2
    MaxSent <- MCMaxSent
    MaxIn <- MCMaxIn

PROPERTY ShutdownClosesWriteEnd
CHECK_DEADLOCK FALSE
