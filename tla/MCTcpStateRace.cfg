SPECIFICATION Spec

CONSTANTS
    KCheapPrend = 1
    kInitialSize = 2
    ExtraBuf = 2
    Byte <- MCByte
    Zero = 0
    CrossThread <- MCBoth
    Callbacks = {}
    Lens <- MCLens
    SndBuf <- MCSndBuf
    HighWaterMark = 2
    MaxSent <- MCMaxSent
    MaxIn <- MCMaxIn

PROPERTY DisconnectedIsFinal
CHECK_DEADLOCK FALSE
