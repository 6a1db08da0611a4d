SPECIFICATION Spec

CONSTANTS
    KCheapPrend = 1
    kInitialSize = 2
    ExtraBuf = 2
    Byte <- MCByte
    Zero = 0
    MaxChunk = 2
    MaxSize = 6

INVARIANT AppendAddsToReadable
CHECK_DEADLOCK FALSE
