SPECIFICATION Spec

CONSTANTS
    KCheapPrend = 1
    kInitialSize = 2
    ExtraBuf = 2
    Byte <- MCByte
    Zero = 0
    MaxChunk = 2
    MaxSize = 7

INVARIANTS
    TypeOK
    IndicesOrdered
    InBoundsUntilCompacted
    FifoUntilCompacted

PROPERTIES
    CompactionNeedsPartialRetrieve

\* after a write past the vector's end the program has no defined next step
CHECK_DEADLOCK FALSE
