SPECIFICATION Spec
CONSTANTS
    StreamLength = 5
    MaxRetransmissions = 2
    MaxByteCount = 7
    MaxStreamFrameSorterGaps = 3
    LateClose = FALSE
INVARIANTS
    EOFAfterAllData
CHECK_DEADLOCK FALSE
