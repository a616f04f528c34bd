SPECIFICATION FairSpec
CONSTANTS
    StreamLength = 4
    MaxRetransmissions = 2
    MaxByteCount = 7
    MaxStreamFrameSorterGaps = 3
    LateClose = TRUE
INVARIANTS
    GapsExact
    ReadsItsHead
PROPERTIES
    Reliable
    EventuallyRead
CHECK_DEADLOCK FALSE
