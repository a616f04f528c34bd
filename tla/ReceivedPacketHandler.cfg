SPECIFICATION FairSpec
CONSTANTS
    MaxTrackedReceivedAckRanges = 3
    MaxPacketsReceivedBeforeAckSend = 3
    RetransmittablePacketsBeforeAck = 2
    MaxPacketNumber = 5
    MaxSinceLastAck = 3
    Versions <- MCVersions
INVARIANTS
    AckDueHasRange
    HistoryExact
    AckFrameExact
    OwedIsScheduled
PROPERTIES
    OwedIsReported
CHECK_DEADLOCK FALSE
