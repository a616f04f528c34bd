SPECIFICATION FairSpec
CONSTANTS
    MaxTrackedSentPackets = 3
    MaxTrackedSkippedPackets = 2
    MaxTailLossProbes = 1
    MaxSent = 3
    MaxAcks = 2
    Lengths <- MCOneLength
INVARIANTS
    BytesInFlightExact
    NothingForgotten
    AlarmArmed
    StopWaitingWritable
    HonestAcksAccepted
PROPERTIES
    InFlightResolved
CHECK_DEADLOCK FALSE
