SPECIFICATION Spec
CONSTANTS
    MaxTrackedSentPackets = 3
    MaxTrackedSkippedPackets = 2
    MaxTailLossProbes = 1
    MaxSent = 3
    MaxAcks = 2
    Lengths <- MCOneLength
INVARIANTS
    ClosePathResendsTheRest
CHECK_DEADLOCK FALSE
