SPECIFICATION Spec
CONSTANTS
    Streams <- MCStreams
    Contributing <- MCStreams
    StreamWindow = 2
    MaxStreamWindow = 4
    ConnWindow = 3
    MaxConnWindow = 6
    Target = 4
    AllowReset = TRUE
INVARIANTS
    NoFlowControlError
    ConnCountsBytes
    LimitsNested
    NeverStuck
