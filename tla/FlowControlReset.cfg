SPECIFICATION Spec
CONSTANTS
    Streams <- MCStreams
    Contributing <- MCStreams
    StreamWindow = 2
    MaxStreamWindow = 2
    ConnWindow = 3
    MaxConnWindow = 3
    Target = 3
    AllowReset = TRUE
INVARIANTS
    ResetsDoNotBlock
