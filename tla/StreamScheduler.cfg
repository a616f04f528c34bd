SPECIFICATION Spec
CONSTANTS
    Streams <- MCStreams
    s1 = s1
    s2 = s2
    s3 = s3
    Watched = s1
    Weights <- MCWeights
    DefaultStreamWeight = 0
    Dependencies = TRUE
    MaxLoad = 3
SYMMETRY MCSymmetry
INVARIANTS
    ListsConsistent
    FlatListed
    BoundedWait
PROPERTIES
    TreeKept
CHECK_DEADLOCK FALSE
