SPECIFICATION Spec
CONSTANTS
    PathIDs <- MCPathIDs
    MaxPairs = 2
    MaxClosed = 1
INVARIANTS
    HangCauses
    LoopsEnd
    NeverReplaced
PROPERTIES
    CloseEnds
CHECK_DEADLOCK FALSE
