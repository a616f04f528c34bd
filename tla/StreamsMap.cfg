SPECIFICATION Spec
CONSTANTS
    Openers <- MCOpeners
    MaxIncoming = 2
    MaxOutgoing = 2
    LastId = 6
INVARIANTS
    Bookkeeping
    LateFramesHarmless
    WaitersNotForgotten
PROPERTIES
    NeverReopened
    
