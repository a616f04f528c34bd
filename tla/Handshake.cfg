SPECIFICATION Spec
CONSTANTS
    MaxClientHellos = 3
INVARIANTS
    SameKeys
    AnnouncedInOrder
    NothingForgotten
PROPERTIES
    Completes
