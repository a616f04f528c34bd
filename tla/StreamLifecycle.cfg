SPECIFICATION StreamSpec
CONSTANTS
    MaxWritten = 2
    MaxFrames = 1
    ReadDeadlines <- MCReadDeadlines
    WriteDeadlines <- MCWriteDeadlines
    LastTime = 1
INVARIANTS
    ReaderNotForgotten
    WriterNotForgotten
    FinalOffsets
PROPERTIES
    WriteSideEnds
