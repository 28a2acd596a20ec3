SPECIFICATION Spec
CONSTANTS
    InCap = 1
    OutCap = 2
    ReaderChanCapacity = 6
    TranscriptMaxLines = 1
    Scenes <- SmallScenes
CHECK_DEADLOCK FALSE
INVARIANTS
    ChunksDoNotMatter
    GapsAreTold
PROPERTIES
    WriteEnds
    ExitIsNoticed
