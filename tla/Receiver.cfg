CONSTANTS
    MaxShort = 3
    MaxMedium = 4
    Frames <- MCFramesSent
    ShouldBeMasked = FALSE
    MaxFrames = 3
    MaxEmptyCalls = 2
SPECIFICATION FairSpec
INVARIANTS
    InStep
    BlocksUntilFrame
PROPERTIES
    EveryFrameTaken
    ImplementsMessageStream
CHECK_DEADLOCK FALSE
