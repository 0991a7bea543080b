CONSTANTS
    MaxShort = 3
    MaxMedium = 4
    Frames <- MCFramesSent
    ShouldBeMasked = TRUE
    MaxFrames = 3
    MaxEmptyCalls = 2
SPECIFICATION FairSpec
INVARIANTS
    AlwaysAtFrameStart
    NeverParkedOnWork
    NoQuietTruncation
PROPERTIES
    ImplementsMessageStream
    LossNoticed
CHECK_DEADLOCK FALSE
