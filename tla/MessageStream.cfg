CONSTANTS
    MaxShort = 3
    MaxMedium = 4
    Frames <- MCFramesSent
    ShouldBeMasked <- MCShouldBeMasked
    MaxFrames = 4
    MaxEmptyCalls = 2
SPECIFICATION Spec
INVARIANTS
    TypeOK
    FramesAccountedFor
    ResultsInOrder
    WholeMessages
    NoSilentGap
    RulesKeptMeansDelivered
PROPERTIES
    FragmentsKept
CHECK_DEADLOCK FALSE
