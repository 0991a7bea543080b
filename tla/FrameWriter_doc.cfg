CONSTANTS
    MaxShort = 3
    MaxMedium = 6
    Sends <- MCSends
    Mask = TRUE
    MaxSends = 2
    MaxRoom = 22
SPECIFICATION Spec
INVARIANTS
    PayloadSurvives
CHECK_DEADLOCK FALSE
