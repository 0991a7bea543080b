CONSTANTS
    Keys = {"k1", "k2"}
    ForeignRequests <- MCForeignRequests
    ForeignResponses <- MCForeignResponses
    HeadLen = 3
    MaxData = 2
SPECIFICATION FairSpec
INVARIANTS
    HandoverIsExact
    ClientOpenMeansAccepted
    AcceptanceIsTaken
PROPERTIES
    ClientSettles
    RequestSettled
    EndIsNoticed
CHECK_DEADLOCK FALSE
