CONSTANTS
    Keys = {"k1", "k2"}
    ForeignRequests <- MCForeignRequests
    ForeignResponses <- MCForeignResponses
    MaxData = 2
SPECIFICATION FairSpec
INVARIANTS
    DataFollowsHead
PROPERTIES
    ConnectReturns
    IntoWsReturns
CHECK_DEADLOCK FALSE
