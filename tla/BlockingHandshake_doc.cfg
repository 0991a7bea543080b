CONSTANTS
    Keys = {"k1", "k2"}
    ForeignRequests <- MCForeignRequests
    ForeignResponses <- MCForeignResponses
    MaxData = 2
SPECIFICATION OpeningSpec
INVARIANTS
    HandshakeIsOk
CHECK_DEADLOCK FALSE
