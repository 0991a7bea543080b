CONSTANTS
    Keys = {"k1", "k2"}
    ForeignRequests <- MCForeignRequests
    ForeignResponses <- MCForeignResponses
    HeadLen = 2
    MaxData = 1
SPECIFICATION Spec
INVARIANTS
    RefusedRequestIsReturned
CHECK_DEADLOCK FALSE
