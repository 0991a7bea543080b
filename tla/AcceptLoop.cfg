CONSTANTS
    Keys = {"k1"}
    ForeignRequests <- MCRequests
    ForeignResponses = {}
    Conns = {"c1", "c2"}
    Handles = {"h1", "h2"}
    Preceded <- MCPreceded
SPECIFICATION FairSpec
INVARIANTS
    AnsweredForCause
PROPERTIES
    EveryoneIsAnswered
CHECK_DEADLOCK FALSE
