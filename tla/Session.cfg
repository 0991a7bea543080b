CONSTANTS
    MaxShort = 4
    MaxMedium = 6
    Programs = {"threads", "select", "echo"}
    PeerMessages <- MCPeerMessages
    MaxPeer = 3
    MaxLines = 2
SPECIFICATION FairSpec
INVARIANTS
    NothingAfterClose
    AnswersInOrder
PROPERTIES
    ProgramEnds
CHECK_DEADLOCK FALSE
