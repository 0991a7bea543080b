CONSTANTS
    k1 = k1
    k2 = k2
    Keys = {"own", k1, k2}
    ForeignRequests = {}
    ForeignResponses = {}
    OwnKey = "own"
    Urls <- MCUrls
    ProtocolNames <- MCProtocolNames
    ExtensionLists <- MCExtensionLists
    CustomHeaders <- MCCustomHeaders
    Cleared <- MCCleared
    AppHeaders <- MCAppHeaders
    MaxCalls = 2
    MaxConnects = 2
SPECIFICATION Spec
SYMMETRY FreshKeysAlike
INVARIANTS
    FreshKeys
    RequestsAreTaken
    PortsAgree
CHECK_DEADLOCK FALSE
