CONSTANTS
    NULL = NULL
    Ctx = {11, 12, 13, 14}
    MAX_PROCESS = 4
    MAX_PRIORITY = 1
    Pipes = {}
    Programs = {}
    StalePids <- NoPid
    MAX_WAITERS = 1
    SemIds = {0}
    InitialValues = {}
    MAX_COUNT = 9
    MAX_QUEUE = 2
    BUFFER_CAPACITY = 3
    charHexMap <- LowerMap
    charHexMapShift <- UpperMap
    KeyCodes <- CtrlKeys
    MAX_KEYS = 5
SPECIFICATION ReadersSpec
INVARIANTS
    KeysHaveTokens
PROPERTIES
    KeysAreFifo
    KeysAreRead
