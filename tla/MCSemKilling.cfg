CONSTANTS
    NULL = NULL
    Ctx = {c1, c2, c3, c4}
    MAX_PROCESS = 4
    MAX_PRIORITY = 1
    Pipes = {}
    Programs <- ConsolePrograms
    StalePids <- NoPid
    MAX_WAITERS = 1
    SemIds = {1}
    InitialValues = {0, 1}
    MAX_COUNT = 1
    MAX_QUEUE = 3
SPECIFICATION KillingSpec
SYMMETRY Symmetry
PROPERTIES
    PostWakesAWaiter
