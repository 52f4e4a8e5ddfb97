CONSTANTS
    NULL = NULL
    Ctx = {c1, c2, c3, c4}
    MAX_PROCESS = 4
    MAX_PRIORITY = 1
    Pipes = {}
    Programs <- ConsolePrograms
    StalePids <- NoPid
    MAX_WAITERS = 2
SPECIFICATION HistorySpec
SYMMETRY Symmetry
PROPERTIES
    WaitEndsWithTarget
