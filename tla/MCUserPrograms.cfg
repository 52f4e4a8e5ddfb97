CONSTANTS
    NULL = NULL
    Ctx = {11, 12, 13, 14, 15, 16}
    MAX_PROCESS = 6
    MAX_PRIORITY = 2
    Pipes = {}
    Programs <- PriorityPrograms
    StalePids <- NoPid
    MAX_WAITERS = 1
    SemIds = {1}
    InitialValues = {1}
    MAX_COUNT = 1
    MAX_QUEUE = 2
    PAIRS = 1
    N = 3
    SEM_ID = 1
    MAX_RQ = 3
    ANY_CTX = {11, 12, 13}
SPECIFICATION ProgramsSpec
INVARIANTS
    MutualExclusion
    PrintsZero
    TableIsTrue
PROPERTIES
    TestEnds
    ReadyRuns
    ZombieReaped
