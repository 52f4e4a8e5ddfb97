CONSTANTS
    NULL = NULL
    Ctx = {c1, c2, c3, c4, c5}
    MAX_PROCESS = 5
    MAX_PRIORITY = 1
    Pipes = {3}
    Programs <- BackgroundProgram
    StalePids <- NoPid
    MAX_WAITERS = 0
    SemIds = {1, 2, 3}
    InitialValues = {}
    MAX_COUNT = 9
    MAX_QUEUE = 5
    MAX_PIPES = 1
    PIPE_BUFFER_SIZE = 2
    FIRST_SEM = 1
    NUM_SEMS = 4
    Bytes = {0, 1}
SPECIFICATION SharingSpec
SYMMETRY Symmetry
INVARIANTS
    TokensMatchData
    TokensMatchRoom
PROPERTIES
    PipesAreFifo
