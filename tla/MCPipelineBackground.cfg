CONSTANTS
    NULL = NULL
    Ctx = {c1, c2, c3, c4}
    MAX_PROCESS = 4
    MAX_PRIORITY = 1
    Pipes = {3, 4}
    Programs = {}
    StalePids <- NoPid
    MAX_WAITERS = 2
    SemIds = {1, 2, 3, 4, 5, 6}
    InitialValues = {}
    MAX_COUNT = 9
    MAX_QUEUE = 4
    MAX_PIPES = 2
    PIPE_BUFFER_SIZE = 2
    FIRST_SEM = 1
    NUM_SEMS = 7
    Bytes = {1}
    Grounds12 <- WithAmpersand
    N = 1
    MAX_CTRL_C = 0
SPECIFICATION PipelineSpec
PROPERTIES
    PromptReturns
