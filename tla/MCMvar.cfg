CONSTANTS
    NULL = NULL
    Ctx = {11, 12, 13, 14, 15, 16}
    MAX_PROCESS = 6
    MAX_PRIORITY = 1
    Pipes = {3}
    Programs = {}
    StalePids <- NoPid
    MAX_WAITERS = 1
    SemIds = {0, 1, 2, 3, 4}
    InitialValues = {}
    MAX_COUNT = 9
    MAX_QUEUE = 6
    MAX_PIPES = 1
    PIPE_BUFFER_SIZE = 1
    FIRST_SEM = 2
    NUM_SEMS = 5
    Bytes = {1}
    WRITERS = 1
    READERS = 3
    MVAR_SEM_PRINT = 1
SPECIFICATION MvarSpec
INVARIANTS
    ColourIsOwn
PROPERTIES
    LettersArePrinted
