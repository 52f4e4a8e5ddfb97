CONSTANTS
    NULL = NULL
    Ctx = {c1, c2, c3, c4}
    MAX_PROCESS = 4
    MAX_PRIORITY = 1
    Pipes = {3}
    Programs <- MixedPrograms
    StalePids <- AnyPid
    MAX_WAITERS = 1
    SemIds = {1, 2}
    InitialValues = {0, 1}
    MAX_COUNT = 2
    MAX_QUEUE = 3
    SharedSem = 1
SPECIFICATION ClientsSpec
SYMMETRY Symmetry
INVARIANTS
    TypeOK
    ListsMatchStatus
    CurrentOwnsCpu
    PidsIdentify
    IdleAndShellSurvive
    SemTypeOK
    NoTokenWithheld
    OrderlyQueuesHoldTheBlocked
PROPERTIES
    FirstComeFirstServed
    WaitersAreWoken
    DeadStayDead
    OrderlyPostWakesAWaiter
