CONSTANTS
    BLOCK_COUNT = 6
    BLOCK_SIZE = 2
    MAX_BYTES = 10
    Sizes <- AllSizes
    Pointers <- AllPointers
    MIN_EXP = 1
    MaxExp = 4
    ManagedSize = 11
    LARGEST = 8
    Requests = {0, 1, 2, 3, 5, 8, 9}
    MAX_USED = 16
    Node = {1, 2, 3}
    Data = {7, 8}
    width = 5
    height = 5
    charWidths <- SmallFonts
    charHeights <- SmallFonts
    MAX_RESOLUTION = 5
    MSG_BUFFER_EXCEEDED <- Message
    WELCOME <- Greeting
    MAX_CHARS = 3
    MAX_EOF = 2
SPECIFICATION PartsSpec
INVARIANTS
    UsedIsExact
    TreeIsMerged
    UsedIsEnough
    DoublyLinked
    EditingStaysOnScreen
    PromptSurvives
PROPERTIES
    NullOnlyWhenNoRoom
    ImplementsAllocator
    BuddyFailsOnlyWhenNoRoom
    BuddyImplementsAllocator
    ImplementsSequence
CHECK_DEADLOCK FALSE
