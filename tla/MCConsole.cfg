CONSTANTS
    width = 5
    height = 5
    charWidths <- SmallFonts
    charHeights <- SmallFonts
    MAX_RESOLUTION = 5
    MSG_BUFFER_EXCEEDED <- Message
    WELCOME <- Greeting
    MAX_CHARS = 3
    MAX_EOF = 2
SPECIFICATION ConsoleSpec
INVARIANT EraseStaysInBuffer
CHECK_DEADLOCK FALSE
