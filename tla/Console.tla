-------------------------------- MODULE Console --------------------------------
(***************************************************************************)
(* What is on the screen, Kernel/utils/drivers/video.c, and the line that  *)
(* the shell edits on it, read_line of Userland/SampleCodeModule/stdio.c.  *)
(*                                                                         *)
(* The driver draws at (X, Y), in pixels, and keeps the characters it drew *)
(* in a buffer, from which it draws them again in another font.  read_line *)
(* erases a character by printing a backspace, a blank and a backspace     *)
(* where the cursor is, in three system calls between which others print;  *)
(* that is the place of the character only as long as nobody else moves    *)
(* the cursor back.  Pixels and colours are left out; a character is one   *)
(* of four kinds.                                                          *)
(***************************************************************************)
EXTENDS Integers, Sequences, FiniteSets, SequencesExt

CONSTANTS
    width, height,              \* of _screenData, in pixels
    charWidths, charHeights,    \* by font
    MAX_RESOLUTION,             \* the length of the character buffer
    MSG_BUFFER_EXCEEDED,
    WELCOME,                    \* what the shell prints first
    MAX_CHARS,                  \* the length of the line of the shell
    MAX_EOF                     \* model bound: Ctrl+D's that wait to be read

Fonts == DOMAIN charWidths
Kinds == {"char", "newline", "nul", "prompt"}

Rows(f)    == height \div charHeights[f]
Columns(f) == width \div charWidths[f]

\* The longest line can be erased again without leaving the screen.
ASSUME ConsoleAssumption ==
    /\ 0 \in Fonts /\ DOMAIN charHeights = Fonts
    /\ width \in 1 .. 2^16 - 1 /\ height \in 1 .. 2^16 - 1
    /\ \A f \in Fonts : charWidths[f] \in 1 .. width /\ charHeights[f] \in 1 .. height
    /\ MAX_CHARS \in Nat \ {0}
    /\ \A f \in Fonts : MAX_CHARS - 1 <= (Rows(f) - 1) * Columns(f)
    /\ MAX_RESOLUTION \in Nat /\ MAX_RESOLUTION < 2^16
    /\ MSG_BUFFER_EXCEEDED \in Seq(Kinds) /\ Len(MSG_BUFFER_EXCEEDED) + 2 < MAX_RESOLUTION
    /\ WELCOME \in Seq(Kinds) /\ Len(WELCOME) < MAX_RESOLUTION
    /\ MAX_EOF \in Nat

VARIABLES
    screen,     \* the static variables of the driver
    phase,      \* of the shell: at the "prompt", "reading" a line, at a "command";
                \* "back" or "blank" is what it printed last of an erasure
    len,        \* the length of the line being read
    others,     \* the shell may have started other programs
    eof,        \* how often Ctrl+D was pressed and nobody has read it yet
    disturbed   \* the line on the screen is not what read_line takes it for

consoleVars == << screen, phase, len, others, eof, disturbed >>

-----------------------------------------------------------------------------
(***************************************************************************)
(* The driver.  The coordinates and the index are uint16_t; charBuffer     *)
(* holds what is before the index.                                         *)
(***************************************************************************)

LastColumn(s) == (Columns(s.font) - 1) * charWidths[s.font]

VideoClear(s) == [s EXCEPT !.X = 0, !.Y = 0, !.charBuffer = << >>, !.bufferIdx = 0]

\* Fault: the last line is left when it is already below the screen.
PrintNewlineLate(s) ==
    [s EXCEPT !.X = 0,
              !.Y = IF @ + charHeights[s.font] <= height THEN @ + charHeights[s.font] ELSE @]

PrintNewline(s) ==
    [s EXCEPT !.X = 0,
              !.Y = IF @ + 2 * charHeights[s.font] <= height
                    THEN @ + charHeights[s.font] ELSE @]

Backspace(s) ==
    LET wraps == s.X < charWidths[s.font] /\ s.Y > 0
    IN  [s EXCEPT !.X = IF wraps THEN LastColumn(s) ELSE (@ - charWidths[s.font]) % 2^16,
                  !.Y = IF wraps THEN @ - charHeights[s.font] ELSE @,
                  !.charBuffer = IF @ = << >> THEN @ ELSE Front(@),
                  !.bufferIdx  = (@ - 1) % 2^16]

Draw(s, c) ==
    LET put   == [s EXCEPT !.charBuffer = Append(@, c), !.bufferIdx = @ + 1]
        moved == [put EXCEPT !.X = (@ + charWidths[s.font]) % 2^16]
    IN  IF c = "newline" THEN PrintNewline(put)
        ELSE IF moved.X > LastColumn(s) THEN PrintNewline(moved) ELSE moved

DrawAll(s, chars) == FoldLeft(Draw, s, chars)

Exceeds(s) == s.bufferIdx = MAX_RESOLUTION

PrintChar(s, c) ==
    IF c = "backspace" THEN Backspace(s)
    ELSE Draw(IF Exceeds(s) THEN DrawAll(VideoClear(s), MSG_BUFFER_EXCEEDED) ELSE s, c)

\* printN stops at a NUL.
BeforeNul(chars) ==
    LET nuls == {i \in DOMAIN chars : chars[i] = "nul"}
    IN  IF nuls = {} THEN chars ELSE SubSeq(chars, 1, Min(nuls) - 1)

SetFontSize(s, f) ==
    DrawAll(VideoClear([s EXCEPT !.font = f]), BeforeNul(s.charBuffer))

-----------------------------------------------------------------------------
(***************************************************************************)
(* The shell, the other programs and the keyboard handler.  Once the index *)
(* is outside the buffer the next character overwrites other memory: the   *)
(* model ends there.                                                       *)
(***************************************************************************)

Defined == screen.bufferIdx <= MAX_RESOLUTION

\* The shell is in read_line, and so many characters of its line are shown.
InLine == phase \in {"reading", "back", "blank"}
Shown  == IF phase = "back" THEN len - 1 ELSE len

ConsoleInit ==
    /\ LET cleared == [X |-> 0, Y |-> 0, font |-> 0, charBuffer |-> << >>, bufferIdx |-> 0]
       IN  screen = DrawAll(cleared, WELCOME)
    /\ phase = "prompt"
    /\ len = 0
    /\ others = FALSE
    /\ eof = 0
    /\ disturbed = FALSE

\* c is printed, in the middle of a line or between two.
Prints(c) ==
    /\ Defined
    /\ screen' = PrintChar(screen, c)
    /\ disturbed' = (disturbed \/ (Exceeds(screen) /\ InLine))

Prompt ==
    /\ phase = "prompt"
    /\ Prints("prompt")
    /\ phase' = "reading" /\ len' = 0
    /\ UNCHANGED << others, eof >>

\* A character beyond the length of the line is not shown either.
TypeChar ==
    /\ phase = "reading"
    /\ len < MAX_CHARS - 1
    /\ Prints("char")
    /\ len' = len + 1
    /\ UNCHANGED << phase, others, eof >>

\* The '\b' key: read_line prints a backspace,
Erase ==
    /\ Defined
    /\ phase = "reading"
    /\ len > 0
    /\ screen' = Backspace(screen)
    /\ phase' = "back"
    /\ UNCHANGED << len, others, eof, disturbed >>

\* a blank,
EraseBlank ==
    /\ phase = "back"
    /\ Prints("char")
    /\ phase' = "blank"
    /\ UNCHANGED << len, others, eof >>

\* Fault: the character stays in the line.
EraseForgets ==
    /\ Defined
    /\ phase = "blank"
    /\ screen' = Backspace(screen)
    /\ phase' = "reading"
    /\ UNCHANGED << len, others, eof, disturbed >>

\* and a backspace again.
EraseBack ==
    /\ Defined
    /\ phase = "blank"
    /\ screen' = Backspace(screen)
    /\ phase' = "reading" /\ len' = len - 1
    /\ UNCHANGED << others, eof, disturbed >>

\* An end of file is stored in the line, and syscall_write does not show it.
ReadEof ==
    /\ phase = "reading" /\ eof > 0
    /\ len < MAX_CHARS - 1
    /\ len' = len + 1
    /\ eof' = eof - 1
    /\ disturbed' = TRUE
    /\ UNCHANGED << screen, phase, others >>

Enter ==
    /\ phase = "reading"
    /\ Prints("newline")
    /\ phase' = "command" /\ len' = 0
    /\ others' = (others \/ len > 0)
    /\ UNCHANGED eof

\* The line starts no program, or one that has ended or runs in the background.
CommandEnds ==
    /\ phase = "command"
    /\ phase' = "prompt"
    /\ UNCHANGED << screen, len, others, eof, disturbed >>

bi_fontSize(f) ==
    /\ Defined
    /\ phase = "command"
    /\ screen' = SetFontSize(screen, f)
    /\ phase' = "prompt"
    /\ UNCHANGED << len, others, eof, disturbed >>

\* The program clear, in the foreground or, in the middle of a line, as "clear &".
Clears ==
    /\ others
    /\ screen' = VideoClear(screen)
    /\ disturbed' = InLine
    /\ UNCHANGED << phase, len, others, eof >>

\* Another process writes to the console.
OtherPrints(c) == others /\ Prints(c) /\ UNCHANGED << phase, len, others, eof >>

\* cat writes the backspace that it reads.
OtherPrintsBackspace ==
    /\ Defined
    /\ others
    /\ screen' = Backspace(screen)
    /\ disturbed' = TRUE
    /\ UNCHANGED << phase, len, others, eof >>

OtherReadsEof ==
    /\ others /\ eof > 0
    /\ eof' = eof - 1
    /\ UNCHANGED << screen, phase, len, others, disturbed >>

\* The keyboard handler shows Ctrl+D at once; its new line is not in the buffer.
CtrlD ==
    /\ Defined
    /\ eof < MAX_EOF
    /\ screen' = PrintNewline(PrintChar(PrintChar(screen, "char"), "char"))
    /\ disturbed' = (disturbed \/ (screen'.bufferIdx < screen.bufferIdx /\ InLine))
    /\ eof' = eof + 1
    /\ UNCHANGED << phase, len, others >>

ConsoleNext ==
    \/ Prompt   \/ TypeChar     \/ ReadEof  \/ Erase \/ EraseBlank \/ EraseBack
    \/ Enter    \/ CommandEnds  \/ Clears   \/ \E f \in Fonts : bi_fontSize(f)
    \/ OtherPrintsBackspace     \/ \E c \in {"char", "newline", "nul"} : OtherPrints(c)
    \/ OtherReadsEof            \/ CtrlD

ConsoleSpec == ConsoleInit /\ [][ConsoleNext]_consoleVars

-----------------------------------------------------------------------------
(***************************************************************************)
(* Properties.                                                             *)
(***************************************************************************)

\* _bufferIdx is a position in _charBuffer, or the one after its last.
IndexInBuffer == screen.bufferIdx \in 0 .. MAX_RESOLUTION

\* read_line, which counts what it erases, leaves it there.  This is what the
\* comments of video.c say of the index; it does not hold when the line of which
\* read_line erases a character was cleared.
EraseStaysInBuffer == phase = "back" => IndexInBuffer

CursorOnScreen ==
    /\ screen.X \in {c * charWidths[screen.font] : c \in 0 .. Columns(screen.font) - 1}
    /\ screen.Y \in {r * charHeights[screen.font] : r \in 0 .. Rows(screen.font) - 1}

\* As long as nobody disturbs it, editing a line keeps the cursor on the screen
\* and the index in the buffer, with lines that wrap and scroll, output of other
\* programs in the middle of the line and of an erasure, and other fonts.
EditingStaysOnScreen == ~ disturbed => CursorOnScreen /\ IndexInBuffer

\* Nor does it erase what was there before the line: the prompt is still in the
\* buffer, before as many characters as the line shows, also between the three
\* system calls that erase one, whatever other programs print there.
PromptSurvives ==
    InLine /\ ~ disturbed =>
        \E i \in 1 .. Len(screen.charBuffer) - Shown : screen.charBuffer[i] = "prompt"

=============================================================================
