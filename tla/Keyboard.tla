------------------------------- MODULE Keyboard -------------------------------
(***************************************************************************)
(* The keyboard driver, Kernel/utils/drivers/keyboard.c: a ring buffer     *)
(* that the keyboard interrupt fills and that getAscii empties, and the    *)
(* semaphore that getAscii sleeps on, one token per key.                   *)
(*                                                                         *)
(* A key is a byte: a scancode, with the SHIFTED bit when it was typed in  *)
(* upper case, or (uint8_t) EOF for Ctrl+D.  The "^D" that the handler     *)
(* prints is in module Console.                                            *)
(***************************************************************************)
EXTENDS Semaphores

CONSTANTS
    BUFFER_CAPACITY,
    charHexMap, charHexMapShift     \* from scancode to character, 0 for none

KEYBOARD_SEM_ID == 0
LCTRL    == 29
LSHIFT   == 42
C_KEY    == 46
D_KEY    == 32
RELEASED == 128
SHIFTED  == 128
EOF_KEY  == 255
EOF      == -1

Scancodes == 0 .. 127
Keys      == 0 .. 255
KeyIndex  == 0 .. BUFFER_CAPACITY - 1

ASSUME KeyboardAssumption ==
    /\ KEYBOARD_SEM_ID \in SemIds
    /\ BUFFER_CAPACITY \in Nat \ {0}
    /\ charHexMap \in [Scancodes -> Nat] /\ charHexMapShift \in [Scancodes -> Nat]

VARIABLES
    kb,         \* the static variables of the driver
    taken       \* the key that getScancode returned last, observed only

Driver ==
    [ctrl   : BOOLEAN,
     shift  : BOOLEAN,
     buffer : [KeyIndex -> Keys],
     start  : KeyIndex,
     size   : KeyIndex]

KeyboardInit ==
    /\ kb = [ctrl |-> FALSE, shift |-> FALSE, buffer |-> [i \in KeyIndex |-> 0],
             start |-> 0, size |-> 0]
    /\ taken = [byte |-> 0, flip |-> FALSE]

-----------------------------------------------------------------------------
(***************************************************************************)
(* The operations, on o = [k, sems, kb, taken].                            *)
(***************************************************************************)

BufferIndex(d, offset) == (d.start + offset) % BUFFER_CAPACITY

\* Fault: the buffer is filled to its last place.
HasRoomForAll(d) == d.size < BUFFER_CAPACITY

HasRoom(d) == d.size < BUFFER_CAPACITY - 1

\* Fault: the reader is only told of the first key.
WriteKeyIfEmpty(o, key) ==
    LET put == [o EXCEPT !.kb.buffer[BufferIndex(o.kb, o.kb.size)] = key,
                         !.kb.size = @ + 1]
    IN  IF key # EOF_KEY /\ charHexMap[key % SHIFTED] = 0 THEN o
        ELSE IF o.kb.size = 0 THEN SemPost(put, KEYBOARD_SEM_ID) ELSE put

\* Keys that stand for no character are not stored.
WriteKey(o, key) ==
    IF key # EOF_KEY /\ charHexMap[key % SHIFTED] = 0 THEN o
    ELSE SemPost([o EXCEPT !.kb.buffer[BufferIndex(o.kb, o.kb.size)] = key,
                           !.kb.size = @ + 1],
                 KEYBOARD_SEM_ID)

CtrlCPressed(o) ==
    {[o EXCEPT !.kb.start = 0, !.kb.size = 0, !.k = t] : t \in KillForegroundProcess(o.k)}

KeyDown(o, key) ==
    CASE key = LCTRL  -> {[o EXCEPT !.kb.ctrl = TRUE]}
      [] key = LSHIFT -> {[o EXCEPT !.kb.shift = TRUE]}
      [] key \notin {LCTRL, LSHIFT} /\ o.kb.ctrl ->
            IF key = C_KEY THEN CtrlCPressed(o)
            ELSE IF key = D_KEY /\ HasRoom(o.kb) THEN {WriteKey(o, EOF_KEY)} ELSE {o}
      [] key \notin {LCTRL, LSHIFT} /\ ~ o.kb.ctrl ->
            IF HasRoom(o.kb)
            THEN {WriteKey(o, IF o.kb.shift THEN SHIFTED + key ELSE key)} ELSE {o}

KeyUp(o, key) ==
    CASE key = LCTRL + RELEASED  -> [o EXCEPT !.kb.ctrl = FALSE]
      [] key = LSHIFT + RELEASED -> [o EXCEPT !.kb.shift = FALSE]
      [] OTHER                   -> o

\* The states that the keyboard interrupt can leave.
KeyboardHandler(o, key) ==
    IF key < RELEASED THEN KeyDown(o, key) ELSE {KeyUp(o, key)}

\* getScancode: the key it returns, 0 for none, and the state after it.
Scancode(o) == IF o.kb.size > 0 THEN o.kb.buffer[o.kb.start] ELSE 0

TakeKey(o) ==
    IF o.kb.size = 0 THEN o
    ELSE [o EXCEPT !.kb.start = BufferIndex(o.kb, 1),
                   !.kb.size  = @ - 1,
                   !.taken    = [byte |-> Scancode(o), flip |-> ~ @.flip]]

\* What getAscii makes of a key.
Ascii(key) ==
    IF key = EOF_KEY THEN EOF
    ELSE IF key >= SHIFTED THEN charHexMapShift[key - SHIFTED] ELSE charHexMap[key]

-----------------------------------------------------------------------------
\* The keys in the buffer in the order they were typed.
Typed == [n \in 1 .. kb.size |-> kb.buffer[(kb.start + n - 1) % BUFFER_CAPACITY]]

KeyQueue == INSTANCE ByteChannel WITH
    Bytes <- Keys, CAPACITY <- BUFFER_CAPACITY - 1, queue <- Typed, delivered <- taken,
    open <- ~ kb.ctrl

=============================================================================
