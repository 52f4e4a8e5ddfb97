----------------------------- MODULE MCKeyReaders -----------------------------
EXTENDS KeyReaders

\* The letter a and the end of the line, and their upper case; Ctrl, Shift, C
\* and D stand for no character here.
A == 30
ENTER == 28
LowerMap == [s \in Scancodes |-> CASE s = A -> 97 [] s = ENTER -> NEWLINE [] OTHER -> 0]
UpperMap == [s \in Scancodes |-> CASE s = A -> 65 [] s = ENTER -> NEWLINE [] OTHER -> 0]

\* Ctrl and Shift, pressed and released, and the keys they combine with.
CtrlKeys == {LCTRL, LCTRL + RELEASED, C_KEY, D_KEY, A, ENTER, LSHIFT, LSHIFT + RELEASED}

NoPid == {NO_PROCESS}
=============================================================================
