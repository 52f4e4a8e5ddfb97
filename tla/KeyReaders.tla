------------------------------ MODULE KeyReaders ------------------------------
(***************************************************************************)
(* Those who read the keyboard: the shell, in read_line, and the programs  *)
(* cat, in the foreground and in the background, that the shell starts     *)
(* when it has read a line.  The user presses and releases keys at any     *)
(* moment, Ctrl+C and Ctrl+D among them.                                   *)
(*                                                                         *)
(* pc[c] is where the program of context c is; "inRead" is inside          *)
(* getAscii, behind its sem_wait, with interrupts off.  What a program     *)
(* does by itself with the character it read is part of the step that      *)
(* reads it.                                                               *)
(***************************************************************************)
EXTENDS Keyboard

CONSTANTS
    KeyCodes,       \* what the keyboard sends
    MAX_KEYS        \* model bound: how many codes it sends

NEWLINE == 10

ASSUME KeyReadersAssumption ==
    /\ Ctx \subseteq Nat
    /\ \E c, d \in Ctx : c # d     \* the memory holds idle and the shell
    /\ KeyCodes \subseteq Keys
    /\ MAX_KEYS \in Nat

VARIABLES
    pc,
    pressed,        \* how many codes the keyboard has sent
    tokenLost       \* a reader died with the token of a key, observed only

readerVars == << k, sems, kb, taken, pc, pressed, tokenLost >>

ReadersInit ==
    /\ k = Booted
    /\ sems = SemCreate([sems |-> [id \in SemIds |-> Inactive]], KEYBOARD_SEM_ID, 0).sems
    /\ KeyboardInit
    /\ pc = [c \in Ctx |-> IF k.pid[c] = SHELL_PID THEN "getchar" ELSE "none"]
    /\ pressed = 0
    /\ tokenLost = FALSE

Here == [k |-> k, sems |-> sems, kb |-> kb, taken |-> taken]

Follows(o) == \E t \in {o} :
    k' = t.k /\ sems' = t.sems /\ kb' = t.kb /\ taken' = t.taken

Me == k.currentProcess

InterruptsOn == \A c \in Ctx : c = Me => pc[c] # "inRead"

Running(label) == Me # NULL /\ pc[Me] = label

Goto(label) == pc' = [pc EXCEPT ![Me] = label]

\* The shell executes what it read at the end of the line, and yields when
\* getchar returns 0; cat goes on to the end of file.
After(c, char) ==
    IF k.pid[c] = SHELL_PID
    THEN CASE char = NEWLINE -> "command" [] char = 0 -> "yield" [] OTHER -> "getchar"
    ELSE IF char = EOF THEN "exit" ELSE "getchar"

\* The rest of syscall_read, once sem_wait is over.
TakesKey(o) == Follows(TakeKey(o)) /\ Goto(After(Me, Ascii(Scancode(o))))

-----------------------------------------------------------------------------
\* sys_read(STDIN).  A reader that Ctrl+C killed while it ran comes back from
\* sem_wait at once, having queued its pid, and reads on until the timer takes
\* the processor from it: the model bounds how often.
ReadKey ==
    /\ Running("getchar")
    /\ k.status[Me] = "TERMINATED" => Len(sems[KEYBOARD_SEM_ID].waitQueue) < MAX_QUEUE
    /\ LET w == SemWait(Here, KEYBOARD_SEM_ID)
       IN  IF w.k.currentProcess = Me THEN TakesKey(w) ELSE Follows(w) /\ Goto("inRead")
    /\ UNCHANGED << pressed, tokenLost >>

\* sem_wait returns to getAscii.
WakeInRead == Running("inRead") /\ TakesKey(Here) /\ UNCHANGED << pressed, tokenLost >>

ShellYields ==
    /\ Running("yield")
    /\ Follows([Here EXCEPT !.k = Yield(@)])
    /\ Goto("getchar")
    /\ UNCHANGED << pressed, tokenLost >>

\* A line that starts no process: empty, not valid, or a built-in.
ShellRunsBuiltIn ==
    /\ Running("command")
    /\ Goto("getchar")
    /\ UNCHANGED << k, sems, kb, taken, pressed, tokenLost >>

ShellStartsCat(ground) ==
    /\ Running("command")
    /\ \E c \in Ctx, pid \in Pids :
        /\ k.processQty < MAX_PROCESS
        /\ k.status[c] = "FREED" /\ c = FirstFit(k)
        /\ IsMinFreePid(k, pid)
        /\ k' = CreateProcess(k, c, pid,
                    [priority |-> 1, ground |-> ground, fds |-> << STDIN, STDOUT >>])
        /\ pc' = [pc EXCEPT ![c]  = "getchar",
                            ![Me] = IF ground = FOREGROUND THEN "wait" ELSE "getchar"]
    /\ UNCHANGED << sems, kb, taken, pressed, tokenLost >>

\* waitProcess for the process in the foreground.
ShellWaits ==
    /\ Running("wait")
    /\ LET cat == FirstIn(k.processList, {c \in Ctx : IsForeground(k, c)})
       IN  IF cat = NULL THEN UNCHANGED k ELSE k' = WaitProcess(k, k.pid[cat])
    /\ Goto("getchar")
    /\ UNCHANGED << sems, kb, taken, pressed, tokenLost >>

\* The shell ran kill: a reader that was woken and has not run since dies with
\* the token that sem_post gave it.
ShellKillsCat ==
    /\ Running("command")
    /\ \E pid \in Targets : LET c == FindProcess(k, pid) IN
        /\ c # NULL
        /\ k' \in KillProcess(k, pid)
        /\ tokenLost' = (tokenLost \/ (pc[c] = "inRead" /\ k.status[c] = "READY"))
    /\ Goto("getchar")
    /\ UNCHANGED << sems, kb, taken, pressed >>

CatExits ==
    /\ Running("exit")
    /\ SyscallExit
    /\ Goto("none")
    /\ UNCHANGED << sems, kb, taken, pressed, tokenLost >>

ProgramStep ==
    \/ ReadKey          \/ WakeInRead           \/ ShellYields
    \/ ShellRunsBuiltIn \/ ShellWaits           \/ ShellKillsCat
    \/ CatExits         \/ \E ground \in Grounds : ShellStartsCat(ground)

Tick == InterruptsOn /\ TimerTick /\ UNCHANGED << sems, kb, taken, pc, pressed, tokenLost >>

KeyInterrupt ==
    /\ InterruptsOn
    /\ pressed < MAX_KEYS
    /\ \E key \in KeyCodes : \E o \in KeyboardHandler(Here, key) : Follows(o)
    /\ pressed' = pressed + 1
    /\ UNCHANGED << pc, tokenLost >>

ReadersNext == ProgramStep \/ Tick \/ KeyInterrupt

\* The process that has the processor is alive and has something to do.
CanStep == Me # NULL /\ k.status[Me] = "RUNNING" /\ pc[Me] # "none"

\* The timer is periodic, and the processor executes the program of the process
\* that has it.  Nothing is assumed of the user.
ReadersSpec ==
    /\ ReadersInit /\ [][ReadersNext]_readerVars
    /\ SF_readerVars(Tick)
    /\ []<>CanStep => []<><< ProgramStep >>_readerVars

-----------------------------------------------------------------------------
(***************************************************************************)
(* Properties.                                                             *)
(***************************************************************************)

\* Readers that sem_wait let through and that have not taken their key yet.
Granted == {c \in Ctx : pc[c] = "inRead" /\ k.status[c] \in {"READY", "RUNNING"}}

\* Nobody sleeps on a key: for each key in the buffer there is a token, in the
\* semaphore or with a reader that was woken (after Ctrl+C there are more), until
\* kill takes a reader with the token it was given.
KeysHaveTokens ==
    ~ tokenLost => kb.size <= sems[KEYBOARD_SEM_ID].counter + Cardinality(Granted)

\* The keys come out once and in the order they were typed, whoever reads them
\* and however the handler, Ctrl+C, kill and the readers interleave; none is lost
\* but with the Ctrl key down.
KeysAreFifo == KeyQueue!Spec

\* What is typed ahead is read in the end, by somebody, with the same exception.
KeysAreRead == kb.size > 0 ~> kb.size = 0 \/ tokenLost

=============================================================================
