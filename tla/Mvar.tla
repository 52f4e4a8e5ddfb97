--------------------------------- MODULE Mvar ---------------------------------
(***************************************************************************)
(* The program mvar of the userland (mvar.c) on pipes, semaphores and      *)
(* scheduler: a manager makes a pipe and a print semaphore, starts writers *)
(* that put their letter into the pipe and readers that take a letter and  *)
(* print it in their colour, and exits.                                    *)
(*                                                                         *)
(* The colour is one variable of the video driver; a reader sets it,       *)
(* prints and sets it back with four system calls, under the semaphore.    *)
(* mvar is run once: a second one would destroy the semaphore of the first.*)
(***************************************************************************)
EXTENDS PipeManager

CONSTANTS
    WRITERS, READERS,       \* the arguments of mvar
    MVAR_SEM_PRINT

KEYBOARD_SEM_ID == 0
Uncoloured == 0             \* the colour of the console, others are readers

ASSUME MvarAssumption ==
    /\ Ctx \subseteq Nat    \* here a context is a number, its address
    /\ \E c, d \in Ctx : c # d
    /\ WRITERS \in Nat \ {0} /\ READERS \in Nat \ {0}
    /\ {KEYBOARD_SEM_ID, MVAR_SEM_PRINT} \subseteq SemIds \ (FIRST_SEM .. NUM_SEMS - 1)
    /\ MVAR_SEM_PRINT # KEYBOARD_SEM_ID
    /\ Bytes = 1 .. WRITERS

VARIABLES
    pc,
    number,         \* per context: writer_id or reader_id, counted from 1
    previous,       \* per context: previous_font
    fontColor,      \* of the video driver
    made            \* the workers that the manager has started

locals   == << number, previous >>
mvarVars == << pipeVars, pc, locals, fontColor, made >>

Me == k.currentProcess

Running(label) == ProgramRuns /\ pc[Me] = label

Goto(label) == pc' = [pc EXCEPT ![Me] = label]

MvarInit ==
    /\ k = Booted
    /\ sems = SemCreate([sems |-> [id \in SemIds |-> Inactive]], KEYBOARD_SEM_ID, 0).sems
    /\ pipes = [i \in Slots |-> ClosedPipe]
    /\ next_sem_id = FIRST_SEM
    /\ call = [c \in Ctx |-> InProgram]
    /\ delivered = [i \in Slots |-> [byte |-> 0, flip |-> FALSE]]
    /\ pc = [c \in Ctx |-> IF k.pid[c] = SHELL_PID THEN "start" ELSE "none"]
    /\ number = [c \in Ctx |-> 0]
    /\ previous = [c \in Ctx |-> Uncoloured]
    /\ fontColor = Uncoloured
    /\ made = 0

-----------------------------------------------------------------------------
\* createProcess by the running program; the child runs from entry.  Without
\* memory or a free pid it fails, and the program goes on elsewhere.
Spawn(program, entry, id, next, failed) ==
    IF k.processQty = MAX_PROCESS \/ {c \in Ctx : k.status[c] = "FREED"} = {}
    THEN Goto(failed) /\ UNCHANGED << pipeVars, number >>
    ELSE LET c == FirstFit(k) IN
         /\ \E pid \in Pids :
                IsMinFreePid(k, pid)
                /\ Follows([Here EXCEPT !.k = CreateProcess(@, c, pid, program)])
         /\ pc' = [pc EXCEPT ![c] = entry, ![Me] = next]
         /\ number' = [number EXCEPT ![c] = id]

\* With the timer at any moment a longer quantum adds nothing.
Program(ground) == [priority |-> MIN_PRIORITY, ground |-> ground, fds |-> << STDIN, STDOUT >>]

\* A system call of the running program, after which it goes on at next.
Calls(o, next) ==
    Follows(o) /\ Goto(next) /\ UNCHANGED << locals, fontColor, made >>

ShellStartsMvar ==
    /\ Running("start")
    /\ Spawn(Program(FOREGROUND), "destroy", 0, "wait", "wait")
    /\ UNCHANGED << previous, fontColor, made >>

ShellWaits ==
    /\ Running("wait")
    /\ LET manager == FirstIn(k.processList, {c \in Ctx : IsForeground(k, c)})
       IN  Calls(IF manager = NULL THEN Here
                 ELSE [Here EXCEPT !.k = WaitProcess(@, k.pid[manager])], "prompt")

\* Nothing is typed any more.
ShellReadsKey == Running("prompt") /\ Calls(SemWait(Here, KEYBOARD_SEM_ID), "getchar")

-----------------------------------------------------------------------------
(***************************************************************************)
(* mvar_manager.                                                           *)
(***************************************************************************)

DestroySemaphore == Running("destroy") /\ Calls(SemDestroy(Here, MVAR_SEM_PRINT), "create")

\* Fault: one token too many.
PRINT_TOKENS_2 == 2

PRINT_TOKENS == 1

CreateSemaphore ==
    Running("create") /\ Calls(SemCreate(Here, MVAR_SEM_PRINT, PRINT_TOKENS), "pipe")

MakePipe == Running("pipe") /\ Calls(CreatePipe(Here, Me), "spawn")

\* The pipe is the argument of the workers; without it the manager exits.
SpawnWorkers ==
    /\ Running("spawn")
    /\ IF call[Me].value < 0 \/ made = WRITERS + READERS
       THEN Goto("exit") /\ UNCHANGED << pipeVars, number, made >>
       ELSE /\ made' = made + 1
            /\ IF made < WRITERS
               THEN Spawn(Program(BACKGROUND), "pauseWriter", made + 1, "spawn", "logWait")
               ELSE Spawn(Program(BACKGROUND), "pauseReader", made + 1 - WRITERS, "spawn", "logWait")
    /\ UNCHANGED << previous, fontColor >>

\* log_spawn_error prints between sem_wait and sem_post, as the readers do.
LogWaits == Running("logWait") /\ Calls(SemWait(Here, MVAR_SEM_PRINT), "log")
LogsError == Running("log") /\ Calls(SemPost(Here, MVAR_SEM_PRINT), "spawn")

ManagerExits ==
    /\ Running("exit")
    /\ \E o \in Exit(Here, Me) : Follows(o)
    /\ Goto("none")
    /\ UNCHANGED << locals, fontColor, made >>

-----------------------------------------------------------------------------
(***************************************************************************)
(* mvar_writer and mvar_reader.                                            *)
(***************************************************************************)

ValuePipe == 3

\* random_pause yields one to four times.  Once is enough here: the timer may
\* take the processor again wherever another yield would give it away.
Pauses(pausing, next) == Running(pausing) /\ Calls([Here EXCEPT !.k = Yield(@)], next)

WriterPauses == Pauses("pauseWriter", "write")
ReaderPauses == Pauses("pauseReader", "read")

WriterWrites ==
    Running("write") /\ Calls(WritePipe(Here, Me, ValuePipe, number[Me]), "pauseWriter")

ReaderReads == Running("read") /\ Calls(ReadPipe(Here, Me, ValuePipe), "waitPrint")

ReaderWaits == Running("waitPrint") /\ Calls(SemWait(Here, MVAR_SEM_PRINT), "getColor")

GetColor ==
    /\ Running("getColor")
    /\ previous' = [previous EXCEPT ![Me] = fontColor]
    /\ Goto("setColor")
    /\ UNCHANGED << pipeVars, number, fontColor, made >>

SetColor ==
    /\ Running("setColor")
    /\ fontColor' = number[Me]
    /\ Goto("putchar")
    /\ UNCHANGED << pipeVars, locals, made >>

PutsChar == Running("putchar") /\ Calls(Here, "restoreColor")

RestoreColor ==
    /\ Running("restoreColor")
    /\ fontColor' = previous[Me]
    /\ previous' = [previous EXCEPT ![Me] = Uncoloured]
    /\ Goto("post")
    /\ UNCHANGED << pipeVars, number, made >>

ReaderPosts == Running("post") /\ Calls(SemPost(Here, MVAR_SEM_PRINT), "pauseReader")

-----------------------------------------------------------------------------
ProgramStep ==
    \/ ShellStartsMvar  \/ ShellWaits       \/ ShellReadsKey
    \/ DestroySemaphore \/ CreateSemaphore  \/ MakePipe
    \/ SpawnWorkers     \/ LogWaits         \/ LogsError    \/ ManagerExits
    \/ WriterPauses     \/ ReaderPauses     \/ WriterWrites
    \/ ReaderReads      \/ ReaderWaits      \/ GetColor     \/ SetColor
    \/ PutsChar         \/ RestoreColor     \/ ReaderPosts

Resumes == ResumeCall /\ UNCHANGED << pc, locals, fontColor, made >>

Tick == PipeTick /\ UNCHANGED << pc, locals, fontColor, made >>

MvarNext == ProgramStep \/ Resumes \/ Tick

\* The process that has the processor has something to do.
CanStep == Me # NULL /\ pc[Me] # "none"

\* The timer is periodic, and the processor executes the program, or the system
\* call, of the process that has it.
MvarSpec ==
    /\ MvarInit /\ [][MvarNext]_mvarVars
    /\ SF_mvarVars(Tick)
    /\ []<>CanStep => []<><< ProgramStep \/ Resumes >>_mvarVars

-----------------------------------------------------------------------------
(***************************************************************************)
(* Properties.                                                             *)
(***************************************************************************)

\* Readers that print: the semaphore lets one in.
Colouring == {c \in Ctx : pc[c] \in {"putchar", "restoreColor"}}

\* Each letter is printed in the colour of the reader that took it, the message
\* of the manager in the console's own, which it has whenever nobody prints:
\* nobody reads or sets the colour between the four calls of another reader.
ColourIsOwn ==
    /\ \A c \in Colouring : fontColor = number[c]
    /\ \A c \in Ctx : pc[c] = "log" /\ k.status[c] # "BLOCKED" => fontColor = Uncoloured
    /\ Colouring = {} => fontColor = Uncoloured

\* Writers, readers and the timer never come to wait for each other: letters go
\* on being printed for ever.
LettersArePrinted == []<>(Colouring # {})

=============================================================================
