------------------------------ MODULE Pipeline ------------------------------
(***************************************************************************)
(* The shell runs "p1 | p2" (shell.c, handle_piped_commands): it creates a *)
(* pipe and the two processes, waits for both, closes the pipe and prompts *)
(* again.  p1 writes to the pipe until it is done and exits (cat, filter,  *)
(* ps); p2 reads until the end of file and exits (cat, wc, filter), or     *)
(* exits without reading (ps).  The user may press Ctrl+C.                 *)
(***************************************************************************)
EXTENDS PipeManager

CONSTANTS
    Grounds12,      \* where p1 and p2 run: pairs of grounds
    N,              \* model bound: bytes that p1 writes
    MAX_CTRL_C      \* model bound: how often Ctrl+C is pressed

ASSUME PipelineAssumption ==
    /\ Grounds12 \subseteq Grounds \X Grounds
    /\ N \in Nat /\ MAX_CTRL_C \in Nat

VARIABLES
    pc,         \* per context: where its program is
    left,       \* per context: bytes it has still to write
    line,       \* the grounds of the commands the shell is running
    pids,       \* what the shell got for them
    pipe_fd,    \* and the pipe between them
    pressed     \* how often Ctrl+C has been pressed

shellVars    == << line, pids, pipe_fd >>
pipelineVars == << pipeVars, pc, left, shellVars, pressed >>

Me == k.currentProcess

Running(label) == ProgramRuns /\ pc[Me] = label

Goto(label) == pc' = [pc EXCEPT ![Me] = label]

PipelineInit ==
    /\ PipeInit
    /\ pc = [c \in Ctx |-> IF k.pid[c] = SHELL_PID THEN "prompt" ELSE "none"]
    /\ left = [c \in Ctx |-> 0]
    /\ line = << FOREGROUND, FOREGROUND >>
    /\ pids = << NO_PROCESS, NO_PROCESS >>
    /\ pipe_fd = 0
    /\ pressed = 0

-----------------------------------------------------------------------------
(***************************************************************************)
(* The shell.                                                              *)
(***************************************************************************)

ShellCreatesPipe ==
    /\ Running("prompt")
    /\ Follows(CreatePipe(Here, Me))
    /\ LET fd == call'[Me].value
       IN  IF fd < 0 THEN UNCHANGED << pc, pipe_fd, line >>
           ELSE Goto("start1") /\ pipe_fd' = fd /\ line' \in Grounds12
    /\ UNCHANGED << left, pids, pressed >>

\* What instruction_handlers[...] of the n-th command returns: 0 instead of the
\* pid of a process in the background.
Reported(n, pid) == IF line[n] = FOREGROUND THEN pid ELSE 0

\* createProcess may return -1 for want of memory.  The shell does not look.
Starts(n, fds, program, next) ==
    \/ /\ pids' = [pids EXCEPT ![n] = Reported(n, NO_PROCESS)]
       /\ Goto(next)
       /\ UNCHANGED << pipeVars, left >>
    \/ \E c \in Ctx, pid \in Pids :
       /\ k.processQty < MAX_PROCESS
       /\ k.status[c] = "FREED" /\ IsMinFreePid(k, pid)
       /\ Follows([Here EXCEPT !.k = CreateProcess(@, c, pid,
            [priority |-> 1, ground |-> line[n], fds |-> fds])])
       /\ pids' = [pids EXCEPT ![n] = Reported(n, pid)]
       /\ pc' = [pc EXCEPT ![Me] = next, ![c] = program]
       /\ left' = [left EXCEPT ![c] = N]

ShellStarts1 ==
    /\ Running("start1")
    /\ Starts(1, << STDIN, pipe_fd >>, "write", "start2")
    /\ UNCHANGED << line, pipe_fd, pressed >>

ShellStarts2 ==
    /\ Running("start2")
    /\ Starts(2, << pipe_fd, STDOUT >>, "read", "wait1")
    /\ UNCHANGED << line, pipe_fd, pressed >>

WaitsFor(n, next) ==
    /\ Follows([Here EXCEPT !.k = WaitProcess(@, pids[n])])
    /\ Goto(next)
    /\ UNCHANGED << left, shellVars, pressed >>

ShellWaits1 == Running("wait1") /\ WaitsFor(1, "wait2")
ShellWaits2 == Running("wait2") /\ WaitsFor(2, "close")

ShellClosesPipe ==
    /\ Running("close")
    /\ Follows(ClosePipe(Here, Me, pipe_fd))
    /\ Goto("prompt")
    /\ UNCHANGED << left, shellVars, pressed >>

-----------------------------------------------------------------------------
(***************************************************************************)
(* The programs.                                                           *)
(***************************************************************************)

WriterWrites ==
    /\ Running("write") /\ left[Me] > 0
    /\ \E byte \in Bytes : Follows(WritePipe(Here, Me, k.fdOut[Me], byte))
    /\ left' = [left EXCEPT ![Me] = @ - 1]
    /\ UNCHANGED << pc, shellVars, pressed >>

\* getchar() until it returns EOF, which a program never sees twice.
ReaderReads ==
    /\ Running("read") /\ call[Me].value # EOF
    /\ Follows(ReadPipe(Here, Me, k.fdIn[Me]))
    /\ UNCHANGED << pc, left, shellVars, pressed >>

\* sys_exit; what is left of the program runs only in the kernel.
ProgramExits ==
    /\ Running("write") \/ Running("read")
    /\ \E o \in Exit(Here, Me) : Follows(o)
    /\ Goto("none")
    /\ UNCHANGED << left, shellVars, pressed >>

-----------------------------------------------------------------------------
UserStep ==
    \/ ShellCreatesPipe \/ ShellStarts1 \/ ShellStarts2
    \/ ShellWaits1 \/ ShellWaits2 \/ ShellClosesPipe
    \/ WriterWrites \/ ReaderReads \/ ProgramExits

KernelStep == ResumeCall /\ UNCHANGED << pc, left, shellVars, pressed >>

Tick == PipeTick /\ UNCHANGED << pc, left, shellVars, pressed >>

CtrlCPressed ==
    /\ pressed < MAX_CTRL_C
    /\ PipeCtrlC
    /\ pressed' = pressed + 1
    /\ UNCHANGED << pc, left, shellVars >>

PipelineNext == UserStep \/ KernelStep \/ Tick \/ CtrlCPressed

\* What the process that has the processor does without the user, and when it
\* changes anything: the kernel can go round a loop for ever, a program cannot.
GoesOn == KernelStep \/ (UserStep /\ ~ Running("prompt"))

CanGoOn ==
    IF InterruptsOn THEN Me # NULL /\ pc[Me] \notin {"prompt", "none"}
                    ELSE \E o \in Resume(Here, Me) : o # Here

\* The timer interrupt is periodic, and the processor executes the program of
\* the process that has it: strong fairness of Tick, which a system call
\* disables, and of GoesOn, which needs the processor (the latter spelled out
\* because TLC evaluates CanGoOn much faster than ENABLED).
PipelineSpec ==
    /\ PipelineInit /\ [][PipelineNext]_pipelineVars
    /\ SF_pipelineVars(Tick)
    /\ []<>CanGoOn => []<><< GoesOn >>_pipelineVars

-----------------------------------------------------------------------------
(***************************************************************************)
(* Properties.                                                             *)
(***************************************************************************)

AtPrompt == \A c \in Ctx :
    k.pid[c] = SHELL_PID /\ k.status[c] \in Live => pc[c] = "prompt"

\* One of the two processes could not be created.
StartFailed == \E n \in 1 .. 2 : pids[n] = NO_PROCESS

\* The shell comes back to its prompt after every pipeline that it could start,
\* as long as nobody presses Ctrl+C.
PromptReturns == []<>(AtPrompt \/ pressed > 0 \/ StartFailed)

\* When it does, Ctrl+C or not, both processes are gone and no pipe is left
\* that could be used.
PromptMeansOver ==
    AtPrompt =>
        /\ \A c \in Ctx : k.status[c] \in Live => k.pid[c] \in {IDLE_PID, SHELL_PID}
        /\ \A i \in Slots : pipes[i].isOpen => pipes[i].mutex \notin SemIds

\* pipes.c, closePipe: the posts wake the readers that are blocked, to tell them
\* of the end of file.  None of them is blocked inside readPipe after the close.
EofWakesReaders ==
    \A c \in Ctx :
        k.status[c] = "BLOCKED" /\ call[c].at \in {"readMutex", "readBody"} =>
            pipes[call[c].slot].isOpen

=============================================================================
