----------------------------- MODULE PipeManager -----------------------------
(***************************************************************************)
(* The pipes of the kernel, Kernel/utils/pipes/pipes.c, with the system    *)
(* calls that use them (syscalls.c), on top of semaphores and scheduler.   *)
(*                                                                         *)
(* readPipe, writePipe and closePipe run with interrupts off and lose the  *)
(* processor only where a sem_wait blocks.  call[c] is where context c     *)
(* goes on when it gets the processor: in its program ("user"), or in the  *)
(* kernel, after the sem_wait it blocked in.  An action runs a system call *)
(* up to its end or up to the sem_wait that blocks; no interrupt comes     *)
(* while the running process has still to finish its call.                 *)
(*                                                                         *)
(* All callers read and write one byte at a time (syscall_read,            *)
(* syscall_write, mvar.c), so size is 1 here.                              *)
(***************************************************************************)
EXTENDS Semaphores

CONSTANTS
    MAX_PIPES,
    PIPE_BUFFER_SIZE,
    FIRST_SEM,      \* the first identifier createPipe uses
    NUM_SEMS,
    Bytes           \* what can be written

\* What readPipe's caller gets at the end of file.
EOF == -1

ASSUME PipesAssumption ==
    /\ MAX_PIPES \in Nat \ {0} /\ PIPE_BUFFER_SIZE \in Nat \ {0}
    /\ FIRST_SEM \in Nat /\ NUM_SEMS \in Nat
    /\ SemIds \subseteq 0 .. NUM_SEMS - 1
    /\ FIRST_SEM .. NUM_SEMS - 1 \subseteq SemIds
    /\ Pipes = 3 .. MAX_PIPES + 2
    /\ Bytes # {} /\ Bytes \subseteq Nat
    /\ MAX_QUEUE >= Cardinality(Ctx)

VARIABLES
    pipes,          \* pipeManager.pipes, a Pipe in each of Slots
    next_sem_id,
    call,           \* per context: where it goes on, a Call
    delivered       \* per pipe: what its last read returned, observed only

pipeVars == << k, sems, pipes, next_sem_id, call, delivered >>

Slots == 0 .. MAX_PIPES - 1
Index == 0 .. PIPE_BUFFER_SIZE - 1

Pipe ==
    [isOpen     : BOOLEAN,
     buffer     : [Index -> Bytes \cup {0}],
     readIdx    : Index,
     writeIdx   : Index,
     count      : 0 .. PIPE_BUFFER_SIZE,
     readers    : {0, 1},
     writers    : {0, 1},
     semReaders : Int,
     semWriters : Int,
     mutex      : Int]

ClosedPipe ==
    [isOpen     |-> FALSE,
     buffer     |-> [j \in Index |-> 0],
     readIdx    |-> 0,
     writeIdx   |-> 0,
     count      |-> 0,
     readers    |-> 0,
     writers    |-> 0,
     semReaders |-> -1,
     semWriters |-> -1,
     mutex      |-> -1]

\* The places where a context goes on: in its program, or in the kernel after
\* the sem_wait that blocked it, at the top of readPipe's loop, or in
\* syscall_exit after its first yield.
Points == {"user", "readMutex", "readBody", "readAgain", "writeMutex", "writeBody",
           "closeBody", "exitCloseBody", "exitKill"}

\* value is what the call writes, or in the program what the last call returned.
Call == [at : Points, slot : Slots, value : Bytes \cup Pipes \cup {0, -1}]

InProgram == [at |-> "user", slot |-> 0, value |-> 0]

-----------------------------------------------------------------------------
(***************************************************************************)
(* The operations, on o = [k, sems, pipes, next_sem_id, call, delivered].  *)
(* Where a sem_wait may block, F(o, ...) stands for the code from there to *)
(* the next sem_wait or to the end.                                        *)
(***************************************************************************)

\* sem_wait, sem_post and sem_destroy refuse the identifier -1 of a closed
\* pipe.  sem_wait also fails when there is no memory for one more node, and
\* MAX_QUEUE nodes, more than there are processes, stand for that.
SemWaitOn(o, id) ==
    IF id \in SemIds /\ Len(o.sems[id].waitQueue) < MAX_QUEUE THEN SemWait(o, id) ELSE o
SemPostOn(o, id)    == IF id \in SemIds THEN SemPost(o, id) ELSE o
SemDestroyOn(o, id) == IF id \in SemIds THEN SemDestroy(o, id) ELSE o

Self(o) == o.k.currentProcess

GoOnAt(o, c, point, slot, value) ==
    [o EXCEPT !.call[c] = [at |-> point, slot |-> slot, value |-> value]]

\* The system call of c ends and returns value.
Return(o, c, value) == GoOnAt(o, c, "user", 0, value)

\* sem_create would not fail.
CanMake(o, id) == id \in SemIds /\ ~ o.sems[id].active

\* createPipe takes the first slot that is not open and three identifiers that
\* no pipe had before; if one does not exist the slot stays open.
CreatePipe(o, c) ==
    LET free  == {i \in Slots : ~ o.pipes[i].isOpen}
        slot  == Min(free)
        id    == o.next_sem_id
        o1    == [o EXCEPT
                    !.next_sem_id = id + 3,
                    !.pipes[slot] = [ClosedPipe EXCEPT
                        !.isOpen = TRUE, !.readers = 1, !.writers = 1,
                        !.semReaders = id, !.semWriters = id + 1, !.mutex = id + 2]]
        o2    == SemCreate(o1, id, 0)
        o3    == SemCreate(o2, id + 1, PIPE_BUFFER_SIZE)
    IN  IF free = {} THEN Return(o, c, -1)
        ELSE IF ~ CanMake(o1, id) THEN Return(o1, c, -1)
        ELSE IF ~ CanMake(o2, id + 1) THEN Return(o2, c, -1)
        ELSE IF ~ CanMake(o3, id + 2) THEN Return(o3, c, -1)
        ELSE Return(SemCreate(o3, id + 2, 1), c, slot + 3)

IsOpen(o, fd) == fd - 3 \in Slots /\ o.pipes[fd - 3].isOpen

\* Fault: an index stays at the end of the buffer.
AdvanceToEnd(i) == IF i + 1 < PIPE_BUFFER_SIZE THEN i + 1 ELSE i

Advance(i) == (i + 1) % PIPE_BUFFER_SIZE

\* Fault: the writers are not told of the room.
LeaveReadSilently(o, p) == SemPostOn(o, p.mutex)

\* p is the pipe as the mutex protected it.
LeaveRead(o, p) == SemPostOn(SemPostOn(o, p.mutex), p.semWriters)

ReadBody(o, c, i) ==
    LET p     == o.pipes[i]
        taken == [o EXCEPT !.pipes[i].readIdx = Advance(@),
                           !.pipes[i].count   = @ - 1,
                           !.delivered[i]     = [byte |-> p.buffer[p.readIdx],
                                                 flip |-> ~ @.flip]]
    IN  IF p.count > 0
        THEN Return(LeaveRead(taken, p), c, p.buffer[p.readIdx])
        ELSE IF p.writers = 0 THEN Return(SemPostOn(o, p.mutex), c, EOF)
        ELSE GoOnAt(SemPostOn(o, p.mutex), c, "readAgain", i, 0)

ReadMutex(o, c, i) ==
    LET w == SemWaitOn(o, o.pipes[i].mutex)
    IN  IF Self(w) = c THEN ReadBody(w, c, i) ELSE GoOnAt(w, c, "readBody", i, 0)

ReadLoop(o, c, i) ==
    LET w == SemWaitOn(o, o.pipes[i].semReaders)
    IN  IF Self(w) = c THEN ReadMutex(w, c, i) ELSE GoOnAt(w, c, "readMutex", i, 0)

ReadPipe(o, c, fd) ==
    IF IsOpen(o, fd) THEN ReadLoop(o, c, fd - 3) ELSE Return(o, c, EOF)

\* Fault: only the first byte of an empty pipe is announced.
LeaveWriteIfEmpty(o, p) ==
    LET u == SemPostOn(o, p.mutex) IN IF p.count = 0 THEN SemPostOn(u, p.semReaders) ELSE u

\* Fault: the mutex is kept.
LeaveWriteLocked(o, p) == SemPostOn(o, p.semReaders)

LeaveWrite(o, p) == SemPostOn(SemPostOn(o, p.mutex), p.semReaders)

WriteBody(o, c, i, byte) ==
    LET p   == o.pipes[i]
        put == IF p.count < PIPE_BUFFER_SIZE
               THEN [o EXCEPT !.pipes[i].buffer[p.writeIdx] = byte,
                              !.pipes[i].writeIdx = Advance(@),
                              !.pipes[i].count    = @ + 1]
               ELSE o
    IN  Return(LeaveWrite(put, p), c, 0)

WriteMutex(o, c, i, byte) ==
    LET w == SemWaitOn(o, o.pipes[i].mutex)
    IN  IF Self(w) = c THEN WriteBody(w, c, i, byte)
                       ELSE GoOnAt(w, c, "writeBody", i, byte)

WritePipe(o, c, fd, byte) ==
    LET i == fd - 3
        w == SemWaitOn(o, o.pipes[i].semWriters)
    IN  IF ~ IsOpen(o, fd) THEN Return(o, c, 0)
        ELSE IF Self(w) = c THEN WriteMutex(w, c, i, byte)
        ELSE GoOnAt(w, c, "writeMutex", i, byte)

\* The posts that are to wake the readers that are blocked.
SignalReaders(o, id) ==
    FoldLeft(LAMBDA acc, n : SemPostOn(acc, id), o, [n \in 1 .. PIPE_BUFFER_SIZE |-> n])

CloseBody(o, i) ==
    LET p         == o.pipes[i]
        signalled == SemPostOn(SignalReaders(o, p.semReaders), p.mutex)
        destroyed == SemDestroyOn(SemDestroyOn(SemDestroyOn(
                        signalled, p.semReaders), p.semWriters), p.mutex)
    IN  IF p.writers = 0 THEN SemPostOn(o, p.mutex)
        ELSE IF p.writers > 1
        THEN [SemPostOn(o, p.mutex) EXCEPT !.pipes[i].writers = @ - 1,
                                           !.pipes[i].mutex   = -1]
        ELSE [destroyed EXCEPT
                !.pipes[i] = [ClosedPipe EXCEPT !.buffer = p.buffer,
                                                !.mutex  = p.mutex]]

ClosePipe(o, c, fd) ==
    LET i == fd - 3
        w == SemWaitOn(o, o.pipes[i].mutex)
    IN  IF ~ IsOpen(o, fd) THEN Return(o, c, 0)
        ELSE IF Self(w) = c THEN Return(CloseBody(w, i), c, 0)
        ELSE GoOnAt(w, c, "closeBody", i, 0)

\* syscall_exit: a process that writes to a pipe closes it and lets others run
\* before it is killed.
YieldBeforeExit(o, c) == [GoOnAt(o, c, "exitKill", 0, 0) EXCEPT !.k = Yield(@)]

ExitKills(o, c) == {[o EXCEPT !.k = Yield(t)] : t \in KillProcess(o.k, o.k.pid[c])}

Exit(o, c) ==
    LET fd == o.k.fdOut[c]
        i  == fd - 3
        w  == SemWaitOn(o, o.pipes[i].mutex)
    IN  IF fd < 3 THEN ExitKills(o, c)
        ELSE IF ~ IsOpen(o, fd) THEN {YieldBeforeExit(o, c)}
        ELSE IF Self(w) = c THEN {YieldBeforeExit(CloseBody(w, i), c)}
        ELSE {GoOnAt(w, c, "exitCloseBody", i, 0)}

\* What c does in the kernel once it has the processor again.
Resume(o, c) ==
    LET at == o.call[c].at
        i  == o.call[c].slot
        b  == o.call[c].value
    IN  CASE at = "readMutex"     -> {ReadMutex(o, c, i)}
          [] at = "readBody"      -> {ReadBody(o, c, i)}
          [] at = "readAgain"     -> {ReadLoop(o, c, i)}
          [] at = "writeMutex"    -> {WriteMutex(o, c, i, b)}
          [] at = "writeBody"     -> {WriteBody(o, c, i, b)}
          [] at = "closeBody"     -> {Return(CloseBody(o, i), c, 0)}
          [] at = "exitCloseBody" -> {YieldBeforeExit(CloseBody(o, i), c)}
          [] at = "exitKill"      -> ExitKills(o, c)

-----------------------------------------------------------------------------
(***************************************************************************)
(* The actions: readers and writers that share pipes as those of mvar.c    *)
(* do, and that start, wait for and outlive each other.                    *)
(***************************************************************************)

Here == [k |-> k, sems |-> sems, pipes |-> pipes, next_sem_id |-> next_sem_id,
         call |-> call, delivered |-> delivered]

\* A new process starts in its program, whatever its context did before.
Follows(o) == \E t \in {o} :
    /\ k' = t.k /\ sems' = t.sems /\ pipes' = t.pipes
    /\ next_sem_id' = t.next_sem_id /\ delivered' = t.delivered
    /\ call' = [c \in Ctx |-> IF t.k.status[c] = "FREED" THEN InProgram ELSE t.call[c]]

PipeInit ==
    /\ SemInit
    /\ pipes = [i \in Slots |-> ClosedPipe]
    /\ next_sem_id = FIRST_SEM
    /\ call = [c \in Ctx |-> InProgram]
    /\ delivered = [i \in Slots |-> [byte |-> 0, flip |-> FALSE]]

\* Interrupts are on: nobody has the processor, or a program has it.
InterruptsOn == \A c \in Ctx : c = k.currentProcess => call[c].at = "user"

ProgramRuns == UserRuns /\ InterruptsOn

ResumeCall ==
    /\ ~ InterruptsOn
    /\ \E o \in Resume(Here, k.currentProcess) : Follows(o)

PipeTick == InterruptsOn /\ Follows([Here EXCEPT !.k = Schedule(@)])

SyscallPipeCreate == ProgramRuns /\ Follows(CreatePipe(Here, k.currentProcess))

SyscallPipeRead(fd) ==
    /\ ProgramRuns /\ k.currentPid \in Targets
    /\ Follows(ReadPipe(Here, k.currentProcess, fd))

SyscallPipeWrite(fd, byte) ==
    /\ ProgramRuns /\ k.currentPid \in Targets
    /\ Follows(WritePipe(Here, k.currentProcess, fd, byte))

PipeCreateProcess(program) ==
    /\ ProgramRuns
    /\ k.processQty < MAX_PROCESS
    /\ \E c \in Ctx, pid \in Pids :
        /\ k.status[c] = "FREED" /\ IsMinFreePid(k, pid)
        /\ Follows([Here EXCEPT !.k = CreateProcess(@, c, pid, program)])

PipeCtrlC ==
    InterruptsOn /\ \E t \in KillForegroundProcess(k) : Follows([Here EXCEPT !.k = t])

SharingNext ==
    \/ ResumeCall
    \/ PipeTick
    \/ SyscallPipeCreate
    \/ \E fd \in Pipes : SyscallPipeRead(fd)
    \/ \E fd \in Pipes, byte \in Bytes : SyscallPipeWrite(fd, byte)
    \/ \E program \in Programs : PipeCreateProcess(program)

SharingSpec == PipeInit /\ [][SharingNext]_pipeVars

-----------------------------------------------------------------------------
(***************************************************************************)
(* Properties.                                                             *)
(***************************************************************************)

\* The mutex of an open pipe is free whenever no system call is half done:
\* nobody ever blocks with it in his hands.
MutexIsFree ==
    \A i \in Slots :
        /\ pipes[i].isOpen /\ pipes[i].mutex \in SemIds
        /\ sems[pipes[i].mutex].active
        => sems[pipes[i].mutex].counter = 1 /\ sems[pipes[i].mutex].waitQueue = << >>

\* A pipe for which createPipe made all three semaphores.  When it finds no
\* identifier for one of them it returns -1 but leaves the slot open; nobody has
\* the number of such a pipe, and nothing is said of it.
Made(p) == p.isOpen /\ {p.semReaders, p.semWriters, p.mutex} \subseteq SemIds

\* Processes that sem_wait let through and that have not run since.
Granted(i, point) ==
    {c \in Ctx : call[c].at = point /\ call[c].slot = i /\ k.status[c] \in {"READY", "RUNNING"}}

\* A reader does not sleep on data, nor come back with none: each byte in the
\* buffer has one token, in the semaphore or with a reader woken for it.
TokensMatchData ==
    \A i \in Slots : Made(pipes[i]) =>
        pipes[i].count = sems[pipes[i].semReaders].counter + Cardinality(Granted(i, "readMutex"))

\* A writer does not sleep on a buffer with room, nor lose its byte to a full
\* one: each free place has one token.
TokensMatchRoom ==
    \A i \in Slots : Made(pipes[i]) =>
        PIPE_BUFFER_SIZE - pipes[i].count
            = sems[pipes[i].semWriters].counter + Cardinality(Granted(i, "writeMutex"))

\* The bytes of a pipe in the order they were written.
Contents(p) == [n \in 1 .. p.count |-> p.buffer[(p.readIdx + n - 1) % PIPE_BUFFER_SIZE]]

Channel(i) == INSTANCE ByteChannel WITH
    CAPACITY <- PIPE_BUFFER_SIZE, queue <- Contents(pipes[i]), delivered <- delivered[i],
    open <- pipes[i].isOpen

\* Each pipe is a first-in first-out queue of bytes, whoever reads and writes it,
\* and loses none while it is open.
PipesAreFifo ==
    /\ \A i \in Slots : Channel(i)!Init
    /\ [][\A i \in Slots : Channel(i)!Step]_pipeVars

=============================================================================
