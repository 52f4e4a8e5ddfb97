------------------------------ MODULE Scheduler ------------------------------
(***************************************************************************)
(* The process scheduler of the kernel: Kernel/utils/processes/scheduler.c *)
(* and the part of process.c that changes scheduling state.                *)
(*                                                                         *)
(* Every entry of the IDT is an interrupt gate, so a system call or an     *)
(* interrupt handler runs with interrupts off from its first instruction   *)
(* to its return, except that yield() raises int 0x20 itself and so calls  *)
(* schedule().  A handler is therefore one action, written as a function   *)
(* of the kernel state: each C function f(args) is an operator F(k, args)  *)
(* that returns the state f leaves behind.                                 *)
(*                                                                         *)
(* The kernel state k is the schedulerCDT struct together with the         *)
(* ProcessContext structs it points to.  A process context is identified   *)
(* by its ADDRESS (an element of Ctx) and not by its pid: pids are reused, *)
(* addresses are freed and reallocated, and the waiting lists hold         *)
(* addresses that nobody removes when the process behind them dies.        *)
(*                                                                         *)
(* Operators whose comment begins with "Fault" are deliberately wrong      *)
(* variants of the operator that follows them; no specification uses them. *)
(* They are there to be substituted for it, to see that the properties     *)
(* notice.                                                                 *)
(***************************************************************************)
EXTENDS Integers, Sequences, FiniteSets, SequencesExt

CONSTANTS
    Ctx,            \* addresses mm_alloc can return for a ProcessContext
    NULL,
    MAX_PROCESS,
    MAX_PRIORITY,
    Pipes,          \* the file descriptors createPipe can return (>= 3)
    Programs,       \* what the userland starts: priority, ground, descriptors
    StalePids,      \* what the pid field of freed memory can hold
    MAX_WAITERS     \* model bound: nodes of one waitingList

NO_PROCESS   == -1
IDLE_PID     == 0
SHELL_PID    == 1
MIN_PRIORITY == 1
MIN_QUANTUMS == 1
STDIN        == 0
STDOUT       == 1
FOREGROUND   == 0
BACKGROUND   == 1

ASSUME SchedulerAssumption ==
    /\ IsFiniteSet(Ctx)
    /\ NULL \notin Ctx
    /\ MAX_PROCESS \in Nat /\ MAX_PROCESS > SHELL_PID
    /\ MAX_PRIORITY \in Nat /\ MAX_PRIORITY >= MIN_PRIORITY
    /\ Pipes \subseteq {fd \in Nat : fd >= 3}

Pids       == 0 .. MAX_PROCESS - 1
Priorities == MIN_PRIORITY .. MAX_PRIORITY
Grounds    == {FOREGROUND, BACKGROUND}
Fds        == Pipes \cup {-1, STDIN, STDOUT}

\* The shell connects a program to the console or to one end of a pipe.
FdPairs == {<< STDIN, STDOUT >>} \cup ({STDIN} \X Pipes) \cup (Pipes \X {STDOUT})

\* How a process can be created.
AnyProgram == [priority : Priorities, ground : Grounds, fds : FdPairs]

ASSUME ProgramsAssumption ==
    /\ Programs \subseteq AnyProgram
    /\ StalePids # {} /\ StalePids \subseteq Pids \cup {NO_PROCESS}
    /\ MAX_WAITERS \in Nat

\* FREED is no value of ProcessState: it marks an address that mm_alloc may
\* return again.
Live     == {"READY", "RUNNING", "BLOCKED"}
Statuses == Live \cup {"TERMINATED", "FREED"}

(***************************************************************************)
(* schedulerCDT and ProcessContext.  blockedProcess is a list whose order  *)
(* no code ever reads (only addNode and removeNode by address): it is kept *)
(* as the number of nodes each address has in it.                          *)
(***************************************************************************)
Kernel ==
    [processList    : Seq(Ctx),
     readyProcess   : Seq(Ctx),
     blockedProcess : [Ctx -> Nat],
     currentPid     : Pids \cup {NO_PROCESS},
     currentProcess : Ctx \cup {NULL},
     processQty     : Nat,
     quantums       : Int,
     pid            : [Ctx -> Pids \cup {NO_PROCESS}],
     priority       : [Ctx -> Priorities],
     ground         : [Ctx -> Grounds],
     fdIn           : [Ctx -> Fds],
     fdOut          : [Ctx -> Fds],
     status         : [Ctx -> Statuses],
     waitingList    : [Ctx -> Seq(Ctx \cup {NULL})]]

VARIABLE k

-----------------------------------------------------------------------------
(***************************************************************************)
(* List searches.                                                          *)
(***************************************************************************)

\* The first element of the list that lies in S, the way a toBegin/hasNext/
\* nextInList loop with an early return finds it; NULL when there is none.
FirstIn(list, S) ==
    LET at == {i \in DOMAIN list : list[i] \in S}
    IN  IF at = {} THEN NULL ELSE list[Min(at)]

FindProcess(s, pid) == FirstIn(s.processList, {c \in Ctx : s.pid[c] = pid})

-----------------------------------------------------------------------------
(***************************************************************************)
(* createProcess, initializeProcess and freeProcess.                       *)
(***************************************************************************)

\* Fault: the number of processes serves as the next pid.
PidIsProcessQty(s, pid) == pid = s.processQty

\* The loop that looks for the smallest pid no process has.
IsMinFreePid(s, pid) ==
    /\ FindProcess(s, pid) = NULL
    /\ \A q \in Pids : q < pid => FindProcess(s, q) # NULL

\* mm_alloc takes the first gap that is large enough, and all contexts have the
\* same size: for models in which a context is a number, its address.
FirstFit(s) == Min({c \in Ctx : s.status[c] = "FREED"})

InitializeProcess(s, c, pid, program) ==
    [s EXCEPT !.pid[c]         = pid,
              !.priority[c]    = program.priority,
              !.ground[c]      = program.ground,
              !.fdIn[c]        = program.fds[1],
              !.fdOut[c]       = program.fds[2],
              !.status[c]      = "READY",
              !.waitingList[c] = << >>]

CreateProcess(s, c, pid, program) ==
    [InitializeProcess(s, c, pid, program) EXCEPT
        !.processList  = Append(@, c),
        !.readyProcess = Append(@, c),
        !.processQty   = @ + 1]

\* A freed context holds no meaningful value: the fields get fixed ones, and
\* whoever reads the pid of a freed context reads anything (see Waiters).
FreeProcess(s, c) ==
    [s EXCEPT !.pid[c]         = NO_PROCESS,
              !.priority[c]    = MIN_PRIORITY,
              !.ground[c]      = FOREGROUND,
              !.fdIn[c]        = -1,
              !.fdOut[c]       = -1,
              !.status[c]      = "FREED",
              !.waitingList[c] = << >>]

-----------------------------------------------------------------------------
(***************************************************************************)
(* schedule(): the context switch.                                         *)
(***************************************************************************)

\* Give the processor to c, for as many ticks as its priority.
Dispatch(s, c) ==
    [s EXCEPT !.currentProcess = c,
              !.currentPid     = s.pid[c],
              !.quantums       = s.priority[c],
              !.status[c]      = "RUNNING"]

DispatchFirst(s) ==
    Dispatch([s EXCEPT !.readyProcess = Tail(@)], Head(s.readyProcess))

\* Fault: whoever is not blocked goes back to the ready list, dead or not.
RetireRequeuesDead(s) ==
    LET c == s.currentProcess
    IN  IF c = NULL \/ s.status[c] = "BLOCKED" THEN s
        ELSE [s EXCEPT !.status[c] = "READY", !.readyProcess = Append(@, c)]

\* Fault: the process that loses the processor goes to the front of the list.
RetireToFront(s) ==
    LET c == s.currentProcess
    IN  IF c = NULL THEN s
        ELSE IF s.status[c] = "TERMINATED"
        THEN [FreeProcess(s, c) EXCEPT !.currentProcess = NULL,
                                       !.currentPid     = NO_PROCESS]
        ELSE IF s.status[c] = "RUNNING"
        THEN [s EXCEPT !.status[c]    = "READY",
                       !.readyProcess = << c >> \o @]
        ELSE s

\* Fault: a process that was killed while it ran is never freed.
RetireLeaks(s) ==
    LET c == s.currentProcess
    IN  IF c # NULL /\ s.status[c] = "RUNNING"
        THEN [s EXCEPT !.status[c]    = "READY",
                       !.readyProcess = Append(@, c)]
        ELSE s

\* What becomes of the process that loses the processor: a terminated one is
\* freed, one that could go on goes to the end of the ready list.
Retire(s) ==
    LET c == s.currentProcess
    IN  IF c = NULL THEN s
        ELSE IF s.status[c] = "TERMINATED"
        THEN [FreeProcess(s, c) EXCEPT !.currentProcess = NULL,
                                       !.currentPid     = NO_PROCESS]
        ELSE IF s.status[c] = "RUNNING"
        THEN [s EXCEPT !.status[c]    = "READY",
                       !.readyProcess = Append(@, c)]
        ELSE s

\* Nobody is ready: run idle if it still exists, leaving the lists alone.
FallBackToIdle(s) ==
    LET idle == FindProcess(s, IDLE_PID)
    IN  IF idle = NULL THEN s ELSE Dispatch(s, idle)

Switch(s) ==
    IF s.currentPid = NO_PROCESS
    THEN IF s.readyProcess = << >> THEN [s EXCEPT !.currentProcess = NULL]
                                   ELSE DispatchFirst(s)
    ELSE LET r == Retire(s)
         IN  IF r.readyProcess = << >> THEN FallBackToIdle(r)
                                       ELSE DispatchFirst(r)

Schedule(s) ==
    LET t == [s EXCEPT !.quantums = @ - 1]
    IN  IF t.processQty = 0 \/ t.quantums > 0 THEN t ELSE Switch(t)

\* yield() empties the quantum and raises the timer interrupt.
Yield(s) == Schedule([s EXCEPT !.quantums = 0])

-----------------------------------------------------------------------------
(***************************************************************************)
(* setReadyProcess and blockProcess.                                       *)
(***************************************************************************)

\* Fault: addNodeInFirst instead of addNode.
WakeToFront(s, w) ==
    [s EXCEPT !.readyProcess   = w \o @,
              !.blockedProcess = [c \in Ctx |-> IF c \in ToSet(w)
                                                THEN @[c] - 1 ELSE @[c]],
              !.status         = [c \in Ctx |-> IF c \in ToSet(w)
                                                THEN "READY" ELSE @[c]]]

\* The blocked processes of the sequence w become ready, in that order.
Wake(s, w) ==
    [s EXCEPT !.readyProcess   = @ \o w,
              !.blockedProcess = [c \in Ctx |-> IF c \in ToSet(w)
                                                THEN @[c] - 1 ELSE @[c]],
              !.status         = [c \in Ctx |-> IF c \in ToSet(w)
                                                THEN "READY" ELSE @[c]]]

\* Fault: the result of removeNode is not looked at.
CanWakeUnchecked(s, c) == c # NULL /\ s.status[c] = "BLOCKED"

\* removeNode on the blocked list finds nothing for a process without a node.
CanWake(s, c) == c # NULL /\ s.status[c] = "BLOCKED" /\ s.blockedProcess[c] > 0

SetReadyProcess(s, pid) ==
    LET c == FindProcess(s, pid)
    IN  IF c # NULL /\ CanWake(s, c) THEN Wake(s, << c >>) ELSE s

\* Take c out of the list its status says it is in.
Detach(s, c) ==
    CASE s.status[c] = "READY"   -> [s EXCEPT !.readyProcess = RemoveFirst(@, c)]
      [] s.status[c] = "BLOCKED" -> [s EXCEPT !.blockedProcess[c] = @ - 1]
      [] OTHER                   -> s

\* The removeNode that Detach stands for returns NULL.
DetachFails(s, c) ==
    \/ s.status[c] = "READY"   /\ c \notin ToSet(s.readyProcess)
    \/ s.status[c] = "BLOCKED" /\ s.blockedProcess[c] = 0

\* Fault: the process stays in the ready list.
BlockWithoutDetach(s, c) ==
    [s EXCEPT !.blockedProcess[c] = @ + 1, !.status[c] = "BLOCKED"]

MoveToBlocked(s, c) ==
    [Detach(s, c) EXCEPT !.blockedProcess[c] = @ + 1,
                         !.status[c]         = "BLOCKED"]

BlockProcess(s, pid) ==
    LET c == FindProcess(s, pid)
        b == IF s.status[c] \in {"RUNNING", "READY"} THEN MoveToBlocked(s, c) ELSE s
    IN  IF c = NULL THEN s
        ELSE IF s.status[c] = "READY" /\ DetachFails(s, c) THEN s
        ELSE IF s.currentPid = pid THEN Yield(b) ELSE b

-----------------------------------------------------------------------------
(***************************************************************************)
(* kill().  The waiting list of a process holds the addresses of those     *)
(* that wait for it.  kill() reads the pid behind each address and sets    *)
(* the process that has that pid ready.  An address whose process died     *)
(* meanwhile is still in the list: if it was freed the pid read is         *)
(* whatever is in that memory now, a choice over StalePids; if it was      *)
(* reallocated it is the pid of the new process there.  Operators that     *)
(* involve kill() return the SET of states it can leave.                   *)
(***************************************************************************)

Dangling(s, c) ==
    {w \in ToSet(s.waitingList[c]) \ {NULL} : s.status[w] = "FREED"}

\* The processes the loop hands to setReadyProcess, NULL for none, where
\* stale[w] is what the freed context w holds in its pid field.
Waiters(s, c, stale) ==
    [i \in DOMAIN s.waitingList[c] |->
        LET w == s.waitingList[c][i]
        IN  IF w = NULL THEN NULL
            ELSE FindProcess(s, IF s.status[w] = "FREED" THEN stale[w] ELSE s.pid[w])]

\* The order in which they become ready: every one that can wake, once, at
\* its first occurrence in the list.
WakeOrders(s, waiters) ==
    LET W == {c \in ToSet(waiters) : CanWake(s, c)}
    IN  {w \in [1 .. Cardinality(W) -> W] :
            \A i, j \in 1 .. Cardinality(W) :
                i < j => \E a \in DOMAIN waiters :
                            /\ waiters[a] = w[i]
                            /\ \A b \in DOMAIN waiters : waiters[b] = w[j] => a < b}

\* Fault: the context is freed although its stack is in use.
BuryAtOnce(s, c) ==
    FreeProcess([s EXCEPT !.processList = RemoveFirst(@, c), !.processQty = @ - 1], c)

Bury(s, c) ==
    LET t == [s EXCEPT !.processList = RemoveFirst(@, c),
                       !.status[c]   = "TERMINATED",
                       !.processQty  = @ - 1]
    IN  IF s.currentProcess = c THEN t ELSE FreeProcess(t, c)

\* Fault: a process that kills itself leaves its waiters to schedule().
KillSelfWakesNobody(s, c) ==
    IF DetachFails(s, c) THEN {s}
    ELSE LET d == Detach(s, c)
         IN  IF s.currentProcess = c THEN {Bury(d, c)}
             ELSE UNION {{Bury(Wake(d, w), c) : w \in WakeOrders(d, Waiters(d, c, stale))} :
                            stale \in [Dangling(s, c) -> StalePids]}

Kill(s, c) ==
    IF DetachFails(s, c) THEN {s}
    ELSE LET d == Detach(s, c)
         IN  UNION {{Bury(Wake(d, w), c) : w \in WakeOrders(d, Waiters(d, c, stale))} :
                        stale \in [Dangling(s, c) -> StalePids]}

\* The other end of the pipe a process reads or writes.
PipedFd(s, c) ==
    IF s.fdIn[c] # STDIN THEN s.fdIn[c]
    ELSE IF s.fdOut[c] # STDOUT THEN s.fdOut[c] ELSE -1

PipedTo(s, fd) ==
    FirstIn(s.processList, {c \in Ctx : s.fdIn[c] = fd \/ s.fdOut[c] = fd})

KillPeer(s, fd) ==
    LET peer == PipedTo(s, fd)
    IN  IF fd = -1 \/ peer = NULL THEN {s} ELSE Kill(s, peer)

KillProcess(s, pid) ==
    LET c == FindProcess(s, pid)
    IN  IF c = NULL \/ DetachFails(s, c) THEN {s}
        ELSE UNION {KillPeer(t, PipedFd(s, c)) : t \in Kill(s, c)}

\* Fault: the shell is a foreground process like any other.
IsForegroundOrShell(s, c) == s.ground[c] = FOREGROUND

\* Ctrl+C: the running process if it is in the foreground, otherwise the
\* first foreground process of the list; never the shell.
IsForeground(s, c) == s.ground[c] = FOREGROUND /\ s.pid[c] # SHELL_PID

KillForegroundProcess(s) ==
    LET first == FirstIn(s.processList, {c \in Ctx : IsForeground(s, c)})
    IN  IF s.currentProcess = NULL THEN {s}
        ELSE IF IsForeground(s, s.currentProcess)
        THEN KillProcess(s, s.pid[s.currentProcess])
        ELSE IF first = NULL THEN {s} ELSE Kill(s, first)

-----------------------------------------------------------------------------
(***************************************************************************)
(* waitProcess and changePriority.                                         *)
(***************************************************************************)

\* Fault: the caller registers as a waiter and goes on.
WaitWithoutBlocking(s, pid) ==
    LET target == FindProcess(s, pid)
    IN  IF target = NULL \/ s.currentPid = pid THEN s
        ELSE [s EXCEPT !.waitingList[target] = Append(@, FindProcess(s, s.currentPid))]

WaitProcess(s, pid) ==
    LET target == FindProcess(s, pid)
        self   == FindProcess(s, s.currentPid)
    IN  IF target = NULL \/ s.currentPid = pid THEN s
        ELSE BlockProcess([s EXCEPT !.waitingList[target] = Append(@, self)],
                          s.currentPid)

ChangePriority(s, pid, priority) ==
    LET c == FindProcess(s, pid)
    IN  IF c = NULL THEN s ELSE [s EXCEPT !.priority[c] = priority]

-----------------------------------------------------------------------------
(***************************************************************************)
(* Boot: createScheduler() makes idle, main() makes the shell, and the     *)
(* first timer tick finds no current process.                              *)
(***************************************************************************)

EmptyKernel ==
    [processList    |-> << >>,
     readyProcess   |-> << >>,
     blockedProcess |-> [c \in Ctx |-> 0],
     currentPid     |-> NO_PROCESS,
     currentProcess |-> NULL,
     processQty     |-> 0,
     quantums       |-> MIN_QUANTUMS,
     pid            |-> [c \in Ctx |-> NO_PROCESS],
     priority       |-> [c \in Ctx |-> MIN_PRIORITY],
     ground         |-> [c \in Ctx |-> FOREGROUND],
     fdIn           |-> [c \in Ctx |-> -1],
     fdOut          |-> [c \in Ctx |-> -1],
     status         |-> [c \in Ctx |-> "FREED"],
     waitingList    |-> [c \in Ctx |-> << >>]]

CreateScheduler(c) ==
    CreateProcess(EmptyKernel, c, IDLE_PID,
        [priority |-> MIN_PRIORITY, ground |-> BACKGROUND, fds |-> << -1, -1 >>])

CreateShell(s, c) ==
    CreateProcess(s, c, SHELL_PID,
        [priority |-> MAX_PRIORITY, ground |-> FOREGROUND, fds |-> << STDIN, STDOUT >>])

\* For models in which a context is a number.
Booted ==
    LET boot == CreateScheduler(FirstFit(EmptyKernel)) IN CreateShell(boot, FirstFit(boot))

Init == \E idle, shell \in Ctx :
            /\ idle # shell
            /\ k = CreateShell(CreateScheduler(idle), shell)

-----------------------------------------------------------------------------
(***************************************************************************)
(* The actions.  A process is a most general client: whenever it has the   *)
(* processor it may make any system call.  Idle only halts.  A process     *)
(* that Ctrl+C terminated goes on, and may still make system calls, until  *)
(* the next schedule().                                                    *)
(***************************************************************************)

UserRuns == k.currentProcess # NULL /\ k.pid[k.currentProcess] # IDLE_PID

\* No program of the userland blocks, kills or renices idle or the shell: the
\* built-in commands refuse to, the test programs act on their children, and
\* the shell never returns from its loop.
Targets == Pids \ {IDLE_PID, SHELL_PID}

TimerTick == k' = Schedule(k)

SyscallCreateProcess(program) ==
    /\ UserRuns
    /\ k.processQty < MAX_PROCESS
    /\ \E c \in Ctx, pid \in Pids :
        /\ k.status[c] = "FREED"
        /\ IsMinFreePid(k, pid)
        /\ k' = CreateProcess(k, c, pid, program)

SyscallKill(pid) == UserRuns /\ k' \in KillProcess(k, pid)

\* syscall_exit from killCurrentProcess() on.  A process whose STDOUT is a pipe
\* calls closePipe and yields before that: with a context switch in between
\* these are steps of their own, which block the caller, set readers ready and
\* yield, as SyscallBlock, SyscallSetReady and SyscallYield do.
SyscallExit ==
    /\ UserRuns
    /\ k.currentPid \in Targets
    /\ \E t \in KillProcess(k, k.pid[k.currentProcess]) : k' = Yield(t)

SyscallBlock(pid)    == UserRuns /\ k' = BlockProcess(k, pid)
SyscallSetReady(pid) == UserRuns /\ k' = SetReadyProcess(k, pid)
SyscallYield         == UserRuns /\ k' = Yield(k)

SyscallWait(pid) ==
    /\ UserRuns
    /\ LET target == FindProcess(k, pid)
       IN  target # NULL => Len(k.waitingList[target]) < MAX_WAITERS
    /\ k' = WaitProcess(k, pid)

SyscallNice(pid, priority) == UserRuns /\ k' = ChangePriority(k, pid, priority)

CtrlC == k' \in KillForegroundProcess(k)

Next ==
    \/ TimerTick
    \/ \E program \in Programs : SyscallCreateProcess(program)
    \/ \E pid \in Targets : SyscallKill(pid)
    \/ SyscallExit
    \/ \E pid \in Targets : SyscallBlock(pid)
    \/ \E pid \in Pids : SyscallSetReady(pid)
    \/ SyscallYield
    \/ \E pid \in Pids : SyscallWait(pid)
    \/ \E pid \in Targets, priority \in Priorities : SyscallNice(pid, priority)
    \/ CtrlC

Spec == Init /\ [][Next]_k

-----------------------------------------------------------------------------
(***************************************************************************)
(* Properties.                                                             *)
(***************************************************************************)

\* Every field of the scheduler and of every process context keeps its type;
\* in particular no pid reaches MAX_PROCESS and no list goes negative.
TypeOK == k \in Kernel

\* Each list holds exactly the processes whose status says so, once.
Lists(s) ==
    /\ IsInjective(s.processList)
    /\ IsInjective(s.readyProcess)
    /\ \A c \in Ctx :
        /\ c \in ToSet(s.processList)  <=> s.status[c] \in Live
        /\ c \in ToSet(s.readyProcess) <=> s.status[c] = "READY"
        /\ s.blockedProcess[c] = IF s.status[c] = "BLOCKED" THEN 1 ELSE 0

\* The current process is the one that runs, or the one that was killed while
\* it ran.
Cpu(s) ==
    /\ \A c \in Ctx : s.status[c] \in {"RUNNING", "TERMINATED"} => c = s.currentProcess
    /\ s.currentProcess = NULL => s.currentPid = NO_PROCESS
    /\ s.currentProcess # NULL =>
        /\ s.status[s.currentProcess] \in {"RUNNING", "TERMINATED"}
        /\ s.currentPid = s.pid[s.currentProcess]

\* Processes that are not dead have different pids, and processQty counts them.
Identity(s) ==
    /\ \A c, d \in Ctx :
        s.status[c] \in Live /\ s.status[d] \in Live /\ s.pid[c] = s.pid[d] => c = d
    /\ \A c \in Ctx : s.status[c] # "FREED" => s.pid[c] \in Pids
    /\ s.processQty = Len(s.processList)

\* Idle can always be dispatched, and the shell is not dead.
Survivors(s) ==
    /\ \E c \in Ctx : s.pid[c] = IDLE_PID /\ s.status[c] \in {"READY", "RUNNING"}
    /\ \E c \in Ctx : s.pid[c] = SHELL_PID /\ s.status[c] \in Live

\* What pipedTo and killForegroundProcess rely on to spare idle and the shell.
Roles(s) ==
    \A c \in Ctx :
        /\ s.status[c] \in Live /\ s.pid[c] = IDLE_PID =>
            s.ground[c] = BACKGROUND /\ s.fdIn[c] = -1 /\ s.fdOut[c] = -1
        /\ s.status[c] \in Live /\ s.pid[c] = SHELL_PID =>
            s.fdIn[c] = STDIN /\ s.fdOut[c] = STDOUT
        /\ s.status[c] \in Live /\ s.pid[c] # IDLE_PID =>
            << s.fdIn[c], s.fdOut[c] >> \in FdPairs
        /\ s.status[c] = "TERMINATED" => s.pid[c] \in Targets

\* No process is lost, queued twice, or left in the process list, the ready
\* list or the blocked list after kill() freed it.
ListsMatchStatus == Lists(k)

\* At most one process runs, it is schedulerCDT.currentProcess, and the only
\* context that outlives its kill() is the one whose stack is in use.
CurrentOwnsCpu == Cpu(k)

\* findProcess identifies a process although createProcess reuses pids.
PidsIdentify == Identity(k)

\* Ctrl+C, kill and the death of a pipe peer never reach idle or the shell,
\* and idle never blocks: schedule() always has somebody to run.
IdleAndShellSurvive == Survivors(k)

\* Only ordinary processes are connected to pipes, idle stays in the background,
\* and a process that still runs after kill() is neither idle nor the shell.
RolesKept == Roles(k)

Position(list, c) == CHOOSE i \in DOMAIN list : list[i] = c

\* Round robin: whoever is in the ready list keeps its place in it, and those
\* that setReadyProcess, schedule() and createProcess add queue behind it.
FirstComeFirstServed ==
    [][\A c \in ToSet(k.readyProcess) \cap ToSet(k'.readyProcess) :
        \A d \in ToSet(k'.readyProcess) :
            Position(k'.readyProcess, d) < Position(k'.readyProcess, c) =>
                /\ d \in ToSet(k.readyProcess)
                /\ Position(k.readyProcess, d) < Position(k.readyProcess, c)]_k

\* No lost wake-up: when a process dies, everyone blocked in its waiting list
\* stops being blocked in the same step.
WaitersAreWoken ==
    [][\A t \in Ctx : k.status[t] \in Live /\ k'.status[t] \notin Live =>
        \A w \in ToSet(k.waitingList[t]) \ {NULL} :
            k.status[w] = "BLOCKED" => k'.status[w] # "BLOCKED"]_k

\* A terminated context is only ever freed: a killed process that still has
\* the processor cannot requeue or block itself with its last system calls.
DeadStayDead ==
    [][\A c \in Ctx : k.status[c] = "TERMINATED" =>
        k'.status[c] \in {"TERMINATED", "FREED"}]_k

\* No starvation: a ready process gets the processor, unless it is blocked or
\* killed first, whatever the priorities and however often others yield.
ReadyRuns == \A c \in Ctx : k.status[c] = "READY" ~> k.status[c] # "READY"

\* The context of a process that was killed while it ran is freed.
ZombieReaped == \A c \in Ctx : k.status[c] = "TERMINATED" ~> k.status[c] = "FREED"

=============================================================================
