------------------------------- MODULE TestSync -------------------------------
(***************************************************************************)
(* The program testsync of the userland (tests/test_sync.c) on the         *)
(* scheduler and the semaphores: test_sync creates a semaphore and pairs   *)
(* of processes that add 1 and -1 to a shared variable, waits for all of   *)
(* them and prints the variable.                                           *)
(*                                                                         *)
(* pc[c] is where the program of context c is.  The process that has the   *)
(* processor takes its next step; a timer tick may come between any two.   *)
(* A system call that blocks leaves pc at the step after it, where the     *)
(* process goes on when it is dispatched again.                            *)
(***************************************************************************)
EXTENDS Semaphores

CONSTANTS
    PAIRS,      \* TOTAL_PAIR_PROCESSES
    N,          \* iterations of each process
    SEM_ID

ASSUME TestSyncAssumption ==
    /\ PAIRS \in Nat \ {0} /\ N \in Nat \ {0}
    /\ SEM_ID \in SemIds
    /\ Ctx \subseteq Nat   \* here a context is a number, its address
    /\ \E c, d \in Ctx : c # d     \* the memory holds idle and the shell

VARIABLES
    global,     \* the shared variable
    pc, aux, iter, inc,         \* per context: its program, and its locals
    pids,       \* the children each has still to wait for, in order
    printed     \* what test_sync printed, NULL before

locals   == << aux, iter, inc >>

Self == k.currentProcess

At(label) == Self # NULL /\ pc[Self] = label

Goto(label) == pc' = [pc EXCEPT ![Self] = label]

Console(ground) == [priority |-> 1, ground |-> ground, fds |-> << STDIN, STDOUT >>]

LocalsInit ==
    /\ sems = [id \in SemIds |-> Inactive]
    /\ global = 0
    /\ pc = [c \in Ctx |-> IF k.pid[c] = SHELL_PID THEN "shell" ELSE "none"]
    /\ aux = [c \in Ctx |-> 0]
    /\ iter = [c \in Ctx |-> 0]
    /\ inc = [c \in Ctx |-> 0]
    /\ pids = [c \in Ctx |-> << >>]
    /\ printed = NULL

-----------------------------------------------------------------------------
\* createProcess by the running program: the child will run from label entry.
Spawn(c, ground, entry, next) ==
    /\ k.status[c] = "FREED" /\ c = FirstFit(k)
    /\ \E pid \in Pids :
        /\ IsMinFreePid(k, pid)
        /\ k' = CreateProcess(k, c, pid, Console(ground))
        /\ pids' = [pids EXCEPT ![Self] = Append(@, pid)]
    /\ pc' = [pc EXCEPT ![c] = entry, ![Self] = next]
    /\ iter' = [iter EXCEPT ![c] = 0]
    /\ aux' = [aux EXCEPT ![c] = 0]

\* waitProcess for the next child.
WaitChild(next) ==
    /\ k' = WaitProcess(k, Head(pids[Self]))
    /\ pids' = [pids EXCEPT ![Self] = Tail(@)]
    /\ Goto(next)

\* The shell runs the command in the foreground: it starts it and waits.
ShellStart ==
    /\ At("shell")
    /\ \E c \in Ctx : Spawn(c, FOREGROUND, "create", "shellWait")
    /\ UNCHANGED << sems, global, inc, printed >>

ShellWait ==
    /\ At("shellWait")
    /\ WaitChild("prompt")
    /\ UNCHANGED << sems, global, locals, printed >>

-----------------------------------------------------------------------------
\* test_sync
CreateSemaphore ==
    /\ At("create")
    /\ Becomes(SemCreate(Now, SEM_ID, 1))
    /\ Goto("spawn")
    /\ UNCHANGED << global, locals, pids, printed >>

\* Decrementers and incrementers in turn; they are waited for in that order.
SpawnWorker ==
    /\ At("spawn")
    /\ LET made == Len(pids[Self])
       IN  \E c \in Ctx :
            /\ Spawn(c, FOREGROUND, "open", IF made + 1 = 2 * PAIRS THEN "wait" ELSE "spawn")
            /\ inc' = [inc EXCEPT ![c] = IF made % 2 = 0 THEN -1 ELSE 1]
    /\ UNCHANGED << sems, global, printed >>

WaitWorker ==
    /\ At("wait")
    /\ WaitChild(IF Len(pids[Self]) = 1 THEN "print" ELSE "wait")
    /\ UNCHANGED << sems, global, locals, printed >>

PrintFinal ==
    /\ At("print")
    /\ printed' = global
    /\ Goto("destroy")
    /\ UNCHANGED << k, sems, global, locals, pids >>

DestroySemaphore ==
    /\ At("destroy")
    /\ Becomes(SemDestroy(Now, SEM_ID))
    /\ Goto("exit")
    /\ UNCHANGED << global, locals, pids, printed >>

-----------------------------------------------------------------------------
\* my_process_inc
OpenSemaphore ==
    /\ At("open")
    /\ Goto(IF sems[SEM_ID].active THEN "loop" ELSE "exit")
    /\ UNCHANGED << k, sems, global, locals, pids, printed >>

EnterLoop ==
    /\ At("loop")
    /\ IF iter[Self] = N
       THEN Goto("exit") /\ UNCHANGED << k, sems >>
       ELSE Goto("read") /\ Becomes(SemWait(Now, SEM_ID))
    /\ UNCHANGED << global, locals, pids, printed >>

ReadGlobal ==
    /\ At("read")
    /\ aux' = [aux EXCEPT ![Self] = global]
    /\ Goto("yield")
    /\ UNCHANGED << k, sems, global, iter, inc, pids, printed >>

YieldInside ==
    /\ At("yield")
    /\ k' = Yield(k)
    /\ Goto("write")
    /\ UNCHANGED << sems, global, locals, pids, printed >>

WriteGlobal ==
    /\ At("write")
    /\ global' = aux[Self] + inc[Self]
    /\ Goto("post")
    /\ UNCHANGED << k, sems, locals, pids, printed >>

LeaveLoop ==
    /\ At("post")
    /\ Becomes(SemPost(Now, SEM_ID))
    /\ iter' = [iter EXCEPT ![Self] = @ + 1]
    /\ Goto("loop")
    /\ UNCHANGED << global, aux, inc, pids, printed >>

Exit ==
    /\ At("exit")
    /\ SyscallExit
    /\ Goto("none")
    /\ UNCHANGED << sems, global, locals, pids, printed >>

-----------------------------------------------------------------------------
ProgramStep ==
    \/ ShellStart       \/ ShellWait
    \/ CreateSemaphore  \/ SpawnWorker \/ WaitWorker
    \/ PrintFinal       \/ DestroySemaphore
    \/ OpenSemaphore    \/ EnterLoop   \/ ReadGlobal \/ YieldInside
    \/ WriteGlobal      \/ LeaveLoop   \/ Exit

\* The process that has the processor is not at the end of its program.
CanStep == Self # NULL /\ pc[Self] \notin {"prompt", "none"}

-----------------------------------------------------------------------------
(***************************************************************************)
(* Properties.                                                             *)
(***************************************************************************)

InCriticalSection(c) ==
    k.status[c] \in {"RUNNING", "READY"} /\ pc[c] \in {"read", "yield", "write", "post"}

\* Mutual exclusion: the semaphore admits one process between wait and post,
\* through every preemption, yield, block and wake-up.
MutualExclusion ==
    \A c, d \in Ctx : InCriticalSection(c) /\ InCriticalSection(d) => c = d

\* test_sync prints 0: all the waits returned after the workers' last write,
\* and no increment was lost.
PrintsZero == printed # NULL => printed = 0

\* The program has ended: it printed, and no process of it is left.
Ended == printed # NULL /\ \A c \in Ctx : pc[c] \in {"prompt", "none"}

=============================================================================
