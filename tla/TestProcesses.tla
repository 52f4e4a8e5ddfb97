----------------------------- MODULE TestProcesses -----------------------------
(***************************************************************************)
(* The program testproc of the userland (tests/test_processes.c): it       *)
(* starts MAX_RQ processes that never end, kills, blocks and unblocks them *)
(* at random until all are dead, and begins again.  It keeps its own table *)
(* of their states and gives up when a system call reports an error.       *)
(***************************************************************************)
EXTENDS Scheduler

CONSTANT MAX_RQ     \* max_processes, the argument of the program

ASSUME TestProcessesAssumption ==
    /\ MAX_RQ \in Nat \ {0}
    /\ Ctx \subseteq Nat    \* here a context is a number, its address

VARIABLES
    p_rqs,      \* the table
    rq,         \* the index of the loop the program is in
    at          \* and that loop

Slots == 1 .. MAX_RQ

Launch(s, program) ==
    CreateProcess(s, FirstFit(s), CHOOSE pid \in Pids : IsMinFreePid(s, pid), program)

OfConsole(ground) == [priority |-> 1, ground |-> ground, fds |-> << STDIN, STDOUT >>]

TableInit ==
    /\ p_rqs = [i \in Slots |-> [pid |-> NO_PROCESS, state |-> "KILLED"]]
    /\ rq = 1
    /\ at = "shell"

\* The shell has started the program in the foreground and waits for it.
TestStarted == Launch(Schedule(Booted), OfConsole(FOREGROUND))

Tester == FirstIn(k.processList, {c \in Ctx : IsForeground(k, c)})

TesterRuns(loop) == at = loop /\ Tester # NULL /\ k.currentProcess = Tester

\* From the i-th turn of a loop to the next one, or to the loop that follows.
GoesOn(following) ==
    IF rq < MAX_RQ THEN rq' = rq + 1 /\ UNCHANGED at ELSE rq' = 1 /\ at' = following

ShellWaitsForTest ==
    /\ at = "shell" /\ k.currentPid = SHELL_PID
    /\ k' = WaitProcess(k, k.pid[Tester])
    /\ at' = "create"
    /\ UNCHANGED << p_rqs, rq >>

\* A process in the background with the priority 1, running endless_loop.
CreatesRq ==
    /\ TesterRuns("create")
    /\ IF k.processQty = MAX_PROCESS
       THEN at' = "error" /\ UNCHANGED << k, p_rqs, rq >>
       ELSE /\ \E t \in {Launch(k, OfConsole(BACKGROUND))} :
                /\ k' = t
                /\ p_rqs' = [p_rqs EXCEPT ![rq] =
                        [pid |-> t.pid[Last(t.processList)], state |-> "RUNNING"]]
            /\ GoesOn("act")

\* The three system calls return an error when there is no such process.
Unknown(pid) == FindProcess(k, pid) = NULL

Alive(table) == \E i \in Slots : table[i].state # "KILLED"

KillsRq ==
    /\ TesterRuns("act") /\ p_rqs[rq].state # "KILLED"
    /\ IF Unknown(p_rqs[rq].pid)
       THEN at' = "error" /\ UNCHANGED << k, p_rqs, rq >>
       ELSE /\ k' \in KillProcess(k, p_rqs[rq].pid)
            /\ p_rqs' = [p_rqs EXCEPT ![rq].state = "KILLED"]
            /\ GoesOn("unblock")

BlocksRq ==
    /\ TesterRuns("act") /\ p_rqs[rq].state = "RUNNING"
    /\ IF Unknown(p_rqs[rq].pid)
       THEN at' = "error" /\ UNCHANGED << k, p_rqs, rq >>
       ELSE /\ k' = BlockProcess(k, p_rqs[rq].pid)
            /\ p_rqs' = [p_rqs EXCEPT ![rq].state = "BLOCKED"]
            /\ GoesOn("unblock")

\* The action that was drawn does not apply.
PassesRq ==
    /\ TesterRuns("act") /\ p_rqs[rq].state # "RUNNING"
    /\ GoesOn("unblock")
    /\ UNCHANGED << k, p_rqs >>

\* Or the coin says no.  After the last one the inner loop is over if all are dead.
UnblocksRq ==
    /\ TesterRuns("unblock")
    /\ \/ /\ p_rqs[rq].state = "BLOCKED" /\ ~ Unknown(p_rqs[rq].pid)
          /\ k' = SetReadyProcess(k, p_rqs[rq].pid)
          /\ p_rqs' = [p_rqs EXCEPT ![rq].state = "RUNNING"]
          /\ GoesOn("act")
       \/ /\ p_rqs[rq].state = "BLOCKED" /\ Unknown(p_rqs[rq].pid)
          /\ at' = "error"
          /\ UNCHANGED << k, p_rqs, rq >>
       \/ /\ GoesOn(IF Alive(p_rqs) THEN "act" ELSE "create")
          /\ UNCHANGED << k, p_rqs >>

TesterStep ==
    \/ ShellWaitsForTest
    \/ CreatesRq \/ KillsRq \/ BlocksRq \/ PassesRq \/ UnblocksRq

-----------------------------------------------------------------------------
(***************************************************************************)
(* Properties.                                                             *)
(***************************************************************************)

\* The program never reports an error, and its table is true: what it killed is
\* gone, what it blocked stays blocked, what it unblocked can run, and nobody
\* else has one of the pids it holds, though they are used again and again.
TableIsTrue ==
    /\ at # "error"
    /\ \A i \in Slots : p_rqs[i].state # "KILLED" =>
        LET c == FindProcess(k, p_rqs[i].pid)
        IN  /\ c # NULL
            /\ (k.status[c] = "BLOCKED") = (p_rqs[i].state = "BLOCKED")
            /\ \A j \in Slots \ {i} : p_rqs[j].state # "KILLED" => p_rqs[j].pid # p_rqs[i].pid
    /\ at # "shell" =>
        k.processQty = 3 + Cardinality({i \in Slots : p_rqs[i].state # "KILLED"})

=============================================================================
