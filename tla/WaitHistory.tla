----------------------------- MODULE WaitHistory -----------------------------
(***************************************************************************)
(* The scheduler with a history variable that remembers for whom each      *)
(* blocked process called waitProcess, to state what process.h promises of *)
(* it.  Nobody uses block or unblock here.                                 *)
(***************************************************************************)
EXTENDS Scheduler

VARIABLE waitsFor   \* [Ctx -> Ctx \cup {NULL}], history only

historyVars == << k, waitsFor >>

\* A process that is no longer blocked waits for nobody.
Forget(w) == IF k'.status[w] = "BLOCKED" THEN waitsFor[w] ELSE NULL

HistoryInit == Init /\ waitsFor = [c \in Ctx |-> NULL]

HistoryWait(pid) ==
    /\ SyscallWait(pid)
    /\ waitsFor' = [w \in Ctx |->
            IF w = k.currentProcess /\ k'.status[w] = "BLOCKED"
            THEN FindProcess(k, pid) ELSE Forget(w)]

HistoryNext ==
    \/ \E pid \in Pids : HistoryWait(pid)
    \/ /\ \/ TimerTick
          \/ \E program \in Programs : SyscallCreateProcess(program)
          \/ \E pid \in Targets : SyscallKill(pid)
          \/ SyscallExit
          \/ SyscallYield
          \/ CtrlC
       /\ waitsFor' = [w \in Ctx |-> Forget(w)]

HistorySpec == HistoryInit /\ [][HistoryNext]_historyVars

\* process.h on waitProcess: the caller stays blocked until the process it
\* named terminates.
WaitEndsWithTarget ==
    [][\A w \in Ctx :
        /\ waitsFor[w] # NULL
        /\ k.status[w] = "BLOCKED"
        /\ k'.status[w] \in {"READY", "RUNNING"}
        => k'.status[waitsFor[w]] \notin Live]_historyVars

=============================================================================
