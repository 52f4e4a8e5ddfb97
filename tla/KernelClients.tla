----------------------------- MODULE KernelClients -----------------------------
(***************************************************************************)
(* Three kinds of most general client of the scheduler and the semaphores, *)
(* one of which a behaviour chooses at the start:                          *)
(*   "processes"  start, kill, block, unblock, wait for and renice each    *)
(*                other, pipelines among them, without semaphores;         *)
(*   "orderly"    use several semaphores and are left alone;               *)
(*   "disturbed"  share one semaphore and may be killed, blocked and       *)
(*                unblocked at any moment, or find it closed.              *)
(***************************************************************************)
EXTENDS Semaphores

CONSTANT SharedSem      \* the semaphore that disturbed processes use

ASSUME SharedSemAssumption == SharedSem \in SemIds

VARIABLE client         \* never changes

clientVars == << vars, client >>

ClientsInit == SemInit /\ client \in {"processes", "orderly", "disturbed"}

Foreground(s) ==
    {c \in Ctx : s.pid[c] \in Targets /\ s.ground[c] = FOREGROUND}

\* Model bounds: the foreground processes are in pipelines where there are no
\* semaphores, none is where there are, and the disturbed wait for nobody.
ForegroundPiped == \A c \in Foreground(k') : PipedFd(k', c) # -1
ConsoleOnly == \A c \in Ctx : k'.fdIn[c] \in {-1, STDIN} /\ k'.fdOut[c] \in {-1, STDOUT}
NobodyWaits == \A c \in Ctx : k'.waitingList[c] = << >>

ClientsNext ==
    /\ UNCHANGED client
    /\ \/ client = "processes" /\ Next /\ ForegroundPiped /\ UNCHANGED sems
       \/ client = "orderly" /\ OrderlyNext /\ ConsoleOnly
       \/ /\ client = "disturbed" /\ SemNext /\ ConsoleOnly /\ NobodyWaits
          /\ \A id \in SemIds \ {SharedSem} : sems'[id] = sems[id]

ClientsSpec == ClientsInit /\ [][ClientsNext]_clientVars

-----------------------------------------------------------------------------
\* Nobody waits in two queues, twice in one, or awake: a sem_post finds a
\* blocked process behind every pid, as long as nobody disturbs.
OrderlyQueuesHoldTheBlocked == client = "orderly" => QueuesHoldTheBlocked

\* Under the same condition each sem_post that meets a waiter wakes one.
OrderlyPostWakesAWaiter == [][client = "orderly" => HandsTokenOver]_clientVars

=============================================================================
