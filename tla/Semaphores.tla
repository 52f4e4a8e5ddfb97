------------------------------ MODULE Semaphores ------------------------------
(***************************************************************************)
(* The kernel semaphores: Kernel/utils/semaphores/semaphores.c, on top of  *)
(* the scheduler.                                                          *)
(*                                                                         *)
(* sem_wait blocks the caller through blockProcess and sem_post wakes a    *)
(* waiter through setReadyProcess; the queue of a semaphore holds PIDS,    *)
(* which outlive the processes they named.  The spinlock of a semaphore is *)
(* taken and released inside one handler, with interrupts off and never    *)
(* across a context switch, so on this single processor it is always free  *)
(* on entry and is not part of the state.                                  *)
(***************************************************************************)
EXTENDS Scheduler

CONSTANTS
    SemIds,         \* the identifiers in use, of 0 .. NUM_SEMS - 1
    InitialValues,  \* what sem_create is called with
    MAX_COUNT,      \* model bound: a counter is not posted beyond it
    MAX_QUEUE       \* model bound: pids in one waitQueue

ASSUME SemaphoresAssumption ==
    /\ SemIds \subseteq Nat
    /\ InitialValues \subseteq Nat
    /\ MAX_COUNT \in Nat
    /\ MAX_QUEUE \in Nat

VARIABLE sems

(***************************************************************************)
(* semaphore_t.  waitQueue is NULL exactly while the semaphore is not      *)
(* active; the list operations treat NULL as a list that stays empty.      *)
(***************************************************************************)
Semaphore == [active : BOOLEAN, counter : Nat, waitQueue : Seq(Pids)]

Inactive == [active |-> FALSE, counter |-> 0, waitQueue |-> << >>]

-----------------------------------------------------------------------------
(***************************************************************************)
(* The operations, on o = [k |-> scheduler state, sems |-> semaphores].    *)
(***************************************************************************)

SemCreate(o, id, value) ==
    IF o.sems[id].active THEN o
    ELSE [o EXCEPT !.sems[id] =
                [active |-> TRUE, counter |-> value, waitQueue |-> << >>]]

\* The waiters in the queue are neither woken nor told.
SemDestroy(o, id) ==
    IF o.sems[id].active THEN [o EXCEPT !.sems[id] = Inactive] ELSE o

Enqueue(sem, pid) ==
    IF sem.active THEN [sem EXCEPT !.waitQueue = Append(@, pid)] ELSE sem

\* Fault: a counter of 0 is taken for a token.
SemWaitOverdraws(o, id) ==
    IF o.sems[id].counter >= 0
    THEN [o EXCEPT !.sems[id].counter = @ - 1]
    ELSE [o EXCEPT !.sems[id] = Enqueue(@, o.k.currentPid),
                   !.k        = BlockProcess(@, o.k.currentPid)]

\* Fault: the caller queues its pid and goes on.
SemWaitWithoutBlocking(o, id) ==
    IF o.sems[id].counter > 0
    THEN [o EXCEPT !.sems[id].counter = @ - 1]
    ELSE [o EXCEPT !.sems[id] = Enqueue(@, o.k.currentPid)]

\* With no token left the caller queues its pid and blocks; whatever comes of
\* blockProcess, sem_wait returns 0 once it returns.
SemWait(o, id) ==
    IF o.sems[id].counter > 0
    THEN [o EXCEPT !.sems[id].counter = @ - 1]
    ELSE [o EXCEPT !.sems[id] = Enqueue(@, o.k.currentPid),
                   !.k        = BlockProcess(@, o.k.currentPid)]

\* The j-th smallest number of S.
Nth(S, j) == CHOOSE i \in S : Cardinality({h \in S : h <= i}) = j

\* The queue without the pids that no process has any more.  (SelectSeq would do,
\* but it is recursive, and KernelProofs proves what is said here.)
Purge(s, queue) ==
    LET kept == {i \in DOMAIN queue :
                    LET c == FindProcess(s, queue[i])
                    IN  c # NULL /\ s.status[c] # "TERMINATED"}
    IN  [j \in 1 .. Cardinality(kept) |-> queue[Nth(kept, j)]]

\* Fault: the token goes to a waiter and to the counter.
SemPostTwice(o, id) ==
    LET queue == Purge(o.k, o.sems[id].waitQueue)
    IN  IF queue # << >>
        THEN [o EXCEPT !.sems[id].waitQueue = Tail(queue),
                       !.sems[id].counter   = @ + 1,
                       !.k                  = SetReadyProcess(@, Head(queue))]
        ELSE [o EXCEPT !.sems[id].waitQueue = queue,
                       !.sems[id].counter   = @ + 1]

\* Fault: the waiter that is woken stays in the queue.
SemPostPeeks(o, id) ==
    LET queue == Purge(o.k, o.sems[id].waitQueue)
    IN  IF queue # << >>
        THEN [o EXCEPT !.sems[id].waitQueue = queue,
                       !.k                  = SetReadyProcess(@, Head(queue))]
        ELSE [o EXCEPT !.sems[id].waitQueue = queue,
                       !.sems[id].counter   = @ + 1]

SemPost(o, id) ==
    LET queue == Purge(o.k, o.sems[id].waitQueue)
    IN  IF queue # << >>
        THEN [o EXCEPT !.sems[id].waitQueue = Tail(queue),
                       !.k                  = SetReadyProcess(@, Head(queue))]
        ELSE [o EXCEPT !.sems[id].waitQueue = queue,
                       !.sems[id].counter   = @ + 1]

-----------------------------------------------------------------------------
vars == << k, sems >>

Now == [k |-> k, sems |-> sems]

Becomes(o) == k' = o.k /\ sems' = o.sems

SemInit == Init /\ sems = [id \in SemIds |-> Inactive]

SyscallSemInit(id, value) == UserRuns /\ Becomes(SemCreate(Now, id, value))
SyscallSemClose(id)       == UserRuns /\ Becomes(SemDestroy(Now, id))

SyscallSemWait(id) ==
    /\ UserRuns
    /\ Len(sems[id].waitQueue) < MAX_QUEUE
    /\ Becomes(SemWait(Now, id))

SyscallSemPost(id) ==
    /\ UserRuns
    /\ sems[id].counter < MAX_COUNT
    /\ Becomes(SemPost(Now, id))

\* A keyboard interrupt posts its semaphore whoever is running.
InterruptSemPost(id) ==
    /\ sems[id].counter < MAX_COUNT
    /\ Becomes(SemPost(Now, id))

\* Processes that use semaphores, start others, wait for them and exit, while
\* nobody kills or unblocks a process or closes a semaphore.
OrderlyNext ==
    \/ \E id \in SemIds, value \in InitialValues : SyscallSemInit(id, value)
    \/ \E id \in SemIds : SyscallSemWait(id)
    \/ \E id \in SemIds : SyscallSemPost(id)
    \/ \E id \in SemIds : InterruptSemPost(id)
    \/ /\ UNCHANGED sems
       /\ \/ TimerTick
          \/ \E program \in Programs : SyscallCreateProcess(program)
          \/ SyscallExit
          \/ SyscallYield
          \/ \E pid \in Pids : SyscallWait(pid)

DisorderlyNext ==
    \/ \E id \in SemIds : SyscallSemClose(id)
    \/ /\ UNCHANGED sems
       /\ \/ \E pid \in Targets : SyscallKill(pid)
          \/ CtrlC
          \/ \E pid \in Targets : SyscallBlock(pid)
          \/ \E pid \in Pids : SyscallSetReady(pid)

SemNext == OrderlyNext \/ DisorderlyNext

\* Orderly processes, of which Ctrl+C and kill may take any.
KillingNext ==
    \/ OrderlyNext
    \/ /\ UNCHANGED sems
       /\ CtrlC \/ \E pid \in Targets : SyscallKill(pid)

SemSpec     == SemInit /\ [][SemNext]_vars
OrderlySpec == SemInit /\ [][OrderlyNext]_vars
KillingSpec == SemInit /\ [][KillingNext]_vars

-----------------------------------------------------------------------------
(***************************************************************************)
(* Properties.                                                             *)
(***************************************************************************)

\* Each semaphore keeps its type: sem_wait never takes a counter, an unsigned
\* integer in the code, below zero, and only pids are queued.
SemTypeOK == sems \in [SemIds -> Semaphore]

\* sem_post never keeps a token back from a waiter: nobody is queued on a
\* semaphore that has tokens, whatever is killed, unblocked or destroyed around it.
NoTokenWithheld ==
    \A id \in SemIds : sems[id].counter > 0 => sems[id].waitQueue = << >>

Queued(id) == ToSet(sems[id].waitQueue)

\* Among orderly processes the queues are exact: each pid in one is that of a
\* blocked process, and it is there once, in one queue only.
QueuesHoldTheBlocked ==
    /\ \A id \in SemIds : IsInjective(sems[id].waitQueue)
    /\ \A id, other \in SemIds : id # other => Queued(id) \cap Queued(other) = {}
    /\ \A id \in SemIds : \A pid \in Queued(id) :
        LET c == FindProcess(k, pid) IN c # NULL /\ k.status[c] = "BLOCKED"

\* A post with somebody in the queue hands the token to a process that is
\* waiting: it does not vanish with a process that died or never waited.
HandsTokenOver ==
    \A id \in SemIds :
        SyscallSemPost(id) /\ sems'[id].counter = sems[id].counter =>
            \E c \in Ctx : k.status[c] = "BLOCKED" /\ k'.status[c] = "READY"

PostWakesAWaiter == [][HandsTokenOver]_vars

=============================================================================
