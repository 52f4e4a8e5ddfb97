----------------------------- MODULE KernelProofs -----------------------------
(***************************************************************************)
(* The scheduler's safety invariants, proved for every number of contexts, *)
(* processes, priorities, pipes and waiters.                               *)
(*                                                                         *)
(* None of the invariants is inductive alone: that a list operation finds  *)
(* its node needs Lists, that Lists survives kill() needs Cpu (a process   *)
(* that runs is in no list) and Identity, that schedule() finds somebody   *)
(* needs Survivors, and that kill() spares the survivors needs Roles.      *)
(* Their conjunction Inv is.  There is one lemma for each kernel function; *)
(* the functions a handler is made of pass Inv, Mid or Parked from one to  *)
(* the next.                                                               *)
(*                                                                         *)
(* Then the semaphores, for every set of them and every bound: sem_wait    *)
(* and sem_post enter the scheduler through blockProcess and               *)
(* setReadyProcess only.                                                   *)
(*                                                                         *)
(* Last, for the proofs about programs: what each operation of semaphores  *)
(* and scheduler does to processes that nobody kills (Orderly, and with    *)
(* waitProcess and exit Peaceful), which keep their tokens (Supply).       *)
(***************************************************************************)
EXTENDS Semaphores, ListLemmas, FiniteSetTheorems

\* A toBegin/hasNext/nextInList search returns an element that matches, and
\* NULL only when no element does.
LEMMA FirstInProperty ==
    ASSUME NEW list \in Seq(Ctx), NEW S
    PROVE  /\ FirstIn(list, S) = NULL <=> ToSet(list) \cap S = {}
           /\ FirstIn(list, S) # NULL => FirstIn(list, S) \in ToSet(list) \cap S
<1>. DEFINE at == {i \in DOMAIN list : list[i] \in S}
<1>1. CASE at = {}
  BY <1>1 DEF FirstIn, ToSet
<1>2. CASE at # {}
  <2>1. at \in SUBSET Nat
    OBVIOUS
  <2>2. Min(at) \in at
    BY <1>2, <2>1, MinProperty
  <2>3. list[Min(at)] \in Ctx
    BY <2>2
  <2>. QED
    BY <1>2, <2>2, <2>3, SchedulerAssumption DEF FirstIn, ToSet
<1>. QED
  BY <1>1, <1>2

-----------------------------------------------------------------------------
(***************************************************************************)
(* The inductive invariant, over a state s: what every handler finds and   *)
(* leaves.  In the middle of a handler the current process may already be  *)
(* BLOCKED (Mid), and in the middle of schedule() nobody runs (Parked).    *)
(***************************************************************************)
Common(s) == s \in Kernel /\ Lists(s) /\ Identity(s) /\ Survivors(s) /\ Roles(s)

Inv(s) == Common(s) /\ Cpu(s)

CpuMid(s) ==
    /\ \A c \in Ctx : s.status[c] \in {"RUNNING", "TERMINATED"} => c = s.currentProcess
    /\ s.currentProcess = NULL => s.currentPid = NO_PROCESS
    /\ s.currentProcess # NULL =>
        /\ s.status[s.currentProcess] # "FREED"
        /\ s.currentPid = s.pid[s.currentProcess]

Mid(s) == Common(s) /\ CpuMid(s)

Parked(s) == Common(s) /\ \A c \in Ctx : s.status[c] \notin {"RUNNING", "TERMINATED"}

-----------------------------------------------------------------------------
(***************************************************************************)
(* schedule().                                                             *)
(***************************************************************************)

\* Idle is in the ready list whenever nobody runs.
LEMMA SomebodyReady ==
    ASSUME NEW s, Parked(s)
    PROVE  s.readyProcess # << >>
<1>1. PICK c \in Ctx : s.status[c] = "READY"
  BY DEF Parked, Common, Survivors
<1>2. c \in ToSet(s.readyProcess)
  BY <1>1 DEF Parked, Common, Lists
<1>. QED
  BY <1>2 DEF ToSet

\* Dispatching the head of the ready list restores the invariant.
LEMMA DispatchFirstInv ==
    ASSUME NEW s, Parked(s)
    PROVE  Inv(DispatchFirst(s))
<1>. DEFINE c == Head(s.readyProcess)
            t == DispatchFirst(s)
<1>1. s \in Kernel /\ s.readyProcess \in Seq(Ctx) /\ s.readyProcess # << >>
  BY SomebodyReady DEF Parked, Common, Kernel
<1>2. /\ c \in Ctx /\ s.status[c] = "READY"
      /\ Tail(s.readyProcess) \in Seq(Ctx)
      /\ IsInjective(Tail(s.readyProcess))
      /\ \A d : d \in ToSet(Tail(s.readyProcess)) <=> d \in ToSet(s.readyProcess) /\ d # c
  BY <1>1, TailProperty, ToSetProperty DEF Parked, Common, Lists
<1>. HIDE DEF c
<1>3. t = [s EXCEPT !.readyProcess   = Tail(@),
                    !.currentProcess = c,
                    !.currentPid     = s.pid[c],
                    !.quantums       = s.priority[c],
                    !.status[c]      = "RUNNING"]
  BY <1>1, <1>2 DEF DispatchFirst, Dispatch, Kernel, c
<1>4. t \in Kernel
  <2>1. /\ "RUNNING" \in Statuses
        /\ Priorities \subseteq Int
    BY SchedulerAssumption DEF Statuses, Live, Priorities, MIN_PRIORITY
  <2>2. s.priority[c] \in Int /\ s.pid[c] \in Pids \cup {NO_PROCESS}
    BY <1>1, <1>2, <2>1 DEF Kernel
  <2>3. [s.status EXCEPT ![c] = "RUNNING"] \in [Ctx -> Statuses]
    BY <1>1, <2>1 DEF Kernel
  <2>. QED
    BY <1>1, <1>2, <1>3, <2>2, <2>3, ZenonT(60) DEF Kernel
<1>5. /\ t.processList = s.processList /\ t.readyProcess = Tail(s.readyProcess)
      /\ t.blockedProcess = s.blockedProcess /\ t.processQty = s.processQty
      /\ t.currentProcess = c /\ t.currentPid = s.pid[c]
      /\ t.pid = s.pid /\ t.ground = s.ground /\ t.fdIn = s.fdIn /\ t.fdOut = s.fdOut
      /\ t.status = [s.status EXCEPT ![c] = "RUNNING"]
  BY <1>1, <1>3 DEF Kernel
<1>. HIDE DEF t
<1>6. \A d \in Ctx : t.status[d] = IF d = c THEN "RUNNING" ELSE s.status[d]
  BY <1>1, <1>2, <1>5 DEF Kernel
<1>7. Lists(t)
  BY <1>2, <1>5, <1>6 DEF Parked, Common, Lists, Live
<1>8. Identity(t) /\ Survivors(t) /\ Roles(t)
  BY <1>2, <1>5, <1>6 DEF Parked, Common, Identity, Survivors, Roles, Live
<1>9. Cpu(t)
  BY <1>2, <1>5, <1>6, SchedulerAssumption DEF Parked, Cpu
<1>. QED
  BY <1>4, <1>7, <1>8, <1>9 DEF Inv, Common, t

\* freeProcess changes the fields of that context only.
LEMMA FreeProcessFrame ==
    ASSUME NEW s \in Kernel, NEW c \in Ctx
    PROVE  LET f == FreeProcess(s, c)
           IN  /\ f \in Kernel
               /\ f.processList = s.processList /\ f.readyProcess = s.readyProcess
               /\ f.blockedProcess = s.blockedProcess /\ f.processQty = s.processQty
               /\ f.currentProcess = s.currentProcess /\ f.currentPid = s.currentPid
               /\ f.pid = [s.pid EXCEPT ![c] = NO_PROCESS]
               /\ f.ground = [s.ground EXCEPT ![c] = FOREGROUND]
               /\ f.fdIn = [s.fdIn EXCEPT ![c] = -1] /\ f.fdOut = [s.fdOut EXCEPT ![c] = -1]
               /\ f.status = [s.status EXCEPT ![c] = "FREED"]
<1>. DEFINE f == FreeProcess(s, c)
            Pid == Pids \cup {NO_PROCESS}
            List == Seq(Ctx \cup {NULL})
<1>1. /\ "FREED" \in Statuses /\ MIN_PRIORITY \in Priorities /\ FOREGROUND \in Grounds
      /\ -1 \in Fds /\ NO_PROCESS \in Pid /\ << >> \in List
  BY SchedulerAssumption DEF Statuses, Priorities, MIN_PRIORITY, Grounds, Fds
<1>2. /\ [s.pid EXCEPT ![c] = NO_PROCESS] \in [Ctx -> Pid]
      /\ [s.priority EXCEPT ![c] = MIN_PRIORITY] \in [Ctx -> Priorities]
      /\ [s.ground EXCEPT ![c] = FOREGROUND] \in [Ctx -> Grounds]
      /\ [s.fdIn EXCEPT ![c] = -1] \in [Ctx -> Fds]
      /\ [s.fdOut EXCEPT ![c] = -1] \in [Ctx -> Fds]
      /\ [s.status EXCEPT ![c] = "FREED"] \in [Ctx -> Statuses]
      /\ [s.waitingList EXCEPT ![c] = << >>] \in [Ctx -> List]
  BY <1>1 DEF Kernel
<1>3. f \in Kernel
  BY <1>2 DEF Kernel, FreeProcess
<1>4. /\ f.processList = s.processList /\ f.readyProcess = s.readyProcess
      /\ f.blockedProcess = s.blockedProcess /\ f.processQty = s.processQty
      /\ f.currentProcess = s.currentProcess /\ f.currentPid = s.currentPid
      /\ f.pid = [s.pid EXCEPT ![c] = NO_PROCESS]
      /\ f.ground = [s.ground EXCEPT ![c] = FOREGROUND]
      /\ f.fdIn = [s.fdIn EXCEPT ![c] = -1] /\ f.fdOut = [s.fdOut EXCEPT ![c] = -1]
      /\ f.status = [s.status EXCEPT ![c] = "FREED"]
  BY DEF FreeProcess, Kernel
<1>. QED
  BY <1>3, <1>4

\* After schedule() has dealt with the process that loses the processor, nobody
\* runs and the lists agree with the states again.
LEMMA RetireParked ==
    ASSUME NEW s, Mid(s)
    PROVE  Parked(Retire(s))
<1>. DEFINE c == s.currentProcess
            t == Retire(s)
<1>1. s \in Kernel /\ c \in Ctx \cup {NULL}
  BY DEF Mid, Common, Kernel
<1>2. CASE c = NULL
  BY <1>2, SchedulerAssumption DEF Mid, CpuMid, Parked, Retire
<1>3. CASE c \in Ctx /\ s.status[c] = "TERMINATED"
  <2>1. t = [FreeProcess(s, c) EXCEPT !.currentProcess = NULL, !.currentPid = NO_PROCESS]
    BY <1>3, SchedulerAssumption DEF Retire
  <2>. DEFINE f == FreeProcess(s, c)
  <2>a. /\ f \in Kernel
        /\ f.processList = s.processList /\ f.readyProcess = s.readyProcess
        /\ f.blockedProcess = s.blockedProcess /\ f.processQty = s.processQty
        /\ f.pid = [s.pid EXCEPT ![c] = NO_PROCESS]
        /\ f.ground = [s.ground EXCEPT ![c] = FOREGROUND]
        /\ f.fdIn = [s.fdIn EXCEPT ![c] = -1] /\ f.fdOut = [s.fdOut EXCEPT ![c] = -1]
        /\ f.status = [s.status EXCEPT ![c] = "FREED"]
    BY <1>1, <1>3, FreeProcessFrame
  <2>. HIDE DEF f
  <2>b. t \in Kernel
    BY <2>1, <2>a DEF Kernel, f
  <2>2. /\ t.processList = s.processList /\ t.readyProcess = s.readyProcess
        /\ t.blockedProcess = s.blockedProcess /\ t.processQty = s.processQty
        /\ t.pid = [s.pid EXCEPT ![c] = NO_PROCESS]
        /\ t.ground = [s.ground EXCEPT ![c] = FOREGROUND]
        /\ t.fdIn = [s.fdIn EXCEPT ![c] = -1] /\ t.fdOut = [s.fdOut EXCEPT ![c] = -1]
        /\ t.status = [s.status EXCEPT ![c] = "FREED"]
    BY <2>1, <2>a DEF Kernel, f
  <2>. HIDE DEF t
  <2>3. \A d \in Ctx : /\ t.status[d] = IF d = c THEN "FREED" ELSE s.status[d]
                       /\ d # c => /\ t.pid[d] = s.pid[d] /\ t.ground[d] = s.ground[d]
                                   /\ t.fdIn[d] = s.fdIn[d] /\ t.fdOut[d] = s.fdOut[d]
    BY <1>1, <2>2 DEF Kernel
  <2>4. Lists(t)
    BY <1>3, <2>2, <2>3 DEF Mid, Common, Lists, Live
  <2>5. Identity(t) /\ Survivors(t) /\ Roles(t)
    BY <1>3, <2>2, <2>3 DEF Mid, Common, Identity, Survivors, Roles, Live
  <2>6. \A d \in Ctx : t.status[d] \notin {"RUNNING", "TERMINATED"}
    BY <2>3 DEF Mid, CpuMid
  <2>. QED
    BY <2>b, <2>4, <2>5, <2>6 DEF Parked, Common, t
<1>4. CASE c \in Ctx /\ s.status[c] = "RUNNING"
  <2>1. t = [s EXCEPT !.status[c] = "READY", !.readyProcess = Append(@, c)]
    BY <1>4, SchedulerAssumption DEF Retire
  <2>2. /\ s.readyProcess \in Seq(Ctx)
        /\ IsInjective(s.readyProcess) /\ c \notin ToSet(s.readyProcess)
    BY <1>1, <1>4 DEF Mid, Common, Lists, Kernel
  <2>3. /\ Append(s.readyProcess, c) \in Seq(Ctx)
        /\ IsInjective(Append(s.readyProcess, c))
        /\ \A d : d \in ToSet(Append(s.readyProcess, c)) <=> d \in ToSet(s.readyProcess) \/ d = c
    BY <1>4, <2>2, AppendProperty
  <2>a. t \in Kernel
    <3>1. [s.status EXCEPT ![c] = "READY"] \in [Ctx -> Statuses]
      BY <1>1 DEF Kernel, Statuses, Live
    <3>. QED
      BY <1>1, <2>1, <2>3, <3>1 DEF Kernel
  <2>4. /\ t.processList = s.processList /\ t.readyProcess = Append(s.readyProcess, c)
        /\ t.blockedProcess = s.blockedProcess /\ t.processQty = s.processQty
        /\ t.pid = s.pid /\ t.ground = s.ground /\ t.fdIn = s.fdIn /\ t.fdOut = s.fdOut
        /\ t.status = [s.status EXCEPT ![c] = "READY"]
    BY <1>1, <2>1 DEF Kernel
  <2>. HIDE DEF t
  <2>5. \A d \in Ctx : t.status[d] = IF d = c THEN "READY" ELSE s.status[d]
    BY <1>1, <2>4 DEF Kernel
  <2>6. Lists(t)
    BY <1>4, <2>3, <2>4, <2>5 DEF Mid, Common, Lists, Live
  <2>7. Identity(t) /\ Survivors(t) /\ Roles(t)
    BY <1>4, <2>4, <2>5 DEF Mid, Common, Identity, Survivors, Roles, Live
  <2>8. \A d \in Ctx : t.status[d] \notin {"RUNNING", "TERMINATED"}
    BY <2>5 DEF Mid, CpuMid
  <2>. QED
    BY <2>a, <2>6, <2>7, <2>8 DEF Parked, Common, t
<1>5. CASE c \in Ctx /\ s.status[c] \notin {"TERMINATED", "RUNNING"}
  <2>1. t = s
    BY <1>5, SchedulerAssumption DEF Retire
  <2>. QED
    BY <2>1, <1>5 DEF Mid, CpuMid, Parked
<1>. QED
  BY <1>1, <1>2, <1>3, <1>4, <1>5

\* The context switch restores the invariant, and never finds the ready list
\* empty: the fallback to idle is dead code while idle survives.
LEMMA SwitchInv ==
    ASSUME NEW s, Mid(s)
    PROVE  Inv(Switch(s))
<1>1. CASE s.currentPid = NO_PROCESS
  <2>1. s.currentProcess = NULL
    BY <1>1 DEF Mid, Common, CpuMid, Identity, Kernel, Pids, NO_PROCESS
  <2>2. Parked(s)
    BY <2>1, SchedulerAssumption DEF Mid, CpuMid, Parked
  <2>. QED
    BY <1>1, <2>2, SomebodyReady, DispatchFirstInv DEF Switch
<1>2. CASE s.currentPid # NO_PROCESS
  <2>1. Parked(Retire(s))
    BY RetireParked
  <2>. QED
    BY <1>2, <2>1, SomebodyReady, DispatchFirstInv DEF Switch
<1>. QED
  BY <1>1, <1>2

\* Idle is in the process list, so schedule() never returns for want of one.
LEMMA SomebodyExists ==
    ASSUME NEW s, Common(s)
    PROVE  s.processQty # 0
<1>1. PICK c \in Ctx : s.status[c] \in Live
  BY DEF Common, Survivors
<1>2. c \in ToSet(s.processList) /\ s.processList \in Seq(Ctx)
  BY <1>1 DEF Common, Lists, Kernel
<1>3. PICK i \in 1 .. Len(s.processList) : s.processList[i] = c
  BY <1>2, ToSetProperty
<1>. QED
  BY <1>2, <1>3 DEF Common, Identity

\* The quantum plays no part in the invariant.
LEMMA QuantumFrame ==
    ASSUME NEW s, NEW q \in Int
    PROVE  /\ Mid(s) => Mid([s EXCEPT !.quantums = q])
           /\ Inv(s) => Inv([s EXCEPT !.quantums = q])
<1>. DEFINE t == [s EXCEPT !.quantums = q]
<1>. SUFFICES ASSUME s \in Kernel PROVE (Mid(s) => Mid(t)) /\ (Inv(s) => Inv(t))
  BY DEF Mid, Inv, Common
<1>1. /\ t \in Kernel
      /\ t.processList = s.processList /\ t.readyProcess = s.readyProcess
      /\ t.blockedProcess = s.blockedProcess /\ t.processQty = s.processQty
      /\ t.currentProcess = s.currentProcess /\ t.currentPid = s.currentPid
      /\ t.pid = s.pid /\ t.ground = s.ground /\ t.fdIn = s.fdIn /\ t.fdOut = s.fdOut
      /\ t.status = s.status
  BY DEF Kernel
<1>. HIDE DEF t
<1>2. /\ Lists(s) => Lists(t)
      /\ Identity(s) => Identity(t)
      /\ Survivors(s) => Survivors(t)
      /\ Roles(s) => Roles(t)
  BY <1>1 DEF Lists, Identity, Survivors, Roles
<1>3. (Cpu(s) => Cpu(t)) /\ (CpuMid(s) => CpuMid(t))
  BY <1>1 DEF Cpu, CpuMid
<1>. QED
  BY <1>1, <1>2, <1>3 DEF Mid, Inv, Common

\* Between handlers the current process is not blocked; in the middle of one it
\* may be.
LEMMA InvIsMid ==
    ASSUME NEW s, Inv(s)
    PROVE  Mid(s)
BY DEF Inv, Mid, Cpu, CpuMid

\* A timer tick, whether or not it ends the quantum.
LEMMA ScheduleInv ==
    ASSUME NEW s, Inv(s)
    PROVE  Inv(Schedule(s))
<1>. DEFINE t == [s EXCEPT !.quantums = @ - 1]
<1>1. s \in Kernel /\ s.quantums - 1 \in Int
  BY DEF Inv, Common, Kernel
<1>2. t = [s EXCEPT !.quantums = s.quantums - 1]
  BY <1>1 DEF Kernel
<1>3. Inv(t)
  BY <1>1, <1>2, QuantumFrame
<1>4. Inv(Switch(t))
  BY <1>3, InvIsMid, SwitchInv
<1>. QED
  BY <1>3, <1>4 DEF Schedule

\* yield() always switches, also from a process that has just blocked itself.
LEMMA YieldInv ==
    ASSUME NEW s, Mid(s)
    PROVE  Inv(Yield(s))
<1>. DEFINE u == [s EXCEPT !.quantums = 0]
            t == [u EXCEPT !.quantums = @ - 1]
<1>1. s \in Kernel
  BY DEF Mid, Common
<1>2. t = [s EXCEPT !.quantums = -1] /\ t.quantums = -1
  <2>1. u.quantums = 0 /\ t = [u EXCEPT !.quantums = -1]
    BY <1>1 DEF Kernel
  <2>. QED
    BY <1>1, <2>1 DEF Kernel
<1>3. Mid(t)
  BY <1>2, QuantumFrame
<1>4. t.processQty # 0
  BY <1>3, SomebodyExists DEF Mid
<1>5. Yield(s) = Switch(t)
  BY <1>2, <1>4 DEF Yield, Schedule
<1>. QED
  BY <1>3, <1>5, SwitchInv

-----------------------------------------------------------------------------
(***************************************************************************)
(* Moving a process between the lists.  Between its Detach and its new     *)
(* status a process x is in neither list whatever its status says.         *)
(***************************************************************************)
ListsBut(s, x) ==
    /\ IsInjective(s.processList)
    /\ IsInjective(s.readyProcess)
    /\ \A c \in Ctx :
        /\ c \in ToSet(s.processList)  <=> s.status[c] \in Live
        /\ c \in ToSet(s.readyProcess) <=> s.status[c] = "READY" /\ c # x
        /\ s.blockedProcess[c] = IF s.status[c] = "BLOCKED" /\ c # x THEN 1 ELSE 0

\* What Detach and Wake leave alone.
SameProcesses(s, t) ==
    /\ t.processList = s.processList /\ t.processQty = s.processQty
    /\ t.currentProcess = s.currentProcess /\ t.currentPid = s.currentPid
    /\ t.pid = s.pid /\ t.ground = s.ground /\ t.fdIn = s.fdIn /\ t.fdOut = s.fdOut

\* removeNode takes a process out of the list of its status.
LEMMA DetachProperty ==
    ASSUME NEW s \in Kernel, Lists(s), NEW c \in Ctx
    PROVE  /\ Detach(s, c) \in Kernel
           /\ ListsBut(Detach(s, c), c)
           /\ SameProcesses(s, Detach(s, c))
           /\ Detach(s, c).status = s.status
<1>. DEFINE t == Detach(s, c)
<1>1. CASE s.status[c] = "READY"
  <2>1. t = [s EXCEPT !.readyProcess = RemoveFirst(@, c)]
    BY <1>1 DEF Detach
  <2>2. s.readyProcess \in Seq(Ctx) /\ IsInjective(s.readyProcess) /\ c \in ToSet(s.readyProcess)
    BY <1>1 DEF Lists, Kernel
  <2>3. /\ RemoveFirst(s.readyProcess, c) \in Seq(Ctx)
        /\ IsInjective(RemoveFirst(s.readyProcess, c))
        /\ ToSet(RemoveFirst(s.readyProcess, c)) = ToSet(s.readyProcess) \ {c}
    BY <2>2, RemoveFirstProperty
  <2>4. /\ t \in Kernel /\ SameProcesses(s, t) /\ t.status = s.status
        /\ t.readyProcess = RemoveFirst(s.readyProcess, c)
        /\ t.blockedProcess = s.blockedProcess
    BY <2>1, <2>3 DEF Kernel, SameProcesses
  <2>. HIDE DEF t
  <2>5. ListsBut(t, c)
    BY <1>1, <2>3, <2>4 DEF Lists, ListsBut, SameProcesses
  <2>. QED
    BY <2>4, <2>5 DEF t
<1>2. CASE s.status[c] = "BLOCKED"
  <2>1. t = [s EXCEPT !.blockedProcess[c] = @ - 1]
    BY <1>2 DEF Detach
  <2>2. s.blockedProcess[c] = 1 /\ s.blockedProcess \in [Ctx -> Nat]
    BY <1>2 DEF Lists, Kernel
  <2>3. [s.blockedProcess EXCEPT ![c] = @ - 1] \in [Ctx -> Nat]
    BY <2>2
  <2>4. /\ t \in Kernel /\ SameProcesses(s, t) /\ t.status = s.status
        /\ t.readyProcess = s.readyProcess
        /\ t.blockedProcess = [s.blockedProcess EXCEPT ![c] = @ - 1]
    BY <2>1, <2>3 DEF Kernel, SameProcesses
  <2>. HIDE DEF t
  <2>5. \A d \in Ctx : t.blockedProcess[d] = IF d = c THEN 0 ELSE s.blockedProcess[d]
    BY <2>2, <2>4
  <2>6. ListsBut(t, c)
    BY <1>2, <2>4, <2>5 DEF Lists, ListsBut, SameProcesses
  <2>. QED
    BY <2>4, <2>6 DEF t
<1>3. CASE s.status[c] \notin {"READY", "BLOCKED"}
  <2>1. t = s
    BY <1>3 DEF Detach
  <2>. QED
    BY <1>3, <2>1 DEF Lists, ListsBut, SameProcesses
<1>. QED
  BY <1>1, <1>2, <1>3

\* A process in the list of its status is always found there.
LEMMA DetachSucceeds ==
    ASSUME NEW s \in Kernel, Lists(s), NEW c \in Ctx
    PROVE  ~ DetachFails(s, c)
BY DEF Lists, DetachFails

\* setReadyProcess moves blocked processes to the end of the ready list.
LEMMA WakeProperty ==
    ASSUME NEW s \in Kernel, NEW x, ListsBut(s, x),
           NEW w \in Seq(Ctx), IsInjective(w), \A c \in ToSet(w) : CanWake(s, c),
           NEW t, t = Wake(s, w)
    PROVE  /\ t \in Kernel
           /\ ListsBut(t, x)
           /\ SameProcesses(s, t)
           /\ \A c \in Ctx :
                /\ c \in ToSet(w) => s.status[c] = "BLOCKED" /\ c # x /\ t.status[c] = "READY"
                /\ c \notin ToSet(w) => t.status[c] = s.status[c]
<1>1. \A c \in Ctx : c \in ToSet(w) => s.status[c] = "BLOCKED" /\ c # x /\ s.blockedProcess[c] = 1
  BY DEF CanWake, ListsBut
<1>2. /\ s.readyProcess \in Seq(Ctx) /\ IsInjective(s.readyProcess)
      /\ \A d \in Ctx : ~ (d \in ToSet(s.readyProcess) /\ d \in ToSet(w))
  BY <1>1 DEF ListsBut, Kernel
<1>3. /\ s.readyProcess \o w \in Seq(Ctx)
      /\ IsInjective(s.readyProcess \o w)
      /\ \A d : d \in ToSet(s.readyProcess \o w) <=> d \in ToSet(s.readyProcess) \/ d \in ToSet(w)
  BY <1>2, ConcatProperty
<1>. DEFINE B == [c \in Ctx |-> IF c \in ToSet(w) THEN s.blockedProcess[c] - 1
                                                 ELSE s.blockedProcess[c]]
            S == [c \in Ctx |-> IF c \in ToSet(w) THEN "READY" ELSE s.status[c]]
<1>4. B \in [Ctx -> Nat] /\ S \in [Ctx -> Statuses]
  BY <1>1 DEF Kernel, Statuses, Live
<1>5. t = [s EXCEPT !.readyProcess = @ \o w, !.blockedProcess = B, !.status = S]
  BY DEF Wake, Kernel
<1>6. /\ \A c \in Ctx : B[c] = IF c \in ToSet(w) THEN s.blockedProcess[c] - 1
                                                  ELSE s.blockedProcess[c]
      /\ \A c \in Ctx : S[c] = IF c \in ToSet(w) THEN "READY" ELSE s.status[c]
  OBVIOUS
<1>. HIDE DEF B, S
<1>7. t \in Kernel
  BY <1>3, <1>4, <1>5 DEF Kernel
<1>8. /\ SameProcesses(s, t) /\ t.readyProcess = s.readyProcess \o w
      /\ t.blockedProcess = B /\ t.status = S
  BY <1>5 DEF Kernel, SameProcesses
<1>9. ListsBut(t, x)
  BY <1>1, <1>3, <1>6, <1>8 DEF ListsBut, SameProcesses, Live
<1>. QED
  BY <1>1, <1>6, <1>7, <1>8, <1>9

\* setReadyProcess, which sem_post and kill() call too.
LEMMA SetReadyProcessInv ==
    ASSUME NEW s, Inv(s), NEW pid
    PROVE  Inv(SetReadyProcess(s, pid))
<1>. DEFINE c == FindProcess(s, pid)
            t == Wake(s, << c >>)
<1>1. s \in Kernel /\ ListsBut(s, NULL)
  BY SchedulerAssumption DEF Inv, Common, Lists, ListsBut
<1>2. CASE c # NULL /\ CanWake(s, c)
  <2>1. c \in Ctx
    BY <1>1, <1>2, FirstInProperty DEF FindProcess, Kernel
  <2>. HIDE DEF c
  <2>2. << c >> \in Seq(Ctx) /\ IsInjective(<< c >>) /\ ToSet(<< c >>) = {c}
    BY <2>1 DEF IsInjective, ToSet
  <2>3. /\ t \in Kernel /\ ListsBut(t, NULL) /\ SameProcesses(s, t)
        /\ s.status[c] = "BLOCKED" /\ t.status[c] = "READY"
        /\ \A d \in Ctx : d # c => t.status[d] = s.status[d]
    <3>. DEFINE w == << c >>
    <3>1. w \in Seq(Ctx) /\ IsInjective(w) /\ \A d \in ToSet(w) : CanWake(s, d)
      BY <1>2, <2>2
    <3>2. \A d \in Ctx : d \in ToSet(w) <=> d = c
      BY <2>2
    <3>. HIDE DEF w
    <3>3. t = Wake(s, w)
      BY DEF w
    <3>. HIDE DEF t
    <3>4. /\ t \in Kernel /\ ListsBut(t, NULL) /\ SameProcesses(s, t)
          /\ \A d \in Ctx :
                /\ d \in ToSet(w) => s.status[d] = "BLOCKED" /\ t.status[d] = "READY"
                /\ d \notin ToSet(w) => t.status[d] = s.status[d]
      BY <1>1, <3>1, <3>3, WakeProperty
    <3>. QED
      BY <2>1, <3>2, <3>4
  <2>4. SetReadyProcess(s, pid) = t
    BY <1>2 DEF SetReadyProcess, c
  <2>. HIDE DEF t
  <2>5. Lists(t)
    BY <2>3, SchedulerAssumption DEF ListsBut, Lists
  <2>6. Identity(t) /\ Survivors(t) /\ Roles(t)
    <3>1. Identity(t) /\ Survivors(t)
      BY <2>1, <2>3 DEF Inv, Common, Identity, Survivors, SameProcesses, Live
    <3>2. Roles(t)
      BY <2>1, <2>3 DEF Inv, Common, Roles, SameProcesses, Live
    <3>. QED
      BY <3>1, <3>2
  <2>7. Cpu(t)
    <3>1. s.currentProcess \in Ctx \cup {NULL}
      BY <1>1 DEF Kernel
    <3>. QED
      BY <2>1, <2>3, <3>1 DEF Inv, Cpu, SameProcesses
  <2>. QED
    BY <2>3, <2>4, <2>5, <2>6, <2>7 DEF Inv, Common
<1>3. CASE ~ (c # NULL /\ CanWake(s, c))
  BY <1>3 DEF SetReadyProcess
<1>. QED
  BY <1>2, <1>3

-----------------------------------------------------------------------------
(***************************************************************************)
(* blockProcess, waitProcess, changePriority.                              *)
(***************************************************************************)

\* findProcess returns a process of the list that has the pid, or NULL when no
\* process of the list has it.
LEMMA FindProcessProperty ==
    ASSUME NEW s \in Kernel, NEW pid
    PROVE  /\ FindProcess(s, pid) = NULL =>
                \A c \in ToSet(s.processList) : s.pid[c] # pid
           /\ FindProcess(s, pid) # NULL =>
                /\ FindProcess(s, pid) \in Ctx
                /\ FindProcess(s, pid) \in ToSet(s.processList)
                /\ s.pid[FindProcess(s, pid)] = pid
<1>1. s.processList \in Seq(Ctx) /\ ToSet(s.processList) \subseteq Ctx
  BY ToSetProperty DEF Kernel
<1>. QED
  BY <1>1, FirstInProperty DEF FindProcess

\* The state changes of blockProcess, before it yields.
LEMMA MoveToBlockedInv ==
    ASSUME NEW s, Inv(s), NEW c \in Ctx, s.pid[c] # IDLE_PID,
           s.status[c] \in {"READY", "RUNNING"}
    PROVE  /\ Mid(MoveToBlocked(s, c))
           /\ s.status[c] = "READY" => Inv(MoveToBlocked(s, c))
<1>. DEFINE d == Detach(s, c)
            t == MoveToBlocked(s, c)
<1>1. s \in Kernel /\ Lists(s) /\ s.currentProcess \in Ctx \cup {NULL}
  BY DEF Inv, Common, Kernel
<1>2. d \in Kernel /\ ListsBut(d, c) /\ SameProcesses(s, d) /\ d.status = s.status
  BY <1>1, DetachProperty
<1>. HIDE DEF d
<1>3. t = [d EXCEPT !.blockedProcess[c] = @ + 1, !.status[c] = "BLOCKED"]
  BY DEF MoveToBlocked, d
<1>4. /\ [d.blockedProcess EXCEPT ![c] = @ + 1] \in [Ctx -> Nat]
      /\ [d.status EXCEPT ![c] = "BLOCKED"] \in [Ctx -> Statuses]
  BY <1>2 DEF Kernel, Statuses, Live
<1>5. t \in Kernel
  BY <1>2, <1>3, <1>4 DEF Kernel
<1>6. /\ SameProcesses(s, t) /\ t.readyProcess = d.readyProcess
      /\ t.blockedProcess = [d.blockedProcess EXCEPT ![c] = @ + 1]
      /\ t.status = [d.status EXCEPT ![c] = "BLOCKED"]
  BY <1>2, <1>3 DEF Kernel, SameProcesses
<1>. HIDE DEF t
<1>7. \A e \in Ctx :
        /\ t.blockedProcess[e] = IF e = c THEN d.blockedProcess[c] + 1 ELSE d.blockedProcess[e]
        /\ t.status[e] = IF e = c THEN "BLOCKED" ELSE s.status[e]
  BY <1>2, <1>6 DEF Kernel
<1>8. Lists(t)
  BY <1>2, <1>6, <1>7 DEF ListsBut, Lists, SameProcesses, Live
<1>9. Identity(t) /\ Survivors(t)
  BY <1>6, <1>7 DEF Inv, Common, Identity, Survivors, SameProcesses, Live
<1>10. Roles(t)
  BY <1>6, <1>7 DEF Inv, Common, Roles, SameProcesses, Live
<1>11. CpuMid(t)
  BY <1>1, <1>6, <1>7 DEF Inv, Cpu, CpuMid, SameProcesses
<1>12. s.status[c] = "READY" => Cpu(t)
  BY <1>1, <1>6, <1>7 DEF Inv, Cpu, SameProcesses
<1>. QED
  BY <1>5, <1>8, <1>9, <1>10, <1>11, <1>12 DEF Mid, Inv, Common, t

\* blockProcess on any process but idle.
LEMMA BlockProcessInv ==
    ASSUME NEW s, Inv(s), NEW pid, pid # IDLE_PID
    PROVE  Inv(BlockProcess(s, pid))
<1>. DEFINE c == FindProcess(s, pid)
            b == IF s.status[c] \in {"RUNNING", "READY"} THEN MoveToBlocked(s, c) ELSE s
<1>1. s \in Kernel /\ Lists(s)
  BY DEF Inv, Common
<1>2. CASE c = NULL
  BY <1>2 DEF BlockProcess
<1>3. CASE c # NULL
  <2>1. c \in Ctx /\ c \in ToSet(s.processList) /\ s.pid[c] = pid
    BY <1>1, <1>3, FindProcessProperty
  <2>2. ~ DetachFails(s, c)
    BY <1>1, <2>1, DetachSucceeds
  <2>3. BlockProcess(s, pid) = IF s.currentPid = pid THEN Yield(b) ELSE b
    BY <1>3, <2>2 DEF BlockProcess
  <2>. HIDE DEF c
  <2>4. CASE s.status[c] \in {"RUNNING", "READY"}
    <3>1. b = MoveToBlocked(s, c)
      BY <2>4
    <3>2. Mid(b) /\ (s.status[c] = "READY" => Inv(b))
      BY <2>1, <2>4, <3>1, MoveToBlockedInv
    <3>3. s.status[c] = "RUNNING" => s.currentPid = pid
      BY <2>1, SchedulerAssumption DEF Inv, Cpu
    <3>. HIDE DEF b
    <3>. QED
      BY <2>3, <2>4, <3>2, <3>3, YieldInv
  <2>5. CASE s.status[c] \notin {"RUNNING", "READY"}
    <3>1. b = s
      BY <2>5
    <3>. QED
      BY <2>3, <3>1, YieldInv, InvIsMid
  <2>. QED
    BY <2>4, <2>5
<1>. QED
  BY <1>2, <1>3

\* Fields the invariant does not mention.
LEMMA OtherFieldsFrame ==
    ASSUME NEW s, Inv(s), NEW t \in Kernel, SameProcesses(s, t),
           t.readyProcess = s.readyProcess, t.blockedProcess = s.blockedProcess,
           t.status = s.status
    PROVE  Inv(t)
<1>1. Lists(t) /\ Identity(t) /\ Survivors(t) /\ Cpu(t)
  BY DEF SameProcesses, Inv, Common, Lists, Identity, Survivors, Cpu
<1>2. Roles(t)
  BY DEF SameProcesses, Inv, Common, Roles
<1>. QED
  BY <1>1, <1>2 DEF Inv, Common

\* waitProcess by any process but idle, also by one that was killed while it ran.
LEMMA WaitProcessInv ==
    ASSUME NEW s, Inv(s), s.currentPid # IDLE_PID, NEW pid
    PROVE  Inv(WaitProcess(s, pid))
<1>. DEFINE target == FindProcess(s, pid)
            self   == FindProcess(s, s.currentPid)
            t      == [s EXCEPT !.waitingList[target] = Append(@, self)]
<1>1. s \in Kernel
  BY DEF Inv, Common
<1>2. CASE target = NULL \/ s.currentPid = pid
  BY <1>2 DEF WaitProcess
<1>3. CASE ~ (target = NULL \/ s.currentPid = pid)
  <2>1. target \in Ctx /\ self \in Ctx \cup {NULL}
    BY <1>1, <1>3, FindProcessProperty
  <2>2. WaitProcess(s, pid) = BlockProcess(t, s.currentPid)
    BY <1>3 DEF WaitProcess
  <2>. HIDE DEF target, self
  <2>3. [s.waitingList EXCEPT ![target] = Append(@, self)] \in [Ctx -> Seq(Ctx \cup {NULL})]
    BY <1>1, <2>1 DEF Kernel
  <2>4. t \in Kernel
    BY <1>1, <2>3 DEF Kernel
  <2>5. /\ SameProcesses(s, t)
        /\ t.readyProcess = s.readyProcess /\ t.blockedProcess = s.blockedProcess
        /\ t.status = s.status
    BY <1>1 DEF Kernel, SameProcesses
  <2>. HIDE DEF t
  <2>6. Inv(t)
    BY <2>4, <2>5, OtherFieldsFrame
  <2>. QED
    BY <2>2, <2>6, BlockProcessInv
<1>. QED
  BY <1>2, <1>3

\* changePriority never moves a process.
LEMMA ChangePriorityInv ==
    ASSUME NEW s, Inv(s), NEW pid, NEW priority \in Priorities
    PROVE  Inv(ChangePriority(s, pid, priority))
<1>. DEFINE c == FindProcess(s, pid)
            t == [s EXCEPT !.priority[c] = priority]
<1>1. s \in Kernel
  BY DEF Inv, Common
<1>2. CASE c = NULL
  BY <1>2 DEF ChangePriority
<1>3. CASE c # NULL
  <2>1. ChangePriority(s, pid, priority) = t
    BY <1>3 DEF ChangePriority
  <2>. HIDE DEF c
  <2>2. [s.priority EXCEPT ![c] = priority] \in [Ctx -> Priorities]
    BY <1>1 DEF Kernel
  <2>3. t \in Kernel
    BY <1>1, <2>2 DEF Kernel
  <2>4. /\ SameProcesses(s, t)
        /\ t.readyProcess = s.readyProcess /\ t.blockedProcess = s.blockedProcess
        /\ t.status = s.status
    BY <1>1 DEF Kernel, SameProcesses
  <2>. HIDE DEF t
  <2>. QED
    BY <2>1, <2>3, <2>4, OtherFieldsFrame
<1>. QED
  BY <1>2, <1>3

-----------------------------------------------------------------------------
(***************************************************************************)
(* kill().                                                                 *)
(***************************************************************************)

\* The wake loop of kill() hands setReadyProcess processes that are blocked,
\* each of them once.
LEMMA WakeOrdersProperty ==
    ASSUME NEW s, NEW waiters, ToSet(waiters) \subseteq Ctx \cup {NULL},
           DOMAIN waiters \subseteq Nat, NEW w \in WakeOrders(s, waiters)
    PROVE  /\ w \in Seq(Ctx)
           /\ IsInjective(w)
           /\ \A c \in ToSet(w) : CanWake(s, c)
<1>. DEFINE W == {c \in ToSet(waiters) : CanWake(s, c)}
            n == Cardinality(W)
<1>1. W \subseteq Ctx
  BY DEF CanWake
<1>2. n \in Nat
  BY <1>1, FS_Subset, FS_CardinalityType, SchedulerAssumption
<1>3. /\ w \in [1 .. n -> W]
      /\ \A i, j \in 1 .. n :
            i < j => \E a \in DOMAIN waiters :
                        /\ waiters[a] = w[i]
                        /\ \A b \in DOMAIN waiters : waiters[b] = w[j] => a < b
  BY DEF WakeOrders
<1>4. \A c \in W : CanWake(s, c)
  OBVIOUS
<1>. HIDE DEF n, W
<1>5. w \in Seq(Ctx)
  <2>1. w \in [1 .. n -> Ctx]
    BY <1>1, <1>3
  <2>. QED
    BY <1>2, <2>1
<1>6. IsInjective(w)
  <2>. SUFFICES ASSUME NEW i \in 1 .. n, NEW j \in 1 .. n, w[i] = w[j], i < j
                PROVE  FALSE
    BY <1>2, <1>3 DEF IsInjective
  <2>1. PICK a \in DOMAIN waiters :
            waiters[a] = w[i] /\ \A b \in DOMAIN waiters : waiters[b] = w[j] => a < b
    BY <1>3
  <2>2. a < a
    BY <2>1
  <2>. QED
    BY <2>2
<1>7. \A c \in ToSet(w) : CanWake(s, c)
  BY <1>3, <1>4 DEF ToSet
<1>. QED
  BY <1>5, <1>6, <1>7

\* The end of kill(): the process leaves the process list, and its context is
\* freed unless its stack is in use.
LEMMA BuryInv ==
    ASSUME NEW v \in Kernel, NEW c \in Ctx, ListsBut(v, c), Identity(v), Survivors(v), Roles(v),
           v.currentProcess = NULL => v.currentPid = NO_PROCESS,
           v.currentProcess # NULL => v.currentPid = v.pid[v.currentProcess],
           v.currentProcess # NULL => v.status[v.currentProcess] \in {"RUNNING", "TERMINATED"},
           \A d \in Ctx : v.status[d] \in {"RUNNING", "TERMINATED"} => d = v.currentProcess,
           v.status[c] \in Live, v.pid[c] \in Targets
    PROVE  Inv(Bury(v, c))
<1>. DEFINE t == [v EXCEPT !.processList = RemoveFirst(@, c),
                           !.status[c]   = "TERMINATED",
                           !.processQty  = @ - 1]
            P == RemoveFirst(v.processList, c)
<1>1. /\ v.processList \in Seq(Ctx) /\ IsInjective(v.processList) /\ c \in ToSet(v.processList)
      /\ v.currentProcess \in Ctx \cup {NULL}
  BY DEF ListsBut, Kernel
<1>2. /\ P \in Seq(Ctx) /\ IsInjective(P) /\ ToSet(P) = ToSet(v.processList) \ {c}
      /\ Len(P) = Len(v.processList) - 1
  BY <1>1, RemoveFirstProperty
<1>3. v.processQty - 1 \in Nat /\ v.processQty - 1 = Len(P)
  BY <1>2 DEF Identity
<1>. HIDE DEF P
<1>4. [v.status EXCEPT ![c] = "TERMINATED"] \in [Ctx -> Statuses]
  BY DEF Kernel, Statuses
<1>5. t = [v EXCEPT !.processList = P, !.status[c] = "TERMINATED", !.processQty = v.processQty - 1]
  BY DEF P, Kernel
<1>6. t \in Kernel
  BY <1>2, <1>3, <1>4, <1>5 DEF Kernel
<1>7. /\ t.processList = P /\ t.readyProcess = v.readyProcess
      /\ t.blockedProcess = v.blockedProcess /\ t.processQty = Len(P)
      /\ t.currentProcess = v.currentProcess /\ t.currentPid = v.currentPid
      /\ t.pid = v.pid /\ t.ground = v.ground /\ t.fdIn = v.fdIn /\ t.fdOut = v.fdOut
      /\ t.status = [v.status EXCEPT ![c] = "TERMINATED"]
  BY <1>3, <1>5 DEF Kernel
<1>8. \A d \in Ctx : t.status[d] = IF d = c THEN "TERMINATED" ELSE v.status[d]
  BY <1>7 DEF Kernel
<1>9. Bury(v, c) = IF v.currentProcess = c THEN t ELSE FreeProcess(t, c)
  BY DEF Bury
<1>. HIDE DEF t
<1>10. c \notin {d \in Ctx : v.pid[d] \in {IDLE_PID, SHELL_PID}}
  BY DEF Targets
<1>11. CASE v.currentProcess = c
  <2>1. Lists(t)
    BY <1>2, <1>7, <1>8 DEF ListsBut, Lists, Live
  <2>2. Identity(t)
    BY <1>7, <1>8 DEF Identity, Live
  <2>3. Survivors(t)
    BY <1>7, <1>8, <1>10 DEF Survivors
  <2>4. Roles(t)
    BY <1>7, <1>8 DEF Roles, Live
  <2>5. Cpu(t)
    BY <1>1, <1>7, <1>8, <1>11 DEF Cpu
  <2>. QED
    BY <1>6, <1>9, <1>11, <2>1, <2>2, <2>3, <2>4, <2>5 DEF Inv, Common
<1>12. CASE v.currentProcess # c
  <2>. DEFINE f == FreeProcess(t, c)
  <2>1. /\ f \in Kernel
        /\ f.processList = t.processList /\ f.readyProcess = t.readyProcess
        /\ f.blockedProcess = t.blockedProcess /\ f.processQty = t.processQty
        /\ f.currentProcess = t.currentProcess /\ f.currentPid = t.currentPid
        /\ f.pid = [t.pid EXCEPT ![c] = NO_PROCESS]
        /\ f.ground = [t.ground EXCEPT ![c] = FOREGROUND]
        /\ f.fdIn = [t.fdIn EXCEPT ![c] = -1] /\ f.fdOut = [t.fdOut EXCEPT ![c] = -1]
        /\ f.status = [t.status EXCEPT ![c] = "FREED"]
    BY <1>6, FreeProcessFrame
  <2>. HIDE DEF f
  <2>2. \A d \in Ctx :
            /\ f.status[d] = IF d = c THEN "FREED" ELSE v.status[d]
            /\ d # c => /\ f.pid[d] = v.pid[d] /\ f.ground[d] = v.ground[d]
                        /\ f.fdIn[d] = v.fdIn[d] /\ f.fdOut[d] = v.fdOut[d]
    BY <1>6, <1>7, <1>8, <2>1 DEF Kernel
  <2>3. Lists(f)
    BY <1>2, <1>7, <2>1, <2>2 DEF ListsBut, Lists, Live
  <2>4. Identity(f)
    BY <1>7, <2>1, <2>2 DEF Identity, Live
  <2>5. Survivors(f)
    BY <1>10, <2>2 DEF Survivors
  <2>6. Roles(f)
    BY <2>2 DEF Roles, Live
  <2>7. Cpu(f)
    BY <1>1, <1>7, <1>12, <2>1, <2>2 DEF Cpu
  <2>. QED
    BY <1>9, <1>12, <2>1, <2>3, <2>4, <2>5, <2>6, <2>7 DEF Inv, Common, f
<1>. QED
  BY <1>11, <1>12

\* kill() of a process that is neither idle nor the shell, whatever the freed
\* contexts in its waiting list hold.
LEMMA KillInv ==
    ASSUME NEW s, Inv(s), NEW c \in Ctx, c \in ToSet(s.processList), s.pid[c] \in Targets,
           NEW t \in Kill(s, c)
    PROVE  Inv(t)
<1>. DEFINE d == Detach(s, c)
<1>1. s \in Kernel /\ Lists(s) /\ s.status[c] \in Live
  BY DEF Inv, Common, Lists
<1>2. d \in Kernel /\ ListsBut(d, c) /\ SameProcesses(s, d) /\ d.status = s.status
  BY <1>1, DetachProperty
<1>3. PICK stale \in [Dangling(s, c) -> StalePids] :
        \E w \in WakeOrders(d, Waiters(d, c, stale)) : t = Bury(Wake(d, w), c)
  BY <1>1, DetachSucceeds DEF Kill
<1>. HIDE DEF d
<1>4. PICK w \in WakeOrders(d, Waiters(d, c, stale)) : t = Bury(Wake(d, w), c)
  BY <1>3
<1>5. ToSet(Waiters(d, c, stale)) \subseteq Ctx \cup {NULL}
  <2>1. \A pid : FindProcess(d, pid) \in Ctx \cup {NULL}
    BY <1>2, FindProcessProperty
  <2>. QED
    BY <2>1 DEF ToSet, Waiters
<1>6. w \in Seq(Ctx) /\ IsInjective(w) /\ \A e \in ToSet(w) : CanWake(d, e)
  <2>1. DOMAIN d.waitingList[c] \subseteq Nat
    BY <1>2 DEF Kernel
  <2>2. DOMAIN Waiters(d, c, stale) \subseteq Nat
    BY <2>1 DEF Waiters
  <2>. QED
    BY <1>4, <1>5, <2>2, WakeOrdersProperty
<1>. DEFINE v == Wake(d, w)
<1>7. /\ v \in Kernel /\ ListsBut(v, c) /\ SameProcesses(d, v)
      /\ \A e \in Ctx :
            /\ e \in ToSet(w) => d.status[e] = "BLOCKED" /\ e # c /\ v.status[e] = "READY"
            /\ e \notin ToSet(w) => v.status[e] = d.status[e]
  BY <1>2, <1>6, WakeProperty
<1>. HIDE DEF v
<1>8. \A e \in Ctx : v.status[e] = s.status[e] \/ (s.status[e] = "BLOCKED" /\ v.status[e] = "READY")
  BY <1>2, <1>7
<1>9. SameProcesses(s, v)
  BY <1>2, <1>7 DEF SameProcesses
<1>10. Identity(v)
  BY <1>8, <1>9 DEF Inv, Common, Identity, SameProcesses, Live
<1>11. Survivors(v)
  BY <1>8, <1>9 DEF Inv, Common, Survivors, SameProcesses, Live
<1>12. Roles(v)
  BY <1>8, <1>9 DEF Inv, Common, Roles, SameProcesses, Live
<1>13. v.status[c] \in Live /\ v.pid[c] \in Targets
  BY <1>1, <1>8, <1>9 DEF SameProcesses, Live
<1>14. /\ v.currentProcess = NULL => v.currentPid = NO_PROCESS
       /\ v.currentProcess # NULL =>
            /\ v.currentPid = v.pid[v.currentProcess]
            /\ v.status[v.currentProcess] \in {"RUNNING", "TERMINATED"}
       /\ \A e \in Ctx : v.status[e] \in {"RUNNING", "TERMINATED"} => e = v.currentProcess
  <2>1. s.currentProcess \in Ctx \cup {NULL}
    BY <1>1 DEF Kernel
  <2>. QED
    BY <1>8, <1>9, <2>1 DEF Inv, Cpu, SameProcesses
<1>15. Inv(Bury(v, c))
  BY <1>7, <1>10, <1>11, <1>12, <1>13, <1>14, BuryInv
<1>. QED
  BY <1>4, <1>15 DEF v

\* Neither idle nor the shell is at the end of a pipe.
LEMMA KillPeerInv ==
    ASSUME NEW s, Inv(s), NEW fd \in Pipes \cup {-1}, NEW t \in KillPeer(s, fd)
    PROVE  Inv(t)
<1>. DEFINE peer == PipedTo(s, fd)
<1>1. CASE fd = -1 \/ peer = NULL
  BY <1>1 DEF KillPeer
<1>2. CASE fd # -1 /\ peer # NULL
  <2>1. t \in Kill(s, peer)
    BY <1>2 DEF KillPeer
  <2>2. s.processList \in Seq(Ctx)
    BY DEF Inv, Common, Kernel
  <2>3. /\ peer \in Ctx /\ peer \in ToSet(s.processList)
        /\ s.fdIn[peer] = fd \/ s.fdOut[peer] = fd
    BY <1>2, <2>2, FirstInProperty DEF PipedTo
  <2>. HIDE DEF peer
  <2>4. s.status[peer] \in Live /\ s.pid[peer] \in Pids
    BY <2>3 DEF Inv, Common, Lists, Identity, Live
  <2>5. fd # -1 /\ fd # STDIN /\ fd # STDOUT
    BY <1>2, SchedulerAssumption DEF STDIN, STDOUT
  <2>6. s.pid[peer] \notin {IDLE_PID, SHELL_PID}
    BY <2>3, <2>4, <2>5 DEF Inv, Common, Roles
  <2>. QED
    BY <2>1, <2>3, <2>4, <2>6, KillInv DEF Targets
<1>. QED
  BY <1>1, <1>2

\* killProcess: the process, then the other end of its pipe.
LEMMA KillProcessInv ==
    ASSUME NEW s, Inv(s), NEW pid \in Targets, NEW t \in KillProcess(s, pid)
    PROVE  Inv(t)
<1>. DEFINE c == FindProcess(s, pid)
<1>1. s \in Kernel /\ Lists(s)
  BY DEF Inv, Common
<1>2. CASE c = NULL
  BY <1>2 DEF KillProcess
<1>3. CASE c # NULL
  <2>1. c \in Ctx /\ c \in ToSet(s.processList) /\ s.pid[c] = pid
    BY <1>1, <1>3, FindProcessProperty
  <2>2. ~ DetachFails(s, c)
    BY <1>1, <2>1, DetachSucceeds
  <2>3. PICK u \in Kill(s, c) : t \in KillPeer(u, PipedFd(s, c))
    BY <1>3, <2>2 DEF KillProcess
  <2>. HIDE DEF c
  <2>4. Inv(u)
    BY <2>1, <2>3, KillInv
  <2>5. << s.fdIn[c], s.fdOut[c] >> \in FdPairs
    BY <2>1 DEF Inv, Common, Lists, Roles, Targets
  <2>6. PipedFd(s, c) \in Pipes \cup {-1}
    BY <2>5 DEF PipedFd, FdPairs
  <2>. QED
    BY <2>3, <2>4, <2>6, KillPeerInv
<1>. QED
  BY <1>2, <1>3

\* Ctrl+C, whoever is running.
LEMMA KillForegroundProcessInv ==
    ASSUME NEW s, Inv(s), NEW t \in KillForegroundProcess(s)
    PROVE  Inv(t)
<1>. DEFINE first == FirstIn(s.processList, {c \in Ctx : IsForeground(s, c)})
<1>1. s \in Kernel /\ s.processList \in Seq(Ctx) /\ s.currentProcess \in Ctx \cup {NULL}
  BY DEF Inv, Common, Kernel
<1>2. FOREGROUND # BACKGROUND
  BY DEF FOREGROUND, BACKGROUND
<1>3. CASE s.currentProcess = NULL
  BY <1>3 DEF KillForegroundProcess
<1>4. CASE s.currentProcess # NULL /\ IsForeground(s, s.currentProcess)
  <2>1. t \in KillProcess(s, s.pid[s.currentProcess])
    BY <1>4 DEF KillForegroundProcess
  <2>2. s.status[s.currentProcess] \in {"RUNNING", "TERMINATED"}
    BY <1>4 DEF Inv, Cpu
  <2>3. s.pid[s.currentProcess] \in Targets
    BY <1>1, <1>2, <1>4, <2>2 DEF IsForeground, Inv, Common, Identity, Roles, Live, Targets
  <2>. QED
    BY <2>1, <2>3, KillProcessInv
<1>5. CASE s.currentProcess # NULL /\ ~ IsForeground(s, s.currentProcess)
  <2>1. t \in IF first = NULL THEN {s} ELSE Kill(s, first)
    BY <1>5 DEF KillForegroundProcess
  <2>2. CASE first = NULL
    BY <2>1, <2>2
  <2>3. CASE first # NULL
    <3>1. first \in Ctx /\ first \in ToSet(s.processList) /\ IsForeground(s, first)
      BY <1>1, <2>3, FirstInProperty
    <3>. HIDE DEF first
    <3>2. s.status[first] \in Live
      BY <3>1 DEF Inv, Common, Lists
    <3>3. s.pid[first] \in Targets
      BY <1>2, <3>1, <3>2 DEF IsForeground, Inv, Common, Identity, Roles, Live, Targets
    <3>. QED
      BY <2>1, <2>3, <3>1, <3>3, KillInv
  <2>. QED
    BY <2>2, <2>3
<1>. QED
  BY <1>3, <1>4, <1>5

-----------------------------------------------------------------------------
(***************************************************************************)
(* createProcess, and the initial state.                                   *)
(***************************************************************************)

\* What createProcess leaves, in a state where c can be allocated.
LEMMA CreateProcessFrame ==
    ASSUME NEW s \in Kernel, Lists(s), s.processQty = Len(s.processList),
           NEW c \in Ctx, s.status[c] = "FREED",
           NEW pid \in Pids, NEW priority \in Priorities, NEW ground \in Grounds,
           NEW in \in Fds, NEW out \in Fds,
           NEW t, t = CreateProcess(s, c, pid, [priority |-> priority, ground |-> ground,
                                                fds |-> << in, out >>])
    PROVE  /\ t \in Kernel /\ Lists(t)
           /\ t.processQty = Len(t.processList)
           /\ t.currentProcess = s.currentProcess /\ t.currentPid = s.currentPid
           /\ t.status[c] = "READY" /\ t.pid[c] = pid /\ t.ground[c] = ground
           /\ t.fdIn[c] = in /\ t.fdOut[c] = out
           /\ \A d \in Ctx : d # c =>
                /\ t.status[d] = s.status[d] /\ t.pid[d] = s.pid[d] /\ t.ground[d] = s.ground[d]
                /\ t.fdIn[d] = s.fdIn[d] /\ t.fdOut[d] = s.fdOut[d]
<1>1. /\ s.processList \in Seq(Ctx) /\ IsInjective(s.processList) /\ c \notin ToSet(s.processList)
      /\ s.readyProcess \in Seq(Ctx) /\ IsInjective(s.readyProcess) /\ c \notin ToSet(s.readyProcess)
  BY DEF Lists, Kernel, Live
<1>. DEFINE P == Append(s.processList, c)
            R == Append(s.readyProcess, c)
<1>2. /\ P \in Seq(Ctx) /\ IsInjective(P) /\ Len(P) = Len(s.processList) + 1
      /\ \A d : d \in ToSet(P) <=> d \in ToSet(s.processList) \/ d = c
  BY <1>1, AppendProperty
<1>3. /\ R \in Seq(Ctx) /\ IsInjective(R)
      /\ \A d : d \in ToSet(R) <=> d \in ToSet(s.readyProcess) \/ d = c
  BY <1>1, AppendProperty
<1>. HIDE DEF P, R
<1>. DEFINE pids     == [s.pid EXCEPT ![c] = pid]
            prios    == [s.priority EXCEPT ![c] = priority]
            grounds  == [s.ground EXCEPT ![c] = ground]
            ins      == [s.fdIn EXCEPT ![c] = in]
            outs     == [s.fdOut EXCEPT ![c] = out]
            statuses == [s.status EXCEPT ![c] = "READY"]
            waiting  == [s.waitingList EXCEPT ![c] = << >>]
            qty      == s.processQty + 1
<1>4. t = [s EXCEPT !.processList = P, !.readyProcess = R, !.processQty = qty, !.pid = pids,
                    !.priority = prios, !.ground = grounds, !.fdIn = ins, !.fdOut = outs,
                    !.status = statuses, !.waitingList = waiting]
  <2>. DEFINE program == [priority |-> priority, ground |-> ground, fds |-> << in, out >>]
              i == InitializeProcess(s, c, pid, program)
  <2>1. i = [s EXCEPT !.pid = pids, !.priority = prios, !.ground = grounds, !.fdIn = ins,
                      !.fdOut = outs, !.status = statuses, !.waitingList = waiting]
    BY DEF InitializeProcess, Kernel
  <2>2. t = [i EXCEPT !.processList = Append(@, c), !.readyProcess = Append(@, c),
                      !.processQty = @ + 1]
    BY DEF CreateProcess
  <2>3. /\ i.processList = s.processList /\ i.readyProcess = s.readyProcess
        /\ i.processQty = s.processQty
    BY <2>1 DEF Kernel
  <2>4. t = [i EXCEPT !.processList = P, !.readyProcess = R, !.processQty = qty]
    BY <2>2, <2>3 DEF P, R
  <2>. HIDE DEF i, pids, prios, grounds, ins, outs, statuses, waiting, qty
  <2>. QED
    BY <2>1, <2>4 DEF Kernel
<1>5. /\ pids \in [Ctx -> Pids \cup {NO_PROCESS}] /\ prios \in [Ctx -> Priorities]
      /\ grounds \in [Ctx -> Grounds] /\ ins \in [Ctx -> Fds] /\ outs \in [Ctx -> Fds]
      /\ statuses \in [Ctx -> Statuses] /\ qty \in Nat
  BY DEF Kernel, Statuses, Live
<1>6. waiting \in [Ctx -> Seq(Ctx \cup {NULL})]
  <2>1. << >> \in Seq(Ctx \cup {NULL})
    OBVIOUS
  <2>. QED
    BY <2>1 DEF Kernel
<1>. HIDE DEF pids, prios, grounds, ins, outs, statuses, waiting, qty
<1>7. t \in Kernel
  <2>. DEFINE u == [s EXCEPT !.processList = P, !.readyProcess = R, !.processQty = qty,
                             !.pid = pids, !.priority = prios]
  <2>1. P \in Seq(Ctx) /\ R \in Seq(Ctx)
    BY <1>2, <1>3
  <2>2. u \in Kernel
    BY <1>5, <2>1 DEF Kernel
  <2>3. t = [u EXCEPT !.ground = grounds, !.fdIn = ins, !.fdOut = outs,
                      !.status = statuses, !.waitingList = waiting]
    BY <1>4 DEF Kernel
  <2>. HIDE DEF u
  <2>. QED
    BY <1>5, <1>6, <2>2, <2>3, ZenonT(60) DEF Kernel
<1>8. /\ t.processList = P /\ t.readyProcess = R /\ t.blockedProcess = s.blockedProcess
      /\ t.processQty = qty
      /\ t.currentProcess = s.currentProcess /\ t.currentPid = s.currentPid
      /\ t.pid = pids /\ t.ground = grounds /\ t.fdIn = ins /\ t.fdOut = outs
      /\ t.status = statuses
  BY <1>4, ZenonT(60) DEF Kernel
<1>9. /\ t.status[c] = "READY" /\ t.pid[c] = pid /\ t.ground[c] = ground
      /\ t.fdIn[c] = in /\ t.fdOut[c] = out
      /\ \A d \in Ctx : d # c =>
            /\ t.status[d] = s.status[d] /\ t.pid[d] = s.pid[d] /\ t.ground[d] = s.ground[d]
            /\ t.fdIn[d] = s.fdIn[d] /\ t.fdOut[d] = s.fdOut[d]
  BY <1>8, ZenonT(60) DEF Kernel, pids, grounds, ins, outs, statuses
<1>10. Lists(t)
  <2>1. s.blockedProcess[c] = 0
    BY DEF Lists
  <2>. SUFFICES ASSUME NEW d \in Ctx
                PROVE  /\ d \in ToSet(P) <=> t.status[d] \in Live
                       /\ d \in ToSet(R) <=> t.status[d] = "READY"
                       /\ s.blockedProcess[d] = IF t.status[d] = "BLOCKED" THEN 1 ELSE 0
    BY <1>2, <1>3, <1>8 DEF Lists
  <2>2. CASE d = c
    BY <1>2, <1>3, <1>9, <2>1, <2>2 DEF Live
  <2>3. CASE d # c
    BY <1>2, <1>3, <1>9, <2>3, ZenonT(60) DEF Lists
  <2>. QED
    BY <2>2, <2>3
<1>. QED
  BY <1>2, <1>7, <1>8, <1>9, <1>10 DEF qty

\* The smallest free pid is taken, so it belongs to no process of the list; idle
\* and the shell live, so it is neither 0 nor 1.
LEMMA CreateProcessInv ==
    ASSUME NEW s, Inv(s), NEW c \in Ctx, s.status[c] = "FREED",
           NEW pid \in Pids, IsMinFreePid(s, pid), NEW program \in AnyProgram
    PROVE  Inv(CreateProcess(s, c, pid, program))
<1>. DEFINE t == CreateProcess(s, c, pid, program)
<1>1. s \in Kernel /\ Lists(s) /\ s.processQty = Len(s.processList) /\ s.currentProcess \in Ctx \cup {NULL}
  BY DEF Inv, Common, Identity, Kernel
<1>2. \A d \in Ctx : s.status[d] \in Live => s.pid[d] # pid
  BY <1>1, FindProcessProperty DEF IsMinFreePid, Lists
<1>3. pid \in Targets
  BY <1>2 DEF Inv, Common, Survivors, Targets, Live
<1>4. PICK priority \in Priorities, ground \in Grounds, pair \in FdPairs :
        program = [priority |-> priority, ground |-> ground, fds |-> pair]
  BY DEF AnyProgram
<1>5. PICK in \in Fds, out \in Fds : pair = << in, out >>
  BY DEF FdPairs, Fds
<1>6. /\ t \in Kernel /\ Lists(t)
      /\ t.processQty = Len(t.processList)
      /\ t.currentProcess = s.currentProcess /\ t.currentPid = s.currentPid
      /\ t.status[c] = "READY" /\ t.pid[c] = pid /\ t.ground[c] = ground
      /\ t.fdIn[c] = in /\ t.fdOut[c] = out
      /\ \A d \in Ctx : d # c =>
            /\ t.status[d] = s.status[d] /\ t.pid[d] = s.pid[d] /\ t.ground[d] = s.ground[d]
            /\ t.fdIn[d] = s.fdIn[d] /\ t.fdOut[d] = s.fdOut[d]
  BY <1>1, <1>4, <1>5, CreateProcessFrame
<1>. HIDE DEF t
<1>7. Identity(t)
  BY <1>2, <1>6 DEF Inv, Common, Identity, Live
<1>8. Survivors(t)
  BY <1>6 DEF Inv, Common, Survivors, Live
<1>9. Roles(t)
  BY <1>3, <1>4, <1>5, <1>6 DEF Inv, Common, Roles, Live, Targets
<1>10. Cpu(t)
  BY <1>1, <1>6 DEF Inv, Cpu
<1>. QED
  BY <1>6, <1>7, <1>8, <1>9, <1>10 DEF Inv, Common, t

\* A new process has nobody waiting for it, and the others keep their waiters.
LEMMA CreateWaitingList ==
    ASSUME NEW s \in Kernel, NEW c \in Ctx, NEW pid, NEW program, NEW t,
           t = CreateProcess(s, c, pid, program)
    PROVE  /\ t.waitingList[c] = << >>
           /\ \A d \in Ctx : d # c => t.waitingList[d] = s.waitingList[d]
<1>1. t.waitingList = [s.waitingList EXCEPT ![c] = << >>]
  BY DEF CreateProcess, InitializeProcess, Kernel
<1>. QED
  BY <1>1 DEF Kernel

\* Nobody is connected to a pipe.
AtConsole(s) ==
    \A c \in Ctx : s.fdIn[c] \in {-1, STDIN} /\ s.fdOut[c] \in {-1, STDOUT}

\* What Init says of the kernel after boot.
IsBoot(b) == \E idle, shell \in Ctx : idle # shell /\ b = CreateShell(CreateScheduler(idle), shell)

\* The addresses that mm_alloc gives to idle and the shell are two.
LEMMA BootedIsBoot ==
    ASSUME Ctx \subseteq Nat, \E c, d \in Ctx : c # d
    PROVE  IsBoot(Booted)
<1>. DEFINE idle == FirstFit(EmptyKernel)
            boot == CreateScheduler(idle)
            shell == FirstFit(boot)
<1>2. idle \in Ctx
  <2>1. {c \in Ctx : EmptyKernel.status[c] = "FREED"} = Ctx
    BY DEF EmptyKernel
  <2>. QED BY <2>1, MinProperty DEF FirstFit
<1>. HIDE DEF idle
<1>3. boot.status = [EmptyKernel.status EXCEPT ![idle] = "READY"]
  BY DEF CreateScheduler, CreateProcess, InitializeProcess, EmptyKernel
<1>4. \A c \in Ctx : boot.status[c] = IF c = idle THEN "READY" ELSE "FREED"
  BY <1>3 DEF EmptyKernel
<1>. HIDE DEF boot
<1>5. shell \in Ctx /\ shell # idle
  <2>. DEFINE F == {c \in Ctx : boot.status[c] = "FREED"}
  <2>1. F \in SUBSET Nat /\ F # {} /\ idle \notin F /\ F \subseteq Ctx
    BY <1>4
  <2>2. shell = Min(F)
    BY DEF FirstFit
  <2>. HIDE DEF F
  <2>3. Min(F) \in F
    BY <2>1, MinProperty
  <2>. QED BY <2>1, <2>2, <2>3
<1>6. Booted = CreateShell(CreateScheduler(idle), shell)
  BY DEF Booted, idle, boot
<1>. QED
  BY <1>2, <1>5, <1>6 DEF IsBoot

LEMMA BootedInit ==
    ASSUME Ctx \subseteq Nat, \E c, d \in Ctx : c # d, k = Booted
    PROVE  Init
BY BootedIsBoot DEF IsBoot, Init

\* Boot establishes the invariant; nobody has the processor yet.
LEMMA BootInv ==
    ASSUME NEW b, IsBoot(b)
    PROVE  /\ Inv(b) /\ b.currentProcess = NULL
           /\ \A c \in Ctx : b.waitingList[c] = << >>
           /\ AtConsole(b)
           /\ \A c \in Ctx : b.pid[c] # NO_PROCESS => b.status[c] = "READY"
           /\ \A c \in Ctx : b.status[c] # "FREED" => b.pid[c] \in {IDLE_PID, SHELL_PID}
<1>1. PICK idle \in Ctx, shell \in Ctx : idle # shell /\ b = CreateShell(CreateScheduler(idle), shell)
  BY DEF IsBoot
<1>. DEFINE e == EmptyKernel
            s == CreateScheduler(idle)
<1>2. /\ MIN_PRIORITY \in Priorities /\ MAX_PRIORITY \in Priorities
      /\ FOREGROUND \in Grounds /\ BACKGROUND \in Grounds
      /\ -1 \in Fds /\ STDIN \in Fds /\ STDOUT \in Fds
      /\ IDLE_PID \in Pids /\ SHELL_PID \in Pids /\ IDLE_PID # SHELL_PID
  BY SchedulerAssumption
  DEF Priorities, MIN_PRIORITY, Grounds, Fds, Pids, IDLE_PID, SHELL_PID
<1>3. /\ e.processList = << >> /\ e.readyProcess = << >> /\ e.processQty = 0
      /\ e.currentProcess = NULL /\ e.currentPid = NO_PROCESS
      /\ \A c \in Ctx : /\ e.status[c] = "FREED" /\ e.blockedProcess[c] = 0
                         /\ e.waitingList[c] = << >> /\ e.pid[c] = NO_PROCESS
                         /\ e.fdIn[c] = -1 /\ e.fdOut[c] = -1
  BY DEF EmptyKernel
<1>4. e \in Kernel
  <2>1. << >> \in Seq(Ctx) /\ << >> \in Seq(Ctx \cup {NULL})
    OBVIOUS
  <2>2. /\ "FREED" \in Statuses /\ MIN_QUANTUMS \in Int
    BY DEF Statuses, MIN_QUANTUMS
  <2>. QED
    BY <1>2, <2>1, <2>2 DEF EmptyKernel, Kernel
<1>5. Lists(e) /\ e.processQty = Len(e.processList)
  <2>1. IsInjective(<< >>) /\ ToSet(<< >>) = {}
    BY DEF IsInjective, ToSet
  <2>. HIDE DEF e
  <2>. QED
    BY <1>3, <2>1 DEF Lists, Live
<1>6. /\ s \in Kernel /\ Lists(s) /\ s.processQty = Len(s.processList)
      /\ s.currentProcess = NULL /\ s.currentPid = NO_PROCESS
      /\ s.status[idle] = "READY" /\ s.pid[idle] = IDLE_PID /\ s.ground[idle] = BACKGROUND
      /\ s.fdIn[idle] = -1 /\ s.fdOut[idle] = -1
      /\ \A d \in Ctx : d # idle => /\ s.status[d] = "FREED" /\ s.pid[d] = NO_PROCESS
                                     /\ s.fdIn[d] = -1 /\ s.fdOut[d] = -1
      /\ \A d \in Ctx : s.waitingList[d] = << >>
  <2>. HIDE DEF e
  <2>1. s = CreateProcess(e, idle, IDLE_PID,
                [priority |-> MIN_PRIORITY, ground |-> BACKGROUND, fds |-> << -1, -1 >>])
    BY DEF CreateScheduler, e
  <2>2. e.status[idle] = "FREED"
    BY <1>3
  <2>. HIDE DEF s
  <2>3. \A d \in Ctx : s.waitingList[d] = << >>
    BY <1>3, <1>4, <2>1, CreateWaitingList
  <2>4. /\ s \in Kernel /\ Lists(s) /\ s.processQty = Len(s.processList)
        /\ s.currentProcess = e.currentProcess /\ s.currentPid = e.currentPid
        /\ s.status[idle] = "READY" /\ s.pid[idle] = IDLE_PID /\ s.ground[idle] = BACKGROUND
        /\ s.fdIn[idle] = -1 /\ s.fdOut[idle] = -1
        /\ \A d \in Ctx : d # idle =>
            /\ s.status[d] = e.status[d] /\ s.pid[d] = e.pid[d] /\ s.ground[d] = e.ground[d]
            /\ s.fdIn[d] = e.fdIn[d] /\ s.fdOut[d] = e.fdOut[d]
    BY <1>2, <1>4, <1>5, <2>1, <2>2, CreateProcessFrame
  <2>. QED
    BY <1>3, <2>3, <2>4
<1>. HIDE DEF s
<1>7. /\ b \in Kernel /\ Lists(b) /\ b.processQty = Len(b.processList)
      /\ b.currentProcess = NULL /\ b.currentPid = NO_PROCESS
      /\ b.status[shell] = "READY" /\ b.pid[shell] = SHELL_PID
      /\ b.fdIn[shell] = STDIN /\ b.fdOut[shell] = STDOUT
      /\ b.status[idle] = "READY" /\ b.pid[idle] = IDLE_PID /\ b.ground[idle] = BACKGROUND
      /\ b.fdIn[idle] = -1 /\ b.fdOut[idle] = -1
      /\ \A d \in Ctx : d \notin {idle, shell} => /\ b.status[d] = "FREED" /\ b.pid[d] = NO_PROCESS
                                                 /\ b.fdIn[d] = -1 /\ b.fdOut[d] = -1
      /\ \A d \in Ctx : b.waitingList[d] = << >>
  <2>1. b = CreateProcess(s, shell, SHELL_PID,
                [priority |-> MAX_PRIORITY, ground |-> FOREGROUND, fds |-> << STDIN, STDOUT >>])
    BY <1>1 DEF CreateShell, s
  <2>2. s.status[shell] = "FREED"
    BY <1>1, <1>6
  <2>3. /\ b \in Kernel /\ Lists(b) /\ b.processQty = Len(b.processList)
        /\ b.currentProcess = s.currentProcess /\ b.currentPid = s.currentPid
        /\ b.status[shell] = "READY" /\ b.pid[shell] = SHELL_PID
        /\ b.fdIn[shell] = STDIN /\ b.fdOut[shell] = STDOUT
        /\ \A d \in Ctx : d # shell =>
            /\ b.status[d] = s.status[d] /\ b.pid[d] = s.pid[d] /\ b.ground[d] = s.ground[d]
            /\ b.fdIn[d] = s.fdIn[d] /\ b.fdOut[d] = s.fdOut[d]
    BY <1>2, <1>6, <2>1, <2>2, CreateProcessFrame
  <2>4. \A d \in Ctx : b.waitingList[d] = << >>
    BY <1>6, <2>1, CreateWaitingList
  <2>. QED
    BY <1>1, <1>6, <2>3, <2>4
<1>8. Identity(b) /\ Survivors(b)
  BY <1>1, <1>2, <1>7 DEF Identity, Survivors, Live
<1>9. Roles(b)
  <2>1. << STDIN, STDOUT >> \in FdPairs
    BY DEF FdPairs
  <2>. QED
    BY <1>2, <1>7, <2>1 DEF Roles, Live
<1>10. Cpu(b)
  BY <1>7 DEF Cpu
<1>11. AtConsole(b)
  BY <1>7 DEF AtConsole
<1>. QED
  BY <1>7, <1>8, <1>9, <1>10, <1>11 DEF Inv, Common

LEMMA InitInv ==
    ASSUME Init
    PROVE  /\ Inv(k) /\ k.currentProcess = NULL
           /\ \A c \in Ctx : k.waitingList[c] = << >>
           /\ AtConsole(k)
           /\ \A c \in Ctx : k.pid[c] # NO_PROCESS => k.status[c] = "READY"
           /\ \A c \in Ctx : k.status[c] # "FREED" => k.pid[c] \in {IDLE_PID, SHELL_PID}
<1>1. IsBoot(k)
  BY DEF Init, IsBoot
<1>. QED
  BY <1>1, BootInv

-----------------------------------------------------------------------------
(***************************************************************************)
(* The theorems.                                                           *)
(***************************************************************************)

\* Every handler preserves the invariant.
LEMMA NextInv ==
    ASSUME Inv(k), [Next]_k
    PROVE  Inv(k')
<1>1. CASE TimerTick
  BY <1>1, ScheduleInv DEF TimerTick
<1>2. ASSUME NEW program \in Programs, SyscallCreateProcess(program) PROVE Inv(k')
  BY <1>2, CreateProcessInv, ProgramsAssumption DEF SyscallCreateProcess
<1>3. ASSUME NEW pid \in Targets, SyscallKill(pid) PROVE Inv(k')
  BY <1>3, KillProcessInv DEF SyscallKill
<1>4. CASE SyscallExit
  <2>1. k.currentPid = k.pid[k.currentProcess]
    BY <1>4 DEF SyscallExit, UserRuns, Inv, Cpu
  <2>2. PICK t \in KillProcess(k, k.pid[k.currentProcess]) : k' = Yield(t)
    BY <1>4 DEF SyscallExit
  <2>3. Inv(t)
    BY <1>4, <2>1, <2>2, KillProcessInv DEF SyscallExit
  <2>. QED
    BY <2>2, <2>3, InvIsMid, YieldInv
<1>5. ASSUME NEW pid \in Targets, SyscallBlock(pid) PROVE Inv(k')
  BY <1>5, BlockProcessInv DEF SyscallBlock, Targets
<1>6. ASSUME NEW pid \in Pids, SyscallSetReady(pid) PROVE Inv(k')
  BY <1>6, SetReadyProcessInv DEF SyscallSetReady
<1>7. CASE SyscallYield
  BY <1>7, InvIsMid, YieldInv DEF SyscallYield
<1>8. ASSUME NEW pid \in Pids, SyscallWait(pid) PROVE Inv(k')
  <2>1. k.currentPid # IDLE_PID
    BY <1>8 DEF SyscallWait, UserRuns, Inv, Cpu
  <2>. QED
    BY <1>8, <2>1, WaitProcessInv DEF SyscallWait
<1>9. ASSUME NEW pid \in Targets, NEW priority \in Priorities, SyscallNice(pid, priority)
      PROVE  Inv(k')
  BY <1>9, ChangePriorityInv DEF SyscallNice
<1>10. CASE CtrlC
  BY <1>10, KillForegroundProcessInv DEF CtrlC
<1>11. CASE UNCHANGED k
  BY <1>11
<1>. QED
  BY <1>1, <1>2, <1>3, <1>4, <1>5, <1>6, <1>7, <1>8, <1>9, <1>10, <1>11 DEF Next

IInv == Inv(k)

\* The invariant holds in every reachable state of the scheduler.
THEOREM Invariance == Spec => []IInv
<1>1. Init => IInv
  BY InitInv DEF IInv
<1>2. IInv /\ [Next]_k => IInv'
  BY NextInv DEF IInv
<1>. QED
  BY <1>1, <1>2, PTL DEF Spec

\* The scheduler's fields keep their types, whatever the number of processes,
\* priorities, pipes and waiters.
THEOREM TypeCorrect == Spec => []TypeOK
<1>1. IInv => TypeOK
  BY DEF IInv, Inv, Common, TypeOK
<1>. QED
  BY <1>1, Invariance, PTL

\* No interleaving of system calls, timer ticks and Ctrl+C loses a process, queues
\* it twice or leaves it in a list after kill() freed it.
THEOREM ListsCorrect == Spec => []ListsMatchStatus
<1>1. IInv => ListsMatchStatus
  BY DEF IInv, Inv, Common, ListsMatchStatus
<1>. QED
  BY <1>1, Invariance, PTL

\* Only the current process is RUNNING, and only its context outlives kill().
THEOREM CpuCorrect == Spec => []CurrentOwnsCpu
<1>1. IInv => CurrentOwnsCpu
  BY DEF IInv, Inv, CurrentOwnsCpu
<1>. QED
  BY <1>1, Invariance, PTL

\* Reusing the smallest free pid never gives two live processes the same pid.
THEOREM PidsCorrect == Spec => []PidsIdentify
<1>1. IInv => PidsIdentify
  BY DEF IInv, Inv, Common, PidsIdentify
<1>. QED
  BY <1>1, Invariance, PTL

\* kill(), Ctrl+C and the death of a pipe peer spare idle and the shell.
THEOREM SurvivorsCorrect == Spec => []IdleAndShellSurvive
<1>1. IInv => IdleAndShellSurvive
  BY DEF IInv, Inv, Common, IdleAndShellSurvive
<1>. QED
  BY <1>1, Invariance, PTL

\* Idle and the shell keep the descriptors and grounds that spare them.
THEOREM RolesCorrect == Spec => []RolesKept
<1>1. IInv => RolesKept
  BY DEF IInv, Inv, Common, RolesKept
<1>. QED
  BY <1>1, Invariance, PTL

-----------------------------------------------------------------------------
(***************************************************************************)
(* What a step of the scheduler may never do: the action properties        *)
(* DeadStayDead and WaitersAreWoken, for every number of processes, pipes  *)
(* and waiters.  A step is a chain of handlers (kill, kill of the peer,    *)
(* yield), so both are proved of a relation between the states before and  *)
(* after a handler that composes.                                          *)
(***************************************************************************)
\* What becomes of each context: the dead stay dead, nobody begins to wait, and
\* those that live keep their waiting lists.
Fate(s, t) ==
    \A c \in Ctx :
        /\ s.status[c] = "FREED" => t.status[c] = "FREED"
        /\ s.status[c] = "TERMINATED" => t.status[c] \in {"TERMINATED", "FREED"}
        /\ s.status[c] # "BLOCKED" => t.status[c] # "BLOCKED"
        /\ t.status[c] \in Live => t.waitingList[c] = s.waitingList[c]

\* Those that were blocked in the waiting list of one that dies are not any more.
Wakes(s, t) ==
    \A c \in Ctx :
        s.status[c] \in Live /\ t.status[c] \notin Live =>
            \A w \in ToSet(s.waitingList[c]) \ {NULL} :
                s.status[w] = "BLOCKED" => t.status[w] # "BLOCKED"

Spares(s, t) == \A c \in Ctx : s.status[c] \in Live => t.status[c] \in Live

\* What kill() does, and what every handler that kills nobody does.
Lawful(s, t) == Fate(s, t) /\ Wakes(s, t)
Gentle(s, t) == Fate(s, t) /\ Spares(s, t)

\* The elements of a waiting list are contexts.
LEMMA WaitersAreContexts ==
    ASSUME NEW s \in Kernel, NEW c \in Ctx, NEW w \in ToSet(s.waitingList[c]) \ {NULL}
    PROVE  w \in Ctx
<1>1. s.waitingList[c] \in Seq(Ctx \cup {NULL})
  BY DEF Kernel
<1>. QED
  BY <1>1, ToSetProperty

LEMMA LawfulComposes ==
    ASSUME NEW s \in Kernel, NEW t \in Kernel, NEW u \in Kernel, Lawful(s, t), Lawful(t, u)
    PROVE  Lawful(s, u)
<1>1. Fate(s, u)
  <2>. SUFFICES ASSUME NEW c \in Ctx
                PROVE  /\ s.status[c] = "FREED" => u.status[c] = "FREED"
                       /\ s.status[c] = "TERMINATED" => u.status[c] \in {"TERMINATED", "FREED"}
                       /\ s.status[c] # "BLOCKED" => u.status[c] # "BLOCKED"
                       /\ u.status[c] \in Live => u.waitingList[c] = s.waitingList[c]
    BY DEF Fate
  <2>1. t.status[c] \in Statuses
    BY DEF Kernel
  <2>. QED BY <2>1 DEF Lawful, Fate, Statuses, Live
<1>2. Wakes(s, u)
  <2>. SUFFICES ASSUME NEW c \in Ctx, s.status[c] \in Live, u.status[c] \notin Live,
                       NEW w \in ToSet(s.waitingList[c]) \ {NULL}, s.status[w] = "BLOCKED"
                PROVE  u.status[w] # "BLOCKED"
    BY DEF Wakes
  <2>1. w \in Ctx
    BY WaitersAreContexts
  <2>2. CASE t.status[c] \in Live
    <3>1. t.waitingList[c] = s.waitingList[c]
      BY <2>2 DEF Lawful, Fate
    <3>. QED BY <2>1, <2>2, <3>1 DEF Lawful, Fate, Wakes
  <2>3. CASE t.status[c] \notin Live
    BY <2>1, <2>3 DEF Lawful, Fate, Wakes
  <2>. QED BY <2>2, <2>3
<1>. QED
  BY <1>1, <1>2 DEF Lawful

\* Where nobody dies nobody has to be woken.
LEMMA GentleIsLawful ==
    ASSUME NEW s, NEW t, Gentle(s, t)
    PROVE  Lawful(s, t)
BY DEF Gentle, Lawful, Spares, Wakes

LEMMA GentleComposes ==
    ASSUME NEW s \in Kernel, NEW t \in Kernel, NEW u \in Kernel, Gentle(s, t), Gentle(t, u)
    PROVE  Gentle(s, u)
<1>1. Lawful(s, u)
  BY GentleIsLawful, LawfulComposes
<1>2. Spares(s, u)
  BY DEF Gentle, Spares
<1>. QED
  BY <1>1, <1>2 DEF Lawful, Gentle

-----------------------------------------------------------------------------
(***************************************************************************)
(* schedule().                                                             *)
(***************************************************************************)

LEMMA DispatchFirstGentle ==
    ASSUME NEW s, Parked(s)
    PROVE  Gentle(s, DispatchFirst(s))
<1>. DEFINE c == Head(s.readyProcess)
            t == DispatchFirst(s)
<1>1. s \in Kernel /\ s.readyProcess \in Seq(Ctx) /\ s.readyProcess # << >>
  BY SomebodyReady DEF Parked, Common, Kernel
<1>2. c \in Ctx /\ s.status[c] = "READY"
  BY <1>1, TailProperty, ToSetProperty DEF Parked, Common, Lists
<1>. HIDE DEF c
<1>3. t = [s EXCEPT !.readyProcess   = Tail(@),
                    !.currentProcess = c,
                    !.currentPid     = s.pid[c],
                    !.quantums       = s.priority[c],
                    !.status[c]      = "RUNNING"]
  BY <1>1, <1>2 DEF DispatchFirst, Dispatch, Kernel, c
<1>4. t.status = [s.status EXCEPT ![c] = "RUNNING"] /\ t.waitingList = s.waitingList
  BY <1>1, <1>3 DEF Kernel
<1>. HIDE DEF t
<1>5. \A d \in Ctx : t.status[d] = IF d = c THEN "RUNNING" ELSE s.status[d]
  BY <1>1, <1>2, <1>4 DEF Kernel
<1>6. Fate(s, t) /\ Spares(s, t)
  BY <1>2, <1>4, <1>5 DEF Fate, Spares, Live
<1>. QED
  BY <1>6 DEF Gentle, t

LEMMA FreeProcessStatus ==
    ASSUME NEW s \in Kernel, NEW c \in Ctx
    PROVE  \A d \in Ctx :
            /\ FreeProcess(s, c).status[d] = IF d = c THEN "FREED" ELSE s.status[d]
            /\ d # c => FreeProcess(s, c).waitingList[d] = s.waitingList[d]
<1>1. /\ FreeProcess(s, c).status = [s.status EXCEPT ![c] = "FREED"]
      /\ FreeProcess(s, c).waitingList = [s.waitingList EXCEPT ![c] = << >>]
  BY DEF FreeProcess, Kernel
<1>. QED
  BY <1>1 DEF Kernel

LEMMA RetireGentle ==
    ASSUME NEW s, Mid(s)
    PROVE  Gentle(s, Retire(s))
<1>. DEFINE c == s.currentProcess
            t == Retire(s)
<1>1. s \in Kernel /\ c \in Ctx \cup {NULL}
  BY DEF Mid, Common, Kernel
<1>2. CASE c \in Ctx /\ s.status[c] = "TERMINATED"
  <2>1. t = [FreeProcess(s, c) EXCEPT !.currentProcess = NULL, !.currentPid = NO_PROCESS]
    BY <1>2, SchedulerAssumption DEF Retire
  <2>2. FreeProcess(s, c) \in Kernel
    BY <1>1, <1>2, FreeProcessFrame
  <2>3. t.status = FreeProcess(s, c).status /\ t.waitingList = FreeProcess(s, c).waitingList
    BY <2>1, <2>2 DEF Kernel
  <2>4. \A d \in Ctx : /\ t.status[d] = IF d = c THEN "FREED" ELSE s.status[d]
                       /\ d # c => t.waitingList[d] = s.waitingList[d]
    BY <1>1, <1>2, <2>3, FreeProcessStatus
  <2>. HIDE DEF t
  <2>5. Fate(s, t) /\ Spares(s, t)
    BY <1>2, <2>4 DEF Fate, Spares, Live
  <2>. QED BY <2>5 DEF Gentle, t
<1>3. CASE c \in Ctx /\ s.status[c] = "RUNNING"
  <2>1. t = [s EXCEPT !.status[c] = "READY", !.readyProcess = Append(@, c)]
    BY <1>3, SchedulerAssumption DEF Retire
  <2>2. t.status = [s.status EXCEPT ![c] = "READY"] /\ t.waitingList = s.waitingList
    BY <1>1, <2>1 DEF Kernel
  <2>. HIDE DEF t
  <2>3. \A d \in Ctx : t.status[d] = IF d = c THEN "READY" ELSE s.status[d]
    BY <1>1, <2>2 DEF Kernel
  <2>4. Fate(s, t) /\ Spares(s, t)
    BY <1>3, <2>2, <2>3 DEF Fate, Spares, Live
  <2>. QED BY <2>4 DEF Gentle, t
<1>4. CASE ~ (c \in Ctx /\ s.status[c] \in {"TERMINATED", "RUNNING"})
  <2>1. t = s
    BY <1>1, <1>4 DEF Retire
  <2>2. Fate(s, t) /\ Spares(s, t)
    BY <2>1 DEF Fate, Spares
  <2>. QED BY <2>2 DEF Gentle
<1>. QED
  BY <1>2, <1>3, <1>4

LEMMA SwitchGentle ==
    ASSUME NEW s, Mid(s)
    PROVE  Gentle(s, Switch(s))
<1>1. CASE s.currentPid = NO_PROCESS
  <2>1. s.currentProcess = NULL
    BY <1>1 DEF Mid, Common, CpuMid, Identity, Kernel, Pids, NO_PROCESS
  <2>2. Parked(s)
    BY <2>1, SchedulerAssumption DEF Mid, CpuMid, Parked
  <2>. QED BY <1>1, <2>2, SomebodyReady, DispatchFirstGentle DEF Switch
<1>2. CASE s.currentPid # NO_PROCESS
  <2>1. Parked(Retire(s)) /\ Gentle(s, Retire(s))
    BY RetireParked, RetireGentle
  <2>2. Gentle(Retire(s), DispatchFirst(Retire(s)))
    BY <2>1, DispatchFirstGentle
  <2>3. s \in Kernel /\ Retire(s) \in Kernel /\ DispatchFirst(Retire(s)) \in Kernel
    BY <2>1, DispatchFirstInv DEF Mid, Parked, Inv, Common
  <2>4. Switch(s) = DispatchFirst(Retire(s))
    BY <1>2, <2>1, SomebodyReady DEF Switch
  <2>. QED BY <2>1, <2>2, <2>3, <2>4, GentleComposes
<1>. QED
  BY <1>1, <1>2

LEMMA QuantumGentle ==
    ASSUME NEW s \in Kernel, NEW q \in Int, NEW t, Gentle([s EXCEPT !.quantums = q], t)
    PROVE  Gentle(s, t)
<1>1. /\ [s EXCEPT !.quantums = q].status = s.status
      /\ [s EXCEPT !.quantums = q].waitingList = s.waitingList
  BY DEF Kernel
<1>. QED
  BY <1>1 DEF Gentle, Fate, Spares

LEMMA UnchangedGentle == \A s : Gentle(s, s)
BY DEF Gentle, Fate, Spares

LEMMA ScheduleGentle ==
    ASSUME NEW s, Inv(s)
    PROVE  Gentle(s, Schedule(s))
<1>. DEFINE t == [s EXCEPT !.quantums = s.quantums - 1]
<1>1. s \in Kernel /\ s.quantums - 1 \in Int
  BY DEF Inv, Common, Kernel
<1>2. [s EXCEPT !.quantums = @ - 1] = t
  BY <1>1 DEF Kernel
<1>3. Mid(t)
  BY <1>1, InvIsMid, QuantumFrame
<1>4. Schedule(s) = t \/ Schedule(s) = Switch(t)
  BY <1>2 DEF Schedule
<1>5. Gentle(t, Schedule(s))
  BY <1>3, <1>4, SwitchGentle, UnchangedGentle
<1>. QED
  BY <1>1, <1>5, QuantumGentle

LEMMA YieldGentle ==
    ASSUME NEW s, Mid(s)
    PROVE  Gentle(s, Yield(s))
<1>. DEFINE u == [s EXCEPT !.quantums = 0]
            t == [s EXCEPT !.quantums = -1]
<1>1. s \in Kernel
  BY DEF Mid, Common
<1>2. [u EXCEPT !.quantums = @ - 1] = t
  <2>1. u.quantums = 0 /\ [u EXCEPT !.quantums = @ - 1] = [u EXCEPT !.quantums = -1]
    BY <1>1 DEF Kernel
  <2>. QED BY <1>1, <2>1 DEF Kernel
<1>3. Mid(t)
  BY QuantumFrame
<1>4. Yield(s) = t \/ Yield(s) = Switch(t)
  BY <1>2 DEF Yield, Schedule
<1>5. Gentle(t, Yield(s))
  BY <1>3, <1>4, SwitchGentle, UnchangedGentle
<1>. QED
  BY <1>1, <1>5, QuantumGentle

-----------------------------------------------------------------------------
(***************************************************************************)
(* kill().                                                                 *)
(***************************************************************************)

\* The wake loop of kill() reaches every process of the list that can wake.
LEMMA WakeOrdersCover ==
    ASSUME NEW s, NEW waiters, ToSet(waiters) \subseteq Ctx \cup {NULL},
           DOMAIN waiters \subseteq Nat, NEW w \in WakeOrders(s, waiters),
           NEW c \in ToSet(waiters), CanWake(s, c)
    PROVE  c \in ToSet(w)
<1>. DEFINE W == {x \in ToSet(waiters) : CanWake(s, x)}
            n == Cardinality(W)
<1>1. W \subseteq Ctx /\ c \in W
  BY DEF CanWake
<1>2. IsFiniteSet(W) /\ n \in Nat
  BY <1>1, FS_Subset, FS_CardinalityType, SchedulerAssumption
<1>3. w \in [1 .. n -> W]
  BY DEF WakeOrders
<1>4. IsInjective(w)
  BY WakeOrdersProperty
<1>. HIDE DEF n, W
<1>5. w \in Injection(1 .. n, W)
  BY <1>3, <1>4 DEF IsInjective, Injection
<1>6. Cardinality(1 .. n) = n
  BY <1>2, FS_Interval
<1>7. w \in Surjection(1 .. n, W)
  BY <1>2, <1>5, <1>6, FS_Injection DEF n
<1>8. PICK i \in 1 .. n : w[i] = c
  BY <1>1, <1>7 DEF Surjection
<1>. QED
  BY <1>3, <1>8 DEF ToSet

\* Where the victim's context goes, and that no other is touched.
LEMMA BuryFate ==
    ASSUME NEW v \in Kernel, NEW c \in Ctx
    PROVE  /\ Bury(v, c).status[c] \in {"TERMINATED", "FREED"}
           /\ \A e \in Ctx : e # c =>
                /\ Bury(v, c).status[e] = v.status[e]
                /\ Bury(v, c).waitingList[e] = v.waitingList[e]
<1>. DEFINE t == [v EXCEPT !.processList = RemoveFirst(@, c),
                           !.status[c]   = "TERMINATED",
                           !.processQty  = @ - 1]
<1>1. /\ t.status = [v.status EXCEPT ![c] = "TERMINATED"]
      /\ t.waitingList = v.waitingList
  BY DEF Kernel
<1>2. /\ FreeProcess(t, c).status = [t.status EXCEPT ![c] = "FREED"]
      /\ FreeProcess(t, c).waitingList = [t.waitingList EXCEPT ![c] = << >>]
  BY DEF FreeProcess, Kernel
<1>3. Bury(v, c) = IF v.currentProcess = c THEN t ELSE FreeProcess(t, c)
  BY DEF Bury
<1>. HIDE DEF t
<1>. QED
  BY <1>1, <1>2, <1>3 DEF Kernel

\* Detach and Wake leave the waiting lists alone.
LEMMA WaitingListFrame ==
    ASSUME NEW s \in Kernel, NEW c \in Ctx, NEW w
    PROVE  /\ Detach(s, c).waitingList = s.waitingList
           /\ Wake(s, w).waitingList = s.waitingList
<1>1. Detach(s, c).waitingList = s.waitingList
  BY DEF Detach, Kernel
<1>2. Wake(s, w).waitingList = s.waitingList
  BY DEF Wake, Kernel
<1>. QED
  BY <1>1, <1>2

\* findProcess finds the live process whose pid it is given.
LEMMA FindsTheLive ==
    ASSUME NEW s \in Kernel, Identity(s), NEW w \in Ctx, s.status[w] \in Live,
           \A c \in ToSet(s.processList) : s.status[c] \in Live,
           w \in ToSet(s.processList)
    PROVE  FindProcess(s, s.pid[w]) = w
BY FindProcessProperty DEF Identity

\* kill() ends the victim only, and wakes everyone blocked in its waiting list:
\* the pids it reads behind their addresses are still theirs, because a process
\* that is blocked is alive.
LEMMA KillLawful ==
    ASSUME NEW s, Inv(s), NEW c \in Ctx, c \in ToSet(s.processList), NEW t \in Kill(s, c)
    PROVE  Lawful(s, t)
<1>. DEFINE d == Detach(s, c)
<1>1. s \in Kernel /\ Lists(s) /\ Identity(s) /\ s.status[c] \in Live
  BY DEF Inv, Common, Lists
<1>2. d \in Kernel /\ ListsBut(d, c) /\ SameProcesses(s, d) /\ d.status = s.status
  BY <1>1, DetachProperty
<1>3. d.waitingList = s.waitingList
  BY <1>1, WaitingListFrame
<1>4. PICK stale \in [Dangling(s, c) -> StalePids] :
        \E w \in WakeOrders(d, Waiters(d, c, stale)) : t = Bury(Wake(d, w), c)
  BY <1>1, DetachSucceeds DEF Kill
<1>. HIDE DEF d
<1>5. PICK w \in WakeOrders(d, Waiters(d, c, stale)) : t = Bury(Wake(d, w), c)
  BY <1>4
<1>. DEFINE waiters == Waiters(d, c, stale)
            v == Wake(d, w)
<1>6. /\ ToSet(waiters) \subseteq Ctx \cup {NULL}
      /\ DOMAIN waiters = DOMAIN s.waitingList[c] /\ DOMAIN waiters \subseteq Nat
  <2>1. \A pid : FindProcess(d, pid) \in Ctx \cup {NULL}
    BY <1>2, FindProcessProperty
  <2>2. DOMAIN d.waitingList[c] \subseteq Nat
    BY <1>2 DEF Kernel
  <2>. QED
    BY <1>3, <2>1, <2>2 DEF ToSet, Waiters
<1>7. /\ w \in Seq(Ctx) /\ IsInjective(w) /\ \A e \in ToSet(w) : CanWake(d, e)
  BY <1>5, <1>6, WakeOrdersProperty
<1>8. /\ v \in Kernel
      /\ \A e \in Ctx :
            /\ e \in ToSet(w) => d.status[e] = "BLOCKED" /\ e # c /\ v.status[e] = "READY"
            /\ e \notin ToSet(w) => v.status[e] = d.status[e]
  BY <1>2, <1>7, WakeProperty
<1>9. v.waitingList = s.waitingList
  BY <1>2, <1>3, WaitingListFrame
<1>. HIDE DEF v
<1>10. /\ t.status[c] \in {"TERMINATED", "FREED"}
       /\ \A e \in Ctx : e # c => /\ t.status[e] = v.status[e]
                                  /\ t.waitingList[e] = s.waitingList[e]
  <2>1. t = Bury(v, c)
    BY <1>5 DEF v
  <2>. QED
    BY <1>8, <1>9, <2>1, BuryFate
<1>11. ASSUME NEW e \in Ctx, e # c, e \in ToSet(s.waitingList[c]), s.status[e] = "BLOCKED"
       PROVE  e \in ToSet(w)
  <2>1. e \in ToSet(d.processList) /\ \A x \in ToSet(d.processList) : d.status[x] \in Live
    <3>1. ToSet(d.processList) \subseteq Ctx
      BY <1>2, ToSetProperty DEF Kernel
    <3>. QED
      BY <1>2, <1>11, <3>1 DEF ListsBut, Live
  <2>2. Identity(d)
    BY <1>1, <1>2 DEF Identity, SameProcesses
  <2>3. FindProcess(d, d.pid[e]) = e
    BY <1>2, <1>11, <2>1, <2>2, FindsTheLive DEF Live
  <2>4. PICK i \in DOMAIN s.waitingList[c] : s.waitingList[c][i] = e
    BY <1>11 DEF ToSet
  <2>5. waiters[i] = e
    BY <1>2, <1>3, <1>11, <2>3, <2>4, SchedulerAssumption DEF Waiters
  <2>6. e \in ToSet(waiters)
    BY <1>6, <2>4, <2>5 DEF ToSet
  <2>7. CanWake(d, e)
    BY <1>2, <1>11, SchedulerAssumption DEF CanWake, ListsBut
  <2>. HIDE DEF waiters
  <2>. QED
    BY <1>5, <1>6, <2>6, <2>7, WakeOrdersCover DEF waiters
<1>12. Fate(s, t)
  BY <1>1, <1>2, <1>8, <1>10 DEF Fate, Live
<1>13. Wakes(s, t)
  <2>. SUFFICES ASSUME NEW x \in Ctx, s.status[x] \in Live, t.status[x] \notin Live,
                       NEW e \in ToSet(s.waitingList[x]) \ {NULL}, s.status[e] = "BLOCKED"
                PROVE  t.status[e] # "BLOCKED"
    BY DEF Wakes
  <2>1. x = c
    BY <1>2, <1>8, <1>10 DEF Live
  <2>2. e \in Ctx
    BY <1>1, WaitersAreContexts
  <2>. QED
    BY <1>8, <1>10, <1>11, <2>1, <2>2
<1>. QED
  BY <1>12, <1>13 DEF Lawful

\* The other end of a pipe dies with its process.
LEMMA KillPeerLawful ==
    ASSUME NEW s, Inv(s), NEW fd, NEW t \in KillPeer(s, fd)
    PROVE  Lawful(s, t)
<1>. DEFINE peer == PipedTo(s, fd)
<1>1. CASE fd = -1 \/ peer = NULL
  BY <1>1, UnchangedGentle, GentleIsLawful DEF KillPeer
<1>2. CASE fd # -1 /\ peer # NULL
  <2>1. t \in Kill(s, peer)
    BY <1>2 DEF KillPeer
  <2>2. s.processList \in Seq(Ctx)
    BY DEF Inv, Common, Kernel
  <2>3. peer \in Ctx /\ peer \in ToSet(s.processList)
    BY <1>2, <2>2, FirstInProperty DEF PipedTo
  <2>. HIDE DEF peer
  <2>. QED
    BY <2>1, <2>3, KillLawful
<1>. QED
  BY <1>1, <1>2

LEMMA KillProcessLawful ==
    ASSUME NEW s, Inv(s), NEW pid \in Targets, NEW t \in KillProcess(s, pid)
    PROVE  Lawful(s, t)
<1>. DEFINE c == FindProcess(s, pid)
<1>1. s \in Kernel /\ Lists(s)
  BY DEF Inv, Common
<1>2. CASE c = NULL
  BY <1>2, UnchangedGentle, GentleIsLawful DEF KillProcess
<1>3. CASE c # NULL
  <2>1. c \in Ctx /\ c \in ToSet(s.processList) /\ s.pid[c] = pid
    BY <1>1, <1>3, FindProcessProperty
  <2>2. ~ DetachFails(s, c)
    BY <1>1, <2>1, DetachSucceeds
  <2>3. PICK u \in Kill(s, c) : t \in KillPeer(u, PipedFd(s, c))
    BY <1>3, <2>2 DEF KillProcess
  <2>. HIDE DEF c
  <2>4. Inv(u) /\ Lawful(s, u)
    BY <2>1, <2>3, KillInv, KillLawful
  <2>5. Lawful(u, t)
    BY <2>3, <2>4, KillPeerLawful
  <2>6. u \in Kernel /\ t \in Kernel
    BY <2>4, KillProcessInv DEF Inv, Common
  <2>. QED
    BY <1>1, <2>4, <2>5, <2>6, LawfulComposes
<1>. QED
  BY <1>2, <1>3

LEMMA KillForegroundProcessLawful ==
    ASSUME NEW s, Inv(s), NEW t \in KillForegroundProcess(s)
    PROVE  Lawful(s, t)
<1>. DEFINE first == FirstIn(s.processList, {c \in Ctx : IsForeground(s, c)})
<1>1. s \in Kernel /\ s.processList \in Seq(Ctx) /\ s.currentProcess \in Ctx \cup {NULL}
  BY DEF Inv, Common, Kernel
<1>2. CASE t = s
  BY <1>2, UnchangedGentle, GentleIsLawful
<1>3. CASE s.currentProcess # NULL /\ IsForeground(s, s.currentProcess)
  <2>1. t \in KillProcess(s, s.pid[s.currentProcess])
    BY <1>3 DEF KillForegroundProcess
  <2>2. s.status[s.currentProcess] \in {"RUNNING", "TERMINATED"}
    BY <1>3 DEF Inv, Cpu
  <2>3. FOREGROUND # BACKGROUND
    BY DEF FOREGROUND, BACKGROUND
  <2>4. s.pid[s.currentProcess] \in Targets
    BY <1>1, <1>3, <2>2, <2>3 DEF IsForeground, Inv, Common, Identity, Roles, Live, Targets
  <2>. QED
    BY <2>1, <2>4, KillProcessLawful
<1>4. CASE first # NULL /\ t \in Kill(s, first)
  <2>1. first \in Ctx /\ first \in ToSet(s.processList)
    BY <1>1, <1>4, FirstInProperty
  <2>. HIDE DEF first
  <2>. QED
    BY <1>4, <2>1, KillLawful
<1>. QED
  BY <1>2, <1>3, <1>4 DEF KillForegroundProcess

-----------------------------------------------------------------------------
(***************************************************************************)
(* The handlers that block, wake, renice or create a process.  They may    *)
(* put a process to sleep or bring a freed context to life; they kill      *)
(* nobody and bring nobody back who was killed.                            *)
(***************************************************************************)

Mild(s, t) ==
    /\ Spares(s, t)
    /\ \A c \in Ctx : s.status[c] = "TERMINATED" => t.status[c] \in {"TERMINATED", "FREED"}

LEMMA GentleIsMild ==
    ASSUME NEW s, NEW t, Gentle(s, t)
    PROVE  Mild(s, t)
BY DEF Gentle, Fate, Mild

LEMMA SameStatusIsMild ==
    ASSUME NEW s, NEW t, t.status = s.status
    PROVE  Mild(s, t)
BY DEF Mild, Spares

\* Whatever a handler does before it yields.
LEMMA YieldAfterMild ==
    ASSUME NEW s, NEW t, Mid(t), Mild(s, t)
    PROVE  Mild(s, Yield(t))
<1>1. Mild(t, Yield(t))
  BY YieldGentle, GentleIsMild
<1>2. \A c \in Ctx : t.status[c] = "FREED" => Yield(t).status[c] = "FREED"
  BY YieldGentle DEF Gentle, Fate
<1>. QED
  BY <1>1, <1>2 DEF Mild, Spares

LEMMA MoveToBlockedMild ==
    ASSUME NEW s, Inv(s), NEW c \in Ctx, s.status[c] \in {"READY", "RUNNING"}
    PROVE  Mild(s, MoveToBlocked(s, c))
<1>. DEFINE d == Detach(s, c)
<1>1. d \in Kernel /\ d.status = s.status
  BY DetachProperty DEF Inv, Common
<1>. HIDE DEF d
<1>2. MoveToBlocked(s, c).status = [s.status EXCEPT ![c] = "BLOCKED"]
  BY <1>1 DEF MoveToBlocked, Kernel, d
<1>3. \A e \in Ctx : MoveToBlocked(s, c).status[e] = IF e = c THEN "BLOCKED" ELSE s.status[e]
  BY <1>2 DEF Inv, Common, Kernel
<1>. QED
  BY <1>3 DEF Mild, Spares, Live

LEMMA BlockProcessMild ==
    ASSUME NEW s, Inv(s), NEW pid, pid # IDLE_PID
    PROVE  Mild(s, BlockProcess(s, pid))
<1>. DEFINE c == FindProcess(s, pid)
            b == IF s.status[c] \in {"RUNNING", "READY"} THEN MoveToBlocked(s, c) ELSE s
<1>1. s \in Kernel /\ Mild(s, s) /\ Mid(s)
  BY InvIsMid, SameStatusIsMild DEF Inv, Common
<1>2. CASE BlockProcess(s, pid) = s
  BY <1>1, <1>2
<1>3. CASE BlockProcess(s, pid) # s
  <2>1. c # NULL
    BY <1>3 DEF BlockProcess
  <2>2. c \in Ctx /\ s.pid[c] = pid
    BY <1>1, <2>1, FindProcessProperty
  <2>3. BlockProcess(s, pid) = IF s.currentPid = pid THEN Yield(b) ELSE b
    BY <1>3, <2>1 DEF BlockProcess
  <2>. HIDE DEF c
  <2>4. Mid(b) /\ Mild(s, b)
    BY <1>1, <2>2, MoveToBlockedInv, MoveToBlockedMild
  <2>. QED
    BY <2>3, <2>4, YieldAfterMild
<1>. QED
  BY <1>2, <1>3

LEMMA WaitProcessMild ==
    ASSUME NEW s, Inv(s), s.currentPid # IDLE_PID, NEW pid
    PROVE  Mild(s, WaitProcess(s, pid))
<1>. DEFINE target == FindProcess(s, pid)
            self   == FindProcess(s, s.currentPid)
            t      == [s EXCEPT !.waitingList[target] = Append(@, self)]
<1>1. s \in Kernel
  BY DEF Inv, Common
<1>2. CASE target = NULL \/ s.currentPid = pid
  BY <1>2, SameStatusIsMild DEF WaitProcess
<1>3. CASE ~ (target = NULL \/ s.currentPid = pid)
  <2>1. target \in Ctx /\ self \in Ctx \cup {NULL}
    BY <1>1, <1>3, FindProcessProperty
  <2>2. WaitProcess(s, pid) = BlockProcess(t, s.currentPid)
    BY <1>3 DEF WaitProcess
  <2>. HIDE DEF target, self
  <2>3. [s.waitingList EXCEPT ![target] = Append(@, self)] \in [Ctx -> Seq(Ctx \cup {NULL})]
    BY <1>1, <2>1 DEF Kernel
  <2>4. t \in Kernel
    BY <1>1, <2>3 DEF Kernel
  <2>5. /\ SameProcesses(s, t)
        /\ t.readyProcess = s.readyProcess /\ t.blockedProcess = s.blockedProcess
        /\ t.status = s.status
    BY <1>1 DEF Kernel, SameProcesses
  <2>. HIDE DEF t
  <2>6. Inv(t)
    BY <2>4, <2>5, OtherFieldsFrame
  <2>7. Mild(t, BlockProcess(t, s.currentPid))
    BY <2>6, BlockProcessMild
  <2>. QED
    BY <2>2, <2>5, <2>7 DEF Mild, Spares
<1>. QED
  BY <1>2, <1>3

LEMMA SetReadyProcessMild ==
    ASSUME NEW s, Inv(s), NEW pid
    PROVE  Mild(s, SetReadyProcess(s, pid))
<1>. DEFINE c == FindProcess(s, pid)
            S == [e \in Ctx |-> IF e \in ToSet(<< c >>) THEN "READY" ELSE s.status[e]]
<1>1. s \in Kernel
  BY DEF Inv, Common
<1>2. CASE c # NULL /\ CanWake(s, c)
  <2>1. s.status[c] = "BLOCKED" /\ ToSet(<< c >>) = {c}
    BY <1>2 DEF CanWake, ToSet
  <2>2. SetReadyProcess(s, pid).status = S
    BY <1>1, <1>2 DEF SetReadyProcess, Wake, Kernel
  <2>. HIDE DEF c
  <2>3. \A e \in Ctx : S[e] = IF e = c THEN "READY" ELSE s.status[e]
    BY <2>1
  <2>. QED
    BY <2>1, <2>2, <2>3 DEF Mild, Spares, Live
<1>3. CASE ~ (c # NULL /\ CanWake(s, c))
  BY <1>3, SameStatusIsMild DEF SetReadyProcess
<1>. QED
  BY <1>2, <1>3

LEMMA CreateProcessMild ==
    ASSUME NEW s \in Kernel, NEW c \in Ctx, s.status[c] = "FREED", NEW pid, NEW program
    PROVE  Mild(s, CreateProcess(s, c, pid, program))
<1>1. CreateProcess(s, c, pid, program).status = [s.status EXCEPT ![c] = "READY"]
  BY DEF CreateProcess, InitializeProcess, Kernel
<1>2. \A e \in Ctx : [s.status EXCEPT ![c] = "READY"][e] = IF e = c THEN "READY" ELSE s.status[e]
  BY DEF Kernel
<1>. QED
  BY <1>1, <1>2 DEF Mild, Spares, Live

LEMMA ChangePriorityMild ==
    ASSUME NEW s \in Kernel, NEW pid, NEW priority
    PROVE  Mild(s, ChangePriority(s, pid, priority))
<1>1. ChangePriority(s, pid, priority).status = s.status
  BY DEF ChangePriority, Kernel
<1>. QED
  BY <1>1, SameStatusIsMild

-----------------------------------------------------------------------------
(***************************************************************************)
(* The theorems.                                                           *)
(***************************************************************************)

Dead(s, t) == \A c \in Ctx : s.status[c] = "TERMINATED" => t.status[c] \in {"TERMINATED", "FREED"}

LEMMA StepIsLawful ==
    ASSUME Inv(k), Inv(k'), [Next]_k
    PROVE  Dead(k, k') /\ Wakes(k, k')
<1>. SUFFICES Lawful(k, k') \/ Gentle(k, k') \/ Mild(k, k')
  BY DEF Lawful, Gentle, Mild, Fate, Dead, Wakes, Spares
<1>a. k \in Kernel
  BY DEF Inv, Common
<1>1. CASE TimerTick
  BY <1>1, ScheduleGentle DEF TimerTick
<1>2. ASSUME NEW program \in Programs, SyscallCreateProcess(program) PROVE Mild(k, k')
  BY <1>a, <1>2, CreateProcessMild DEF SyscallCreateProcess
<1>3. ASSUME NEW pid \in Targets, SyscallKill(pid) PROVE Lawful(k, k')
  BY <1>3, KillProcessLawful DEF SyscallKill
<1>4. CASE SyscallExit
  <2>1. k.currentPid = k.pid[k.currentProcess]
    BY <1>4 DEF SyscallExit, UserRuns, Inv, Cpu
  <2>2. PICK t \in KillProcess(k, k.pid[k.currentProcess]) : k' = Yield(t)
    BY <1>4 DEF SyscallExit
  <2>3. Inv(t) /\ Lawful(k, t)
    BY <1>4, <2>1, <2>2, KillProcessInv, KillProcessLawful DEF SyscallExit
  <2>4. Lawful(t, k')
    BY <2>2, <2>3, InvIsMid, YieldGentle, GentleIsLawful
  <2>. QED
    BY <1>a, <2>3, <2>4, LawfulComposes DEF Inv, Common
<1>5. ASSUME NEW pid \in Targets, SyscallBlock(pid) PROVE Mild(k, k')
  BY <1>5, BlockProcessMild DEF SyscallBlock, Targets
<1>6. ASSUME NEW pid \in Pids, SyscallSetReady(pid) PROVE Mild(k, k')
  BY <1>6, SetReadyProcessMild DEF SyscallSetReady
<1>7. CASE SyscallYield
  BY <1>7, InvIsMid, YieldGentle DEF SyscallYield
<1>8. ASSUME NEW pid \in Pids, SyscallWait(pid) PROVE Mild(k, k')
  <2>1. k.currentPid # IDLE_PID
    BY <1>8 DEF SyscallWait, UserRuns, Inv, Cpu
  <2>. QED
    BY <1>8, <2>1, WaitProcessMild DEF SyscallWait
<1>9. ASSUME NEW pid \in Targets, NEW priority \in Priorities, SyscallNice(pid, priority)
      PROVE  Mild(k, k')
  BY <1>a, <1>9, ChangePriorityMild DEF SyscallNice
<1>10. CASE CtrlC
  BY <1>10, KillForegroundProcessLawful DEF CtrlC
<1>11. CASE UNCHANGED k
  BY <1>11, UnchangedGentle
<1>. QED
  BY <1>1, <1>2, <1>3, <1>4, <1>5, <1>6, <1>7, <1>8, <1>9, <1>10, <1>11 DEF Next

\* No system call, tick or Ctrl+C brings back a process that was killed while it
\* had the processor.
THEOREM DeadStayDeadCorrect == Spec => DeadStayDead
<1>1. IInv /\ IInv' /\ [Next]_k =>
        [\A c \in Ctx : k.status[c] = "TERMINATED" => k'.status[c] \in {"TERMINATED", "FREED"}]_k
  BY StepIsLawful DEF IInv, Dead
<1>. QED
  BY <1>1, Invariance, PTL DEF Spec, DeadStayDead

\* Whoever waits for a process stops being blocked in the step that kills it,
\* whatever dangling addresses its waiting list holds beside the waiter's.
THEOREM WaitersCorrect == Spec => WaitersAreWoken
<1>1. IInv /\ IInv' /\ [Next]_k =>
        [\A t \in Ctx : k.status[t] \in Live /\ k'.status[t] \notin Live =>
            \A w \in ToSet(k.waitingList[t]) \ {NULL} :
                k.status[w] = "BLOCKED" => k'.status[w] # "BLOCKED"]_k
  BY StepIsLawful DEF IInv, Wakes
<1>. QED
  BY <1>1, Invariance, PTL DEF Spec, WaitersAreWoken

-----------------------------------------------------------------------------
(***************************************************************************)
(* Round robin.  old is the ready list before a step.  In the middle of a  *)
(* handler those of old that are still queued are in the same order, and   *)
(* none of them is in a state from which the rest of the handler could     *)
(* queue it again: schedule() requeues the one that runs, kill() wakes     *)
(* those that are blocked.                                                 *)
(***************************************************************************)
StillQueued(old, s) ==
    /\ InOrder(old, s.readyProcess)
    /\ \A c \in Ctx : c \in ToSet(old) => s.status[c] # "RUNNING"

NoneSleeps(old, s) == \A c \in Ctx : c \in ToSet(old) => s.status[c] # "BLOCKED"

\* At the beginning of a step.
LEMMA QueuedAtFirst ==
    ASSUME NEW s, Inv(s)
    PROVE  StillQueued(s.readyProcess, s) /\ NoneSleeps(s.readyProcess, s)
BY InOrderReflexive DEF StillQueued, NoneSleeps, Inv, Common, Lists

LEMMA DispatchFirstInOrder ==
    ASSUME NEW s, Parked(s), NEW old, InOrder(old, s.readyProcess)
    PROVE  InOrder(old, DispatchFirst(s).readyProcess)
<1>1. s \in Kernel /\ s.readyProcess \in Seq(Ctx) /\ s.readyProcess # << >>
  BY SomebodyReady DEF Parked, Common, Kernel
<1>2. DispatchFirst(s).readyProcess = Tail(s.readyProcess)
  BY <1>1 DEF DispatchFirst, Dispatch, Kernel
<1>. QED
  BY <1>1, <1>2, InOrderTail

\* The process that loses the processor queues behind everyone.
LEMMA RetireInOrder ==
    ASSUME NEW s, Mid(s), NEW old, StillQueued(old, s)
    PROVE  InOrder(old, Retire(s).readyProcess)
<1>. DEFINE c == s.currentProcess
            t == Retire(s)
<1>1. s \in Kernel /\ c \in Ctx \cup {NULL} /\ s.readyProcess \in Seq(Ctx)
  BY DEF Mid, Common, Kernel
<1>2. CASE c \in Ctx /\ s.status[c] = "TERMINATED"
  <2>1. t = [FreeProcess(s, c) EXCEPT !.currentProcess = NULL, !.currentPid = NO_PROCESS]
    BY <1>2, SchedulerAssumption DEF Retire
  <2>2. FreeProcess(s, c) \in Kernel /\ FreeProcess(s, c).readyProcess = s.readyProcess
    BY <1>1, <1>2, FreeProcessFrame
  <2>3. t.readyProcess = s.readyProcess
    BY <2>1, <2>2 DEF Kernel
  <2>. QED
    BY <2>3 DEF StillQueued
<1>3. CASE c \in Ctx /\ s.status[c] = "RUNNING"
  <2>1. t = [s EXCEPT !.status[c] = "READY", !.readyProcess = Append(@, c)]
    BY <1>3, SchedulerAssumption DEF Retire
  <2>2. t.readyProcess = Append(s.readyProcess, c)
    BY <1>1, <2>1 DEF Kernel
  <2>3. c \notin ToSet(old)
    BY <1>3 DEF StillQueued
  <2>. HIDE DEF c, t
  <2>. QED
    BY <1>1, <1>3, <2>2, <2>3, InOrderAppend DEF StillQueued, t
<1>4. CASE ~ (c \in Ctx /\ s.status[c] \in {"TERMINATED", "RUNNING"})
  <2>1. t = s
    BY <1>1, <1>4 DEF Retire
  <2>. QED
    BY <2>1 DEF StillQueued
<1>. QED
  BY <1>2, <1>3, <1>4

LEMMA SwitchInOrder ==
    ASSUME NEW s, Mid(s), NEW old, StillQueued(old, s)
    PROVE  InOrder(old, Switch(s).readyProcess)
<1>1. CASE s.currentPid = NO_PROCESS
  <2>1. s.currentProcess = NULL
    BY <1>1 DEF Mid, Common, CpuMid, Identity, Kernel, Pids, NO_PROCESS
  <2>2. Parked(s)
    BY <2>1, SchedulerAssumption DEF Mid, CpuMid, Parked
  <2>3. Switch(s) = DispatchFirst(s)
    BY <1>1, <2>2, SomebodyReady DEF Switch
  <2>. QED
    BY <2>2, <2>3, DispatchFirstInOrder DEF StillQueued
<1>2. CASE s.currentPid # NO_PROCESS
  <2>1. Parked(Retire(s)) /\ InOrder(old, Retire(s).readyProcess)
    BY RetireParked, RetireInOrder
  <2>2. Switch(s) = DispatchFirst(Retire(s))
    BY <1>2, <2>1, SomebodyReady DEF Switch
  <2>. QED
    BY <2>1, <2>2, DispatchFirstInOrder
<1>. QED
  BY <1>1, <1>2

LEMMA QuantumQueued ==
    ASSUME NEW s \in Kernel, NEW q \in Int, NEW old, StillQueued(old, s)
    PROVE  StillQueued(old, [s EXCEPT !.quantums = q])
<1>1. /\ [s EXCEPT !.quantums = q].status = s.status
      /\ [s EXCEPT !.quantums = q].readyProcess = s.readyProcess
  BY DEF Kernel
<1>. QED
  BY <1>1 DEF StillQueued

LEMMA ScheduleInOrder ==
    ASSUME NEW s, Inv(s), NEW old, StillQueued(old, s)
    PROVE  InOrder(old, Schedule(s).readyProcess)
<1>. DEFINE t == [s EXCEPT !.quantums = s.quantums - 1]
<1>1. s \in Kernel /\ s.quantums - 1 \in Int
  BY DEF Inv, Common, Kernel
<1>2. [s EXCEPT !.quantums = @ - 1] = t
  BY <1>1 DEF Kernel
<1>3. Mid(t) /\ StillQueued(old, t)
  BY <1>1, InvIsMid, QuantumFrame, QuantumQueued
<1>4. Schedule(s) = t \/ Schedule(s) = Switch(t)
  BY <1>2 DEF Schedule
<1>. HIDE DEF t
<1>. QED
  BY <1>3, <1>4, SwitchInOrder DEF StillQueued

LEMMA YieldInOrder ==
    ASSUME NEW s, Mid(s), NEW old, StillQueued(old, s)
    PROVE  InOrder(old, Yield(s).readyProcess)
<1>. DEFINE u == [s EXCEPT !.quantums = 0]
            t == [s EXCEPT !.quantums = -1]
<1>1. s \in Kernel
  BY DEF Mid, Common
<1>2. [u EXCEPT !.quantums = @ - 1] = t
  <2>1. u.quantums = 0 /\ [u EXCEPT !.quantums = @ - 1] = [u EXCEPT !.quantums = -1]
    BY <1>1 DEF Kernel
  <2>. QED BY <1>1, <2>1 DEF Kernel
<1>3. Mid(t) /\ StillQueued(old, t)
  BY <1>1, QuantumFrame, QuantumQueued
<1>4. Yield(s) = t \/ Yield(s) = Switch(t)
  BY <1>2 DEF Yield, Schedule
<1>. HIDE DEF t
<1>. QED
  BY <1>3, <1>4, SwitchInOrder DEF StillQueued

\* Taking a process out of the ready list moves nobody else.
LEMMA DetachQueued ==
    ASSUME NEW s \in Kernel, Lists(s), NEW c \in Ctx, NEW old, StillQueued(old, s)
    PROVE  StillQueued(old, Detach(s, c))
<1>1. s.readyProcess \in Seq(Ctx)
  BY DEF Kernel
<1>2. Detach(s, c).status = s.status
  BY DetachProperty
<1>3. CASE s.status[c] = "READY"
  <2>1. Detach(s, c).readyProcess = RemoveFirst(s.readyProcess, c) /\ c \in ToSet(s.readyProcess)
    BY <1>3 DEF Detach, Lists, Kernel
  <2>. QED
    BY <1>1, <1>2, <2>1, InOrderRemoveFirst DEF StillQueued
<1>4. CASE s.status[c] # "READY"
  <2>1. Detach(s, c).readyProcess = s.readyProcess
    BY <1>4 DEF Detach, Kernel
  <2>. QED
    BY <1>2, <2>1 DEF StillQueued
<1>. QED
  BY <1>3, <1>4

\* Those that wake were not queued.
LEMMA WakeQueued ==
    ASSUME NEW s \in Kernel, NEW w \in Seq(Ctx), \A c \in ToSet(w) : CanWake(s, c),
           NEW old, StillQueued(old, s), NoneSleeps(old, s)
    PROVE  StillQueued(old, Wake(s, w)) /\ NoneSleeps(old, Wake(s, w))
<1>. DEFINE S == [c \in Ctx |-> IF c \in ToSet(w) THEN "READY" ELSE s.status[c]]
<1>1. /\ Wake(s, w).readyProcess = s.readyProcess \o w
      /\ Wake(s, w).status = S
      /\ s.readyProcess \in Seq(Ctx)
  BY DEF Wake, Kernel
<1>2. ToSet(w) \subseteq Ctx
  BY ToSetProperty
<1>3. \A c \in ToSet(w) : c \notin ToSet(old)
  BY <1>2 DEF CanWake, NoneSleeps
<1>4. InOrder(old, s.readyProcess \o w)
  BY <1>1, <1>3, InOrderConcat DEF StillQueued
<1>5. \A c \in Ctx : c \in ToSet(old) => S[c] = s.status[c]
  BY <1>3
<1>. HIDE DEF S
<1>. QED
  BY <1>1, <1>4, <1>5 DEF StillQueued, NoneSleeps

LEMMA BuryQueued ==
    ASSUME NEW v \in Kernel, NEW c \in Ctx, NEW old, StillQueued(old, v), NoneSleeps(old, v)
    PROVE  StillQueued(old, Bury(v, c)) /\ NoneSleeps(old, Bury(v, c))
<1>. DEFINE t == [v EXCEPT !.processList = RemoveFirst(@, c),
                           !.status[c]   = "TERMINATED",
                           !.processQty  = @ - 1]
<1>1. t.readyProcess = v.readyProcess
  BY DEF Kernel
<1>2. FreeProcess(t, c).readyProcess = t.readyProcess
  BY DEF FreeProcess, Kernel
<1>3. Bury(v, c) = IF v.currentProcess = c THEN t ELSE FreeProcess(t, c)
  BY DEF Bury
<1>. HIDE DEF t
<1>4. Bury(v, c).readyProcess = v.readyProcess
  BY <1>1, <1>2, <1>3
<1>5. \A e \in Ctx : Bury(v, c).status[e] \in {v.status[e], "TERMINATED", "FREED"}
  BY BuryFate
<1>. QED
  BY <1>4, <1>5 DEF StillQueued, NoneSleeps

LEMMA KillQueued ==
    ASSUME NEW s, Inv(s), NEW c \in Ctx, c \in ToSet(s.processList), NEW t \in Kill(s, c),
           NEW old, StillQueued(old, s), NoneSleeps(old, s)
    PROVE  StillQueued(old, t) /\ NoneSleeps(old, t)
<1>. DEFINE d == Detach(s, c)
<1>1. s \in Kernel /\ Lists(s)
  BY DEF Inv, Common
<1>2. d \in Kernel /\ ListsBut(d, c) /\ d.status = s.status
  BY <1>1, DetachProperty
<1>3. PICK stale \in [Dangling(s, c) -> StalePids] :
        \E w \in WakeOrders(d, Waiters(d, c, stale)) : t = Bury(Wake(d, w), c)
  BY <1>1, DetachSucceeds DEF Kill
<1>4. StillQueued(old, d) /\ NoneSleeps(old, d)
  BY <1>1, <1>2, DetachQueued DEF NoneSleeps
<1>. HIDE DEF d
<1>5. PICK w \in WakeOrders(d, Waiters(d, c, stale)) : t = Bury(Wake(d, w), c)
  BY <1>3
<1>6. ToSet(Waiters(d, c, stale)) \subseteq Ctx \cup {NULL}
  <2>1. \A pid : FindProcess(d, pid) \in Ctx \cup {NULL}
    BY <1>2, FindProcessProperty
  <2>. QED
    BY <2>1 DEF ToSet, Waiters
<1>7. w \in Seq(Ctx) /\ IsInjective(w) /\ \A e \in ToSet(w) : CanWake(d, e)
  <2>1. DOMAIN d.waitingList[c] \subseteq Nat
    BY <1>2 DEF Kernel
  <2>2. DOMAIN Waiters(d, c, stale) \subseteq Nat
    BY <2>1 DEF Waiters
  <2>. QED
    BY <1>5, <1>6, <2>2, WakeOrdersProperty
<1>. DEFINE v == Wake(d, w)
<1>8. v \in Kernel
  BY <1>2, <1>7, WakeProperty
<1>9. StillQueued(old, v) /\ NoneSleeps(old, v)
  BY <1>2, <1>4, <1>7, WakeQueued
<1>10. t = Bury(v, c)
  BY <1>5
<1>. HIDE DEF v
<1>. QED
  BY <1>8, <1>9, <1>10, BuryQueued

LEMMA KillPeerQueued ==
    ASSUME NEW s, Inv(s), NEW fd, NEW t \in KillPeer(s, fd),
           NEW old, StillQueued(old, s), NoneSleeps(old, s)
    PROVE  StillQueued(old, t) /\ NoneSleeps(old, t)
<1>. DEFINE peer == PipedTo(s, fd)
<1>1. CASE fd = -1 \/ peer = NULL
  BY <1>1 DEF KillPeer
<1>2. CASE fd # -1 /\ peer # NULL
  <2>1. t \in Kill(s, peer)
    BY <1>2 DEF KillPeer
  <2>2. s.processList \in Seq(Ctx)
    BY DEF Inv, Common, Kernel
  <2>3. peer \in Ctx /\ peer \in ToSet(s.processList)
    BY <1>2, <2>2, FirstInProperty DEF PipedTo
  <2>. HIDE DEF peer
  <2>. QED
    BY <2>1, <2>3, KillQueued
<1>. QED
  BY <1>1, <1>2

LEMMA KillProcessQueued ==
    ASSUME NEW s, Inv(s), NEW pid \in Targets, NEW t \in KillProcess(s, pid),
           NEW old, StillQueued(old, s), NoneSleeps(old, s)
    PROVE  StillQueued(old, t) /\ NoneSleeps(old, t)
<1>. DEFINE c == FindProcess(s, pid)
<1>1. s \in Kernel /\ Lists(s)
  BY DEF Inv, Common
<1>2. CASE c = NULL
  BY <1>2 DEF KillProcess
<1>3. CASE c # NULL
  <2>1. c \in Ctx /\ c \in ToSet(s.processList) /\ s.pid[c] = pid
    BY <1>1, <1>3, FindProcessProperty
  <2>2. ~ DetachFails(s, c)
    BY <1>1, <2>1, DetachSucceeds
  <2>3. PICK u \in Kill(s, c) : t \in KillPeer(u, PipedFd(s, c))
    BY <1>3, <2>2 DEF KillProcess
  <2>. HIDE DEF c
  <2>4. Inv(u) /\ StillQueued(old, u) /\ NoneSleeps(old, u)
    BY <2>1, <2>3, KillInv, KillQueued
  <2>. QED
    BY <2>3, <2>4, KillPeerQueued
<1>. QED
  BY <1>2, <1>3

LEMMA KillForegroundProcessQueued ==
    ASSUME NEW s, Inv(s), NEW t \in KillForegroundProcess(s),
           NEW old, StillQueued(old, s), NoneSleeps(old, s)
    PROVE  StillQueued(old, t)
<1>. DEFINE first == FirstIn(s.processList, {c \in Ctx : IsForeground(s, c)})
<1>1. s \in Kernel /\ s.processList \in Seq(Ctx) /\ s.currentProcess \in Ctx \cup {NULL}
  BY DEF Inv, Common, Kernel
<1>2. CASE t = s
  BY <1>2
<1>3. CASE s.currentProcess # NULL /\ IsForeground(s, s.currentProcess)
  <2>1. t \in KillProcess(s, s.pid[s.currentProcess])
    BY <1>3 DEF KillForegroundProcess
  <2>2. s.status[s.currentProcess] \in {"RUNNING", "TERMINATED"}
    BY <1>3 DEF Inv, Cpu
  <2>3. FOREGROUND # BACKGROUND
    BY DEF FOREGROUND, BACKGROUND
  <2>4. s.pid[s.currentProcess] \in Targets
    BY <1>1, <1>3, <2>2, <2>3 DEF IsForeground, Inv, Common, Identity, Roles, Live, Targets
  <2>. QED
    BY <2>1, <2>4, KillProcessQueued
<1>4. CASE first # NULL /\ t \in Kill(s, first)
  <2>1. first \in Ctx /\ first \in ToSet(s.processList)
    BY <1>1, <1>4, FirstInProperty
  <2>. HIDE DEF first
  <2>. QED
    BY <1>4, <2>1, KillQueued
<1>. QED
  BY <1>2, <1>3, <1>4 DEF KillForegroundProcess

LEMMA MoveToBlockedQueued ==
    ASSUME NEW s, Inv(s), NEW c \in Ctx, NEW old, StillQueued(old, s)
    PROVE  StillQueued(old, MoveToBlocked(s, c))
<1>. DEFINE d == Detach(s, c)
<1>1. d \in Kernel /\ StillQueued(old, d)
  BY DetachProperty, DetachQueued DEF Inv, Common
<1>. HIDE DEF d
<1>2. /\ MoveToBlocked(s, c).status = [d.status EXCEPT ![c] = "BLOCKED"]
      /\ MoveToBlocked(s, c).readyProcess = d.readyProcess
  BY <1>1 DEF MoveToBlocked, Kernel, d
<1>3. \A e \in Ctx : MoveToBlocked(s, c).status[e] \in {d.status[e], "BLOCKED"}
  BY <1>1, <1>2 DEF Kernel
<1>. QED
  BY <1>1, <1>2, <1>3 DEF StillQueued

LEMMA BlockProcessInOrder ==
    ASSUME NEW s, Inv(s), NEW pid, pid # IDLE_PID, NEW old, StillQueued(old, s)
    PROVE  InOrder(old, BlockProcess(s, pid).readyProcess)
<1>. DEFINE c == FindProcess(s, pid)
            b == IF s.status[c] \in {"RUNNING", "READY"} THEN MoveToBlocked(s, c) ELSE s
<1>1. s \in Kernel /\ Mid(s)
  BY InvIsMid DEF Inv, Common
<1>2. CASE BlockProcess(s, pid) = s
  BY <1>2 DEF StillQueued
<1>3. CASE BlockProcess(s, pid) # s
  <2>1. c # NULL
    BY <1>3 DEF BlockProcess
  <2>2. c \in Ctx /\ s.pid[c] = pid
    BY <1>1, <2>1, FindProcessProperty
  <2>3. BlockProcess(s, pid) = IF s.currentPid = pid THEN Yield(b) ELSE b
    BY <1>3, <2>1 DEF BlockProcess
  <2>. HIDE DEF c
  <2>4. Mid(b) /\ StillQueued(old, b)
    BY <1>1, <2>2, MoveToBlockedInv, MoveToBlockedQueued
  <2>. HIDE DEF b
  <2>. QED
    BY <2>3, <2>4, YieldInOrder DEF StillQueued
<1>. QED
  BY <1>2, <1>3

LEMMA WaitProcessInOrder ==
    ASSUME NEW s, Inv(s), s.currentPid # IDLE_PID, NEW pid, NEW old, StillQueued(old, s)
    PROVE  InOrder(old, WaitProcess(s, pid).readyProcess)
<1>. DEFINE target == FindProcess(s, pid)
            self   == FindProcess(s, s.currentPid)
            t      == [s EXCEPT !.waitingList[target] = Append(@, self)]
<1>1. s \in Kernel
  BY DEF Inv, Common
<1>2. CASE target = NULL \/ s.currentPid = pid
  BY <1>2 DEF WaitProcess, StillQueued
<1>3. CASE ~ (target = NULL \/ s.currentPid = pid)
  <2>1. target \in Ctx /\ self \in Ctx \cup {NULL}
    BY <1>1, <1>3, FindProcessProperty
  <2>2. WaitProcess(s, pid) = BlockProcess(t, s.currentPid)
    BY <1>3 DEF WaitProcess
  <2>. HIDE DEF target, self
  <2>3. [s.waitingList EXCEPT ![target] = Append(@, self)] \in [Ctx -> Seq(Ctx \cup {NULL})]
    BY <1>1, <2>1 DEF Kernel
  <2>4. t \in Kernel
    BY <1>1, <2>3 DEF Kernel
  <2>5. /\ SameProcesses(s, t)
        /\ t.readyProcess = s.readyProcess /\ t.blockedProcess = s.blockedProcess
        /\ t.status = s.status
    BY <1>1 DEF Kernel, SameProcesses
  <2>. HIDE DEF t
  <2>6. Inv(t)
    BY <2>4, <2>5, OtherFieldsFrame
  <2>7. StillQueued(old, t)
    BY <2>5 DEF StillQueued
  <2>. QED
    BY <2>2, <2>6, <2>7, BlockProcessInOrder
<1>. QED
  BY <1>2, <1>3

LEMMA SetReadyProcessInOrder ==
    ASSUME NEW s, Inv(s), NEW pid, NEW old, StillQueued(old, s), NoneSleeps(old, s)
    PROVE  InOrder(old, SetReadyProcess(s, pid).readyProcess)
<1>. DEFINE c == FindProcess(s, pid)
            w == << c >>
<1>1. s \in Kernel
  BY DEF Inv, Common
<1>2. CASE c # NULL /\ CanWake(s, c)
  <2>1. c \in Ctx
    BY <1>1, <1>2, FindProcessProperty
  <2>2. SetReadyProcess(s, pid) = Wake(s, w)
    BY <1>2 DEF SetReadyProcess
  <2>. HIDE DEF c
  <2>3. w \in Seq(Ctx) /\ \A e \in ToSet(w) : CanWake(s, e)
    BY <1>2, <2>1 DEF ToSet
  <2>. HIDE DEF w
  <2>. QED
    BY <1>1, <2>2, <2>3, WakeQueued DEF StillQueued
<1>3. CASE ~ (c # NULL /\ CanWake(s, c))
  BY <1>3 DEF SetReadyProcess, StillQueued
<1>. QED
  BY <1>2, <1>3

LEMMA StepInOrder ==
    ASSUME Inv(k), [Next]_k
    PROVE  InOrder(k.readyProcess, k'.readyProcess)
<1>. SUFFICES ASSUME NEW old, old = k.readyProcess
              PROVE  InOrder(old, k'.readyProcess)
  OBVIOUS
<1>a. k \in Kernel /\ StillQueued(old, k) /\ NoneSleeps(old, k)
  BY QueuedAtFirst DEF Inv, Common
<1>b. old \in Seq(Ctx) /\ \A c \in Ctx : c \in ToSet(old) => k.status[c] = "READY"
  BY DEF Inv, Common, Lists, Kernel
<1>1. CASE TimerTick
  BY <1>a, <1>1, ScheduleInOrder DEF TimerTick
<1>2. ASSUME NEW program \in Programs, SyscallCreateProcess(program)
      PROVE  InOrder(old, k'.readyProcess)
  <2>1. PICK c \in Ctx, pid \in Pids :
            k.status[c] = "FREED" /\ k' = CreateProcess(k, c, pid, program)
    BY <1>2 DEF SyscallCreateProcess
  <2>2. k'.readyProcess = Append(k.readyProcess, c)
    BY <1>a, <2>1 DEF CreateProcess, InitializeProcess, Kernel
  <2>3. c \notin ToSet(old) /\ InOrder(old, k.readyProcess)
    BY <1>a, <1>b, <2>1 DEF StillQueued
  <2>4. k.readyProcess \in Seq(Ctx)
    BY <1>a DEF Kernel
  <2>. QED
    BY <2>2, <2>3, <2>4, InOrderAppend
<1>3. ASSUME NEW pid \in Targets, SyscallKill(pid) PROVE InOrder(old, k'.readyProcess)
  BY <1>a, <1>3, KillProcessQueued DEF SyscallKill, StillQueued
<1>4. CASE SyscallExit
  <2>1. k.currentPid = k.pid[k.currentProcess]
    BY <1>4 DEF SyscallExit, UserRuns, Inv, Cpu
  <2>2. PICK t \in KillProcess(k, k.pid[k.currentProcess]) : k' = Yield(t)
    BY <1>4 DEF SyscallExit
  <2>3. Inv(t) /\ StillQueued(old, t)
    BY <1>a, <1>4, <2>1, <2>2, KillProcessInv, KillProcessQueued DEF SyscallExit
  <2>. QED
    BY <2>2, <2>3, InvIsMid, YieldInOrder
<1>5. ASSUME NEW pid \in Targets, SyscallBlock(pid) PROVE InOrder(old, k'.readyProcess)
  BY <1>a, <1>5, BlockProcessInOrder DEF SyscallBlock, Targets
<1>6. ASSUME NEW pid \in Pids, SyscallSetReady(pid) PROVE InOrder(old, k'.readyProcess)
  BY <1>a, <1>6, SetReadyProcessInOrder DEF SyscallSetReady
<1>7. CASE SyscallYield
  BY <1>a, <1>7, InvIsMid, YieldInOrder DEF SyscallYield
<1>8. ASSUME NEW pid \in Pids, SyscallWait(pid) PROVE InOrder(old, k'.readyProcess)
  <2>1. k.currentPid # IDLE_PID
    BY <1>8 DEF SyscallWait, UserRuns, Inv, Cpu
  <2>. QED
    BY <1>a, <1>8, <2>1, WaitProcessInOrder DEF SyscallWait
<1>9. ASSUME NEW pid \in Targets, NEW priority \in Priorities, SyscallNice(pid, priority)
      PROVE  InOrder(old, k'.readyProcess)
  <2>1. k'.readyProcess = k.readyProcess
    BY <1>a, <1>9 DEF SyscallNice, ChangePriority, Kernel
  <2>. QED
    BY <1>a, <2>1 DEF StillQueued
<1>10. CASE CtrlC
  BY <1>a, <1>10, KillForegroundProcessQueued DEF CtrlC, StillQueued
<1>11. CASE UNCHANGED k
  BY <1>a, <1>11 DEF StillQueued
<1>. QED
  BY <1>1, <1>2, <1>3, <1>4, <1>5, <1>6, <1>7, <1>8, <1>9, <1>10, <1>11 DEF Next

\* In a list without duplicates an element has one position.
LEMMA PositionIsUnique ==
    ASSUME NEW list \in Seq(Ctx), IsInjective(list), NEW i \in DOMAIN list
    PROVE  Position(list, list[i]) = i
BY DEF Position, IsInjective

\* The ready list is first come, first served: whoever is in it before and after
\* a step of the kernel has nobody in front who was not there before.
THEOREM FirstComeFirstServedCorrect == Spec => FirstComeFirstServed
<1>. DEFINE Fair == \A c \in ToSet(k.readyProcess) \cap ToSet(k'.readyProcess) :
                        \A d \in ToSet(k'.readyProcess) :
                            Position(k'.readyProcess, d) < Position(k'.readyProcess, c) =>
                                /\ d \in ToSet(k.readyProcess)
                                /\ Position(k.readyProcess, d) < Position(k.readyProcess, c)
<1>1. ASSUME Inv(k), Inv(k'), [Next]_k
      PROVE  Fair
  <2>1. InOrder(k.readyProcess, k'.readyProcess)
    BY <1>1, StepInOrder
  <2>2. /\ k.readyProcess \in Seq(Ctx) /\ IsInjective(k.readyProcess)
        /\ k'.readyProcess \in Seq(Ctx) /\ IsInjective(k'.readyProcess)
    BY <1>1 DEF Inv, Common, Lists, Kernel
  <2>. SUFFICES ASSUME NEW c \in ToSet(k.readyProcess) \cap ToSet(k'.readyProcess),
                       NEW d \in ToSet(k'.readyProcess),
                       Position(k'.readyProcess, d) < Position(k'.readyProcess, c)
                PROVE  /\ d \in ToSet(k.readyProcess)
                       /\ Position(k.readyProcess, d) < Position(k.readyProcess, c)
    OBVIOUS
  <2>3. PICK j \in DOMAIN k'.readyProcess : k'.readyProcess[j] = c
    BY DEF ToSet
  <2>4. PICK i \in DOMAIN k'.readyProcess : k'.readyProcess[i] = d
    BY DEF ToSet
  <2>5. i < j
    BY <2>2, <2>3, <2>4, PositionIsUnique
  <2>6. Before(k.readyProcess, d, c)
    BY <2>1, <2>3, <2>4, <2>5 DEF InOrder, Before
  <2>7. PICK a \in DOMAIN k.readyProcess, b \in DOMAIN k.readyProcess :
            a < b /\ k.readyProcess[a] = d /\ k.readyProcess[b] = c
    BY <2>6 DEF Before
  <2>8. d \in ToSet(k.readyProcess)
    BY <2>7 DEF ToSet
  <2>9. Position(k.readyProcess, d) = a /\ Position(k.readyProcess, c) = b
    BY <2>2, <2>7, PositionIsUnique
  <2>. QED BY <2>7, <2>8, <2>9
<1>2. IInv /\ IInv' /\ [Next]_k => [Fair]_k
  BY <1>1 DEF IInv
<1>. QED
  BY <1>2, Invariance, PTL DEF Spec, FirstComeFirstServed

-----------------------------------------------------------------------------
(***************************************************************************)
(* The scheduler's invariants under the semaphores' specification.         *)
(***************************************************************************)

\* Removing the dead from a queue leaves pids of it, and nothing of an empty one.
LEMMA PurgeProperty ==
    ASSUME NEW s, NEW queue \in Seq(Pids)
    PROVE  /\ Purge(s, queue) \in Seq(Pids)
           /\ queue = << >> => Purge(s, queue) = << >>
<1>. DEFINE kept == {i \in DOMAIN queue :
                        LET c == FindProcess(s, queue[i])
                        IN  c # NULL /\ s.status[c] # "TERMINATED"}
<1>1. Len(queue) \in Nat /\ \A i \in kept : i \in 1 .. Len(queue)
  OBVIOUS
<1>2. Purge(s, queue) = [j \in 1 .. Cardinality(kept) |-> queue[Nth(kept, j)]]
  BY DEF Purge
<1>3. queue = << >> => kept = {}
  OBVIOUS
<1>. HIDE DEF kept
<1>4. Cardinality(kept) \in Nat
  <2>1. kept \in SUBSET (1 .. Len(queue)) /\ IsFiniteSet(1 .. Len(queue))
    BY <1>1, FS_Interval
  <2>. QED BY <2>1, FS_Subset, FS_CardinalityType
<1>5. \A j \in 1 .. Cardinality(kept) : queue[Nth(kept, j)] \in Pids
  <2>1. \A j \in 1 .. Cardinality(kept) : Nth(kept, j) \in 1 .. Len(queue)
    BY <1>1, NthExists DEF Nth
  <2>. QED BY <2>1
<1>6. queue = << >> => Cardinality(kept) = 0
  BY <1>3, FS_EmptySet
<1>. QED
  BY <1>2, <1>4, <1>5, <1>6

\* A step of the semaphores' specification leaves the scheduler in order.
LEMMA SemNextInv ==
    ASSUME Inv(k), [SemNext]_vars
    PROVE  Inv(k')
<1>. USE DEF Becomes, Now
<1>1. ASSUME NEW id \in SemIds, NEW value \in InitialValues, SyscallSemInit(id, value)
      PROVE  Inv(k')
  BY <1>1 DEF SyscallSemInit, SemCreate
<1>2. ASSUME NEW id \in SemIds, SyscallSemWait(id) PROVE Inv(k')
  <2>1. k.currentPid # IDLE_PID
    BY <1>2 DEF SyscallSemWait, UserRuns, Inv, Cpu
  <2>2. k' = k \/ k' = BlockProcess(k, k.currentPid)
    BY <1>2 DEF SyscallSemWait, SemWait
  <2>. QED
    BY <2>1, <2>2, BlockProcessInv
<1>3. ASSUME NEW id \in SemIds, Becomes(SemPost(Now, id)) PROVE Inv(k')
  <2>1. k' = k \/ \E pid : k' = SetReadyProcess(k, pid)
    BY <1>3 DEF SemPost
  <2>. QED
    BY <2>1, SetReadyProcessInv
<1>4. ASSUME NEW id \in SemIds, SyscallSemClose(id) PROVE Inv(k')
  BY <1>4 DEF SyscallSemClose, SemDestroy
<1>5. CASE Next
  BY <1>5, NextInv
<1>6. CASE UNCHANGED vars
  BY <1>6 DEF vars
<1>7. CASE OrderlyNext
  BY <1>1, <1>2, <1>3, <1>5, <1>7 DEF OrderlyNext, SyscallSemPost, InterruptSemPost, Next
<1>8. CASE DisorderlyNext
  BY <1>4, <1>5, <1>8 DEF DisorderlyNext, Next
<1>. QED
  BY <1>6, <1>7, <1>8 DEF SemNext

\* Whatever processes do with semaphores, the scheduler's invariant holds.
THEOREM SemInvariance == SemSpec => []IInv
<1>1. SemInit => IInv
  BY InitInv DEF SemInit, IInv
<1>2. IInv /\ [SemNext]_vars => IInv'
  BY SemNextInv DEF IInv
<1>. QED
  BY <1>1, <1>2, PTL DEF SemSpec

\* sem_wait, sem_post and sem_destroy, and the kills and wake-ups between them,
\* never lose a process, queue it twice, or leave two processes running.
THEOREM SemSchedulerCorrect == SemSpec => [](ListsMatchStatus /\ CurrentOwnsCpu)
<1>1. IInv => ListsMatchStatus /\ CurrentOwnsCpu
  BY DEF IInv, Inv, Common, ListsMatchStatus, CurrentOwnsCpu
<1>. QED
  BY <1>1, SemInvariance, PTL

-----------------------------------------------------------------------------
(***************************************************************************)
(* The semaphores themselves.                                              *)
(***************************************************************************)

SemInv == IInv /\ SemTypeOK /\ NoTokenWithheld

\* The process that makes a system call has a pid.
LEMMA CallerHasPid ==
    ASSUME Inv(k), UserRuns
    PROVE  k.currentPid \in Pids
BY DEF Inv, Common, Cpu, Identity, Kernel, UserRuns

\* What each operation has to show: it leaves one semaphore in order.
LEMMA OneSemaphore ==
    ASSUME SemTypeOK, NoTokenWithheld, NEW id \in SemIds, NEW sem \in Semaphore,
           sem.counter > 0 => sem.waitQueue = << >>,
           sems' = [sems EXCEPT ![id] = sem]
    PROVE  SemTypeOK' /\ NoTokenWithheld'
BY DEF SemTypeOK, NoTokenWithheld

LEMMA SemCreateInv ==
    ASSUME SemTypeOK, NoTokenWithheld, NEW id \in SemIds, NEW value \in Nat,
           sems' = SemCreate(Now, id, value).sems
    PROVE  SemTypeOK' /\ NoTokenWithheld'
<1>. DEFINE sem == [active |-> TRUE, counter |-> value, waitQueue |-> << >>]
<1>1. sem \in Semaphore /\ sem.waitQueue = << >>
  BY DEF Semaphore
<1>2. sems' = sems \/ sems' = [sems EXCEPT ![id] = sem]
  BY DEF SemCreate, Now
<1>. HIDE DEF sem
<1>. QED
  BY <1>1, <1>2, OneSemaphore DEF SemTypeOK, NoTokenWithheld

LEMMA SemDestroyInv ==
    ASSUME SemTypeOK, NoTokenWithheld, NEW id \in SemIds,
           sems' = SemDestroy(Now, id).sems
    PROVE  SemTypeOK' /\ NoTokenWithheld'
<1>1. Inactive \in Semaphore /\ Inactive.waitQueue = << >>
  BY DEF Semaphore, Inactive
<1>2. sems' = sems \/ sems' = [sems EXCEPT ![id] = Inactive]
  BY DEF SemDestroy, Now
<1>. QED
  BY <1>1, <1>2, OneSemaphore DEF SemTypeOK, NoTokenWithheld

LEMMA SemWaitInv ==
    ASSUME SemTypeOK, NoTokenWithheld, NEW id \in SemIds, k.currentPid \in Pids,
           sems' = SemWait(Now, id).sems
    PROVE  SemTypeOK' /\ NoTokenWithheld'
<1>0. sems[id] \in Semaphore /\ sems \in [SemIds -> Semaphore]
  BY DEF SemTypeOK
<1>1. CASE sems[id].counter > 0
  <2>. DEFINE sem == [sems[id] EXCEPT !.counter = @ - 1]
  <2>1. sems' = [sems EXCEPT ![id] = sem]
    BY <1>1 DEF SemWait, Now
  <2>2. sem \in Semaphore /\ sem.waitQueue = << >>
    BY <1>0, <1>1 DEF Semaphore, NoTokenWithheld
  <2>. HIDE DEF sem
  <2>. QED BY <2>1, <2>2, OneSemaphore
<1>2. CASE ~ (sems[id].counter > 0)
  <2>. DEFINE sem == Enqueue(sems[id], k.currentPid)
  <2>1. sems' = [sems EXCEPT ![id] = sem]
    BY <1>2 DEF SemWait, Now
  <2>2. Append(sems[id].waitQueue, k.currentPid) \in Seq(Pids)
    BY <1>0 DEF Semaphore
  <2>3. sem \in Semaphore /\ sem.counter = sems[id].counter
    BY <1>0, <2>2 DEF Semaphore, Enqueue
  <2>. HIDE DEF sem
  <2>. QED BY <1>2, <2>1, <2>3, OneSemaphore
<1>. QED
  BY <1>1, <1>2

LEMMA SemPostInv ==
    ASSUME SemTypeOK, NoTokenWithheld, NEW id \in SemIds,
           sems' = SemPost(Now, id).sems
    PROVE  SemTypeOK' /\ NoTokenWithheld'
<1>. DEFINE queue == Purge(k, sems[id].waitQueue)
<1>0. sems[id] \in Semaphore /\ sems \in [SemIds -> Semaphore]
  BY DEF SemTypeOK
<1>1. queue \in Seq(Pids) /\ (sems[id].waitQueue = << >> => queue = << >>)
  <2>1. sems[id].waitQueue \in Seq(Pids)
    BY <1>0 DEF Semaphore
  <2>. QED BY <2>1, PurgeProperty
<1>2. CASE queue # << >>
  <2>. DEFINE sem == [sems[id] EXCEPT !.waitQueue = Tail(queue)]
  <2>1. sems' = [sems EXCEPT ![id] = sem]
    BY <1>2 DEF SemPost, Now
  <2>. HIDE DEF queue
  <2>2. Tail(queue) \in Seq(Pids)
    BY <1>1, <1>2
  <2>3. sem \in Semaphore /\ sem.counter = sems[id].counter
    BY <1>0, <2>2 DEF Semaphore
  <2>4. ~ (sems[id].counter > 0)
    BY <1>1, <1>2 DEF NoTokenWithheld
  <2>. HIDE DEF sem
  <2>. QED BY <2>1, <2>3, <2>4, OneSemaphore
<1>3. CASE queue = << >>
  <2>. DEFINE sem == [sems[id] EXCEPT !.waitQueue = queue, !.counter = @ + 1]
  <2>1. sems' = [sems EXCEPT ![id] = sem]
    BY <1>3 DEF SemPost, Now
  <2>. HIDE DEF queue
  <2>2. sem \in Semaphore /\ sem.waitQueue = << >>
    <3>1. sems[id].counter + 1 \in Nat /\ sems[id].active \in BOOLEAN
      BY <1>0 DEF Semaphore
    <3>2. [sems[id] EXCEPT !.waitQueue = queue] \in Semaphore
      BY <1>0, <1>1 DEF Semaphore
    <3>. QED BY <1>0, <1>1, <1>3, <3>1, <3>2 DEF Semaphore
  <2>. HIDE DEF sem
  <2>. QED BY <2>1, <2>2, OneSemaphore
<1>. QED
  BY <1>2, <1>3

LEMMA SemStepInv == SemInv /\ [SemNext]_vars => SemInv'
<1>. SUFFICES ASSUME SemInv, [SemNext]_vars PROVE SemInv'
  OBVIOUS
<1>0. IInv' /\ Inv(k) /\ SemTypeOK /\ NoTokenWithheld
  BY SemNextInv DEF SemInv, IInv
<1>1. ASSUME NEW id \in SemIds, NEW value \in InitialValues, SyscallSemInit(id, value)
      PROVE  SemInv'
  BY <1>0, <1>1, SemCreateInv, SemaphoresAssumption DEF SyscallSemInit, Becomes, SemInv
<1>2. ASSUME NEW id \in SemIds, SyscallSemWait(id) PROVE SemInv'
  BY <1>0, <1>2, CallerHasPid, SemWaitInv DEF SyscallSemWait, Becomes, SemInv
<1>3. ASSUME NEW id \in SemIds, Becomes(SemPost(Now, id)) PROVE SemInv'
  BY <1>0, <1>3, SemPostInv DEF Becomes, SemInv
<1>4. ASSUME NEW id \in SemIds, SyscallSemClose(id) PROVE SemInv'
  BY <1>0, <1>4, SemDestroyInv DEF SyscallSemClose, Becomes, SemInv
<1>5. CASE UNCHANGED sems
  BY <1>0, <1>5 DEF SemInv, SemTypeOK, NoTokenWithheld
<1>6. CASE OrderlyNext
  BY <1>1, <1>2, <1>3, <1>5, <1>6 DEF OrderlyNext, SyscallSemPost, InterruptSemPost
<1>7. CASE DisorderlyNext
  BY <1>4, <1>5, <1>7 DEF DisorderlyNext
<1>. QED
  BY <1>5, <1>6, <1>7 DEF SemNext, vars

LEMMA SemInvariantHolds == SemSpec => []SemInv
<1>1. SemInit => SemInv
  <2>1. SemInit => IInv
    BY InitInv DEF SemInit, IInv
  <2>2. SemInit => SemTypeOK /\ NoTokenWithheld
    BY DEF SemInit, SemTypeOK, NoTokenWithheld, Inactive, Semaphore
  <2>. QED BY <2>1, <2>2 DEF SemInv
<1>. QED
  BY <1>1, SemStepInv, PTL DEF SemSpec

\* No counter goes below zero and only pids are queued, for any number of
\* processes and semaphores and whatever is killed or destroyed.
THEOREM SemTypeCorrect == SemSpec => []SemTypeOK
<1>1. SemInv => SemTypeOK
  BY DEF SemInv
<1>. QED
  BY <1>1, SemInvariantHolds, PTL

\* sem_post never keeps a token back while a process is queued.
THEOREM TokensCorrect == SemSpec => []NoTokenWithheld
<1>1. SemInv => NoTokenWithheld
  BY DEF SemInv
<1>. QED
  BY <1>1, SemInvariantHolds, PTL

-----------------------------------------------------------------------------
(***************************************************************************)
(* Processes that nobody kills.  Steady says that t has the processes of s *)
(* with their pids, and that the same ones are blocked: what schedule()    *)
(* does, whoever it gives the processor to.                                *)
(***************************************************************************)
Undead(s) == \A c \in Ctx : s.status[c] # "TERMINATED"

Steady(s, t) ==
    \A c \in Ctx :
        /\ t.pid[c] = s.pid[c]
        /\ t.status[c] = "FREED" <=> s.status[c] = "FREED"
        /\ t.status[c] = "BLOCKED" <=> s.status[c] = "BLOCKED"
        /\ t.status[c] # "TERMINATED"

LEMMA SteadyComposes ==
    ASSUME NEW s, NEW t, NEW u, Steady(s, t), Steady(t, u)
    PROVE  Steady(s, u)
BY DEF Steady

LEMMA DispatchFirstSteady ==
    ASSUME NEW s, Parked(s)
    PROVE  Steady(s, DispatchFirst(s))
<1>. DEFINE c == Head(s.readyProcess)
            t == DispatchFirst(s)
<1>1. s \in Kernel /\ s.readyProcess \in Seq(Ctx) /\ s.readyProcess # << >>
  BY SomebodyReady DEF Parked, Common, Kernel
<1>2. c \in Ctx /\ s.status[c] = "READY"
  BY <1>1, TailProperty, ToSetProperty DEF Parked, Common, Lists
<1>. HIDE DEF c
<1>3. t = [s EXCEPT !.readyProcess   = Tail(@),
                    !.currentProcess = c,
                    !.currentPid     = s.pid[c],
                    !.quantums       = s.priority[c],
                    !.status[c]      = "RUNNING"]
  BY <1>1, <1>2 DEF DispatchFirst, Dispatch, Kernel, c
<1>4. t.status = [s.status EXCEPT ![c] = "RUNNING"] /\ t.pid = s.pid
  BY <1>1, <1>3 DEF Kernel
<1>. HIDE DEF t
<1>5. \A d \in Ctx : t.status[d] = IF d = c THEN "RUNNING" ELSE s.status[d]
  BY <1>1, <1>2, <1>4 DEF Kernel
<1>6. Steady(s, t)
  BY <1>2, <1>4, <1>5 DEF Steady, Parked
<1>. QED
  BY <1>6 DEF t

LEMMA RetireSteady ==
    ASSUME NEW s, Mid(s), Undead(s)
    PROVE  Steady(s, Retire(s))
<1>. DEFINE c == s.currentProcess
            t == Retire(s)
<1>1. s \in Kernel /\ c \in Ctx \cup {NULL}
  BY DEF Mid, Common, Kernel
<1>2. CASE c \in Ctx /\ s.status[c] = "RUNNING"
  <2>1. t = [s EXCEPT !.status[c] = "READY", !.readyProcess = Append(@, c)]
    BY <1>2, SchedulerAssumption DEF Retire
  <2>2. t.status = [s.status EXCEPT ![c] = "READY"] /\ t.pid = s.pid
    BY <1>1, <2>1 DEF Kernel
  <2>. HIDE DEF t
  <2>3. \A d \in Ctx : t.status[d] = IF d = c THEN "READY" ELSE s.status[d]
    BY <1>1, <2>2 DEF Kernel
  <2>4. Steady(s, t)
    BY <1>2, <2>2, <2>3 DEF Steady, Undead
  <2>. QED BY <2>4 DEF t
<1>3. CASE ~ (c \in Ctx /\ s.status[c] = "RUNNING")
  <2>1. t = s
    BY <1>1, <1>3 DEF Retire, Undead
  <2>. QED BY <2>1 DEF Steady, Undead
<1>. QED
  BY <1>2, <1>3

LEMMA SwitchSteady ==
    ASSUME NEW s, Mid(s), Undead(s)
    PROVE  Steady(s, Switch(s))
<1>1. CASE s.currentPid = NO_PROCESS
  <2>1. s.currentProcess = NULL
    BY <1>1 DEF Mid, Common, CpuMid, Identity, Kernel, Pids, NO_PROCESS
  <2>2. Parked(s)
    BY <2>1, SchedulerAssumption DEF Mid, CpuMid, Parked
  <2>. QED BY <1>1, <2>2, SomebodyReady, DispatchFirstSteady DEF Switch
<1>2. CASE s.currentPid # NO_PROCESS
  <2>1. Parked(Retire(s)) /\ Steady(s, Retire(s))
    BY RetireParked, RetireSteady
  <2>2. Steady(Retire(s), DispatchFirst(Retire(s)))
    BY <2>1, DispatchFirstSteady
  <2>3. Switch(s) = DispatchFirst(Retire(s))
    BY <1>2, <2>1, SomebodyReady DEF Switch
  <2>. QED BY <2>1, <2>2, <2>3, SteadyComposes
<1>. QED
  BY <1>1, <1>2

LEMMA QuantumSteady ==
    ASSUME NEW s \in Kernel, NEW q \in Int, Undead(s)
    PROVE  /\ Undead([s EXCEPT !.quantums = q])
           /\ \A t : Steady([s EXCEPT !.quantums = q], t) => Steady(s, t)
<1>1. /\ [s EXCEPT !.quantums = q].status = s.status
      /\ [s EXCEPT !.quantums = q].pid = s.pid
  BY DEF Kernel
<1>. QED
  BY <1>1 DEF Steady, Undead

\* A timer tick leaves the processes and who is blocked as they are.
LEMMA ScheduleSteady ==
    ASSUME NEW s, Inv(s), Undead(s)
    PROVE  Steady(s, Schedule(s))
<1>. DEFINE t == [s EXCEPT !.quantums = s.quantums - 1]
<1>1. s \in Kernel /\ s.quantums - 1 \in Int
  BY DEF Inv, Common, Kernel
<1>2. [s EXCEPT !.quantums = @ - 1] = t
  BY <1>1 DEF Kernel
<1>3. Mid(t) /\ Undead(t)
  BY <1>1, InvIsMid, QuantumFrame, QuantumSteady
<1>4. Schedule(s) = t \/ Schedule(s) = Switch(t)
  BY <1>2 DEF Schedule
<1>5. Steady(t, Schedule(s))
  <2>1. Steady(t, t)
    BY <1>3 DEF Steady, Undead
  <2>2. Steady(t, Switch(t))
    BY <1>3, SwitchSteady
  <2>. HIDE DEF t
  <2>. QED BY <1>4, <2>1, <2>2
<1>. QED
  BY <1>1, <1>5, QuantumSteady

LEMMA YieldSteady ==
    ASSUME NEW s, Mid(s), Undead(s)
    PROVE  Steady(s, Yield(s))
<1>. DEFINE u == [s EXCEPT !.quantums = 0]
            t == [s EXCEPT !.quantums = -1]
<1>1. s \in Kernel
  BY DEF Mid, Common
<1>2. [u EXCEPT !.quantums = @ - 1] = t
  <2>1. u.quantums = 0 /\ [u EXCEPT !.quantums = @ - 1] = [u EXCEPT !.quantums = -1]
    BY <1>1 DEF Kernel
  <2>. QED BY <1>1, <2>1 DEF Kernel
<1>3. Mid(t) /\ Undead(t)
  BY <1>1, QuantumFrame, QuantumSteady
<1>4. Yield(s) = t \/ Yield(s) = Switch(t)
  BY <1>2 DEF Yield, Schedule
<1>5. Steady(t, Yield(s))
  <2>1. Steady(t, t)
    BY <1>3 DEF Steady, Undead
  <2>2. Steady(t, Switch(t))
    BY <1>3, SwitchSteady
  <2>. HIDE DEF t
  <2>. QED BY <1>4, <2>1, <2>2
<1>. QED
  BY <1>1, <1>5, QuantumSteady

\* findProcess finds the process that has the pid, and only that one.
LEMMA FindsIt ==
    ASSUME NEW s, Inv(s), NEW c \in Ctx, s.status[c] \in Live
    PROVE  FindProcess(s, s.pid[c]) = c
<1>1. s \in Kernel /\ Lists(s) /\ Identity(s) /\ s.processList \in Seq(Ctx)
  BY DEF Inv, Common, Kernel
<1>2. ToSet(s.processList) \subseteq Ctx
  BY <1>1, ToSetProperty
<1>. QED
  BY <1>1, <1>2, FindsTheLive DEF Lists

\* blockProcess on the caller: it is blocked when another process goes on.
LEMMA CallerBlocks ==
    ASSUME NEW s, Inv(s), Undead(s), NEW c \in Ctx, c = s.currentProcess,
           s.pid[c] # IDLE_PID, NEW t, t = BlockProcess(s, s.currentPid)
    PROVE  /\ Inv(t) /\ Undead(t) /\ t.currentProcess # c /\ t.status[c] = "BLOCKED"
           /\ \A d \in Ctx :
                /\ t.pid[d] = s.pid[d]
                /\ t.status[d] = "FREED" <=> s.status[d] = "FREED"
                /\ d # c => (t.status[d] = "BLOCKED" <=> s.status[d] = "BLOCKED")
<1>. DEFINE b == MoveToBlocked(s, c)
<1>1. s \in Kernel /\ Lists(s) /\ c # NULL /\ s.status[c] = "RUNNING" /\ s.currentPid = s.pid[c]
  BY SchedulerAssumption DEF Inv, Common, Cpu, Undead
<1>2. FindProcess(s, s.currentPid) = c
  BY <1>1, FindsIt DEF Live
<1>3. t = Yield(b)
  BY <1>1, <1>2 DEF BlockProcess
<1>4. Mid(b)
  BY <1>1, MoveToBlockedInv
<1>5. b.pid = s.pid /\ b.status = [s.status EXCEPT ![c] = "BLOCKED"]
  <2>. DEFINE d == Detach(s, c)
  <2>1. d \in Kernel /\ SameProcesses(s, d) /\ d.status = s.status
    BY <1>1, DetachProperty
  <2>2. b = [d EXCEPT !.blockedProcess[c] = @ + 1, !.status[c] = "BLOCKED"]
    BY DEF MoveToBlocked
  <2>. HIDE DEF d, b
  <2>. QED BY <2>1, <2>2 DEF Kernel, SameProcesses
<1>. HIDE DEF b
<1>6. \A d \in Ctx : b.status[d] = IF d = c THEN "BLOCKED" ELSE s.status[d]
  BY <1>1, <1>5 DEF Kernel
<1>7. Undead(b)
  BY <1>6 DEF Undead
<1>8. Inv(t) /\ Steady(b, t)
  BY <1>3, <1>4, <1>7, YieldInv, YieldSteady
<1>9. Undead(t) /\ t.status[c] = "BLOCKED"
  BY <1>6, <1>8 DEF Steady, Undead
<1>10. t.currentProcess # c
  BY <1>1, <1>8, <1>9 DEF Inv, Cpu
<1>. QED
  BY <1>1, <1>5, <1>6, <1>8, <1>9, <1>10 DEF Steady

\* setReadyProcess on a process that is blocked.
LEMMA WaiterWakes ==
    ASSUME NEW s, Inv(s), NEW c \in Ctx, s.status[c] = "BLOCKED",
           NEW t, t = SetReadyProcess(s, s.pid[c])
    PROVE  /\ Inv(t) /\ SameProcesses(s, t)
           /\ \A d \in Ctx : t.status[d] = IF d = c THEN "READY" ELSE s.status[d]
<1>. DEFINE w == << c >>
<1>1. s \in Kernel /\ ListsBut(s, NULL) /\ c # NULL
  BY SchedulerAssumption DEF Inv, Common, Lists, ListsBut
<1>2. FindProcess(s, s.pid[c]) = c
  BY FindsIt DEF Live
<1>3. CanWake(s, c)
  BY <1>1 DEF CanWake, Inv, Common, Lists
<1>4. t = Wake(s, w)
  BY <1>1, <1>2, <1>3 DEF SetReadyProcess
<1>5. w \in Seq(Ctx) /\ IsInjective(w) /\ \A d : d \in ToSet(w) <=> d = c
  BY DEF IsInjective, ToSet
<1>6. \A d \in ToSet(w) : CanWake(s, d)
  BY <1>3, <1>5
<1>. HIDE DEF w
<1>7. /\ SameProcesses(s, t)
      /\ \A d \in Ctx :
            /\ d \in ToSet(w) => t.status[d] = "READY"
            /\ d \notin ToSet(w) => t.status[d] = s.status[d]
  BY <1>1, <1>4, <1>5, <1>6, WakeProperty
<1>8. Inv(t)
  BY SetReadyProcessInv
<1>. QED
  BY <1>5, <1>7, <1>8

\* createProcess adds one process that is ready.
LEMMA ProcessCreated ==
    ASSUME NEW s, Inv(s), NEW c \in Ctx, s.status[c] = "FREED",
           NEW pid \in Pids, IsMinFreePid(s, pid), NEW program \in AnyProgram,
           NEW t, t = CreateProcess(s, c, pid, program)
    PROVE  /\ Inv(t) /\ t.currentProcess = s.currentProcess /\ t.currentPid = s.currentPid
           /\ t.status[c] = "READY" /\ t.pid[c] = pid
           /\ t.fdIn[c] = program.fds[1] /\ t.fdOut[c] = program.fds[2] /\ pid # IDLE_PID
           /\ \A d \in Ctx : d # c =>
                /\ t.status[d] = s.status[d] /\ t.pid[d] = s.pid[d]
                /\ t.fdIn[d] = s.fdIn[d] /\ t.fdOut[d] = s.fdOut[d]
<1>1. s \in Kernel /\ Lists(s) /\ s.processQty = Len(s.processList)
  BY DEF Inv, Common, Identity
<1>2. PICK priority \in Priorities, ground \in Grounds, pair \in FdPairs :
        program = [priority |-> priority, ground |-> ground, fds |-> pair]
  BY DEF AnyProgram
<1>3. PICK in \in Fds, out \in Fds : pair = << in, out >>
  BY DEF FdPairs, Fds
<1>4. /\ t.currentProcess = s.currentProcess /\ t.currentPid = s.currentPid
      /\ t.status[c] = "READY" /\ t.pid[c] = pid /\ t.fdIn[c] = in /\ t.fdOut[c] = out
      /\ \A d \in Ctx : d # c =>
            /\ t.status[d] = s.status[d] /\ t.pid[d] = s.pid[d]
            /\ t.fdIn[d] = s.fdIn[d] /\ t.fdOut[d] = s.fdOut[d]
  BY <1>1, <1>2, <1>3, CreateProcessFrame
<1>5. Inv(t)
  BY CreateProcessInv
<1>6. pid # IDLE_PID
  <2>1. \A d \in ToSet(s.processList) : s.pid[d] # pid
    BY <1>1, FindProcessProperty DEF IsMinFreePid
  <2>2. \E d \in ToSet(s.processList) : s.pid[d] = IDLE_PID
    BY <1>1 DEF Inv, Common, Survivors, Lists, Live
  <2>. QED BY <2>1, <2>2
<1>7. program.fds[1] = in /\ program.fds[2] = out
  BY <1>2, <1>3
<1>. QED
  BY <1>4, <1>5, <1>6, <1>7

-----------------------------------------------------------------------------
(***************************************************************************)
(* Semaphores in order: home[c] is the semaphore c is at, when a sem_wait  *)
(* put it there and it has not run since, and no semaphore otherwise.      *)
(* Whoever is queued is blocked there.  Supply counts what a semaphore has *)
(* to give: its counter, and the tokens that sem_post handed to processes  *)
(* which have not run since.                                               *)
(***************************************************************************)
Sys(s, m) == [k |-> s, sems |-> m]

QueuesInOrder(s, m, home) ==
    \A id \in SemIds :
        /\ m[id].counter > 0 => m[id].waitQueue = << >>
        /\ IsInjective(m[id].waitQueue)
        /\ \A pid \in ToSet(m[id].waitQueue) :
            \E c \in Ctx : s.pid[c] = pid /\ s.status[c] = "BLOCKED" /\ home[c] = id

Orderly(s, m, home) ==
    /\ Inv(s) /\ Undead(s)
    /\ m \in [SemIds -> Semaphore]
    /\ home \in [Ctx -> Int]
    /\ QueuesInOrder(s, m, home)

Awakened(s, home, id) == {c \in Ctx : home[c] = id /\ s.status[c] \in {"READY", "RUNNING"}}

Supply(s, m, home, id) == m[id].counter + Cardinality(Awakened(s, home, id))

\* c is at x now, and everybody else where he was.
Goes(home, c, x, home2) ==
    /\ home2 \in [Ctx -> Int]
    /\ \A d \in Ctx : home2[d] = IF d = c THEN x ELSE home[d]

\* A queue in which every pid is that of a live process is not purged.
LEMMA PurgeKeeps ==
    ASSUME NEW s, NEW queue \in Seq(Pids),
           \A pid \in ToSet(queue) :
                FindProcess(s, pid) # NULL /\ s.status[FindProcess(s, pid)] # "TERMINATED"
    PROVE  Purge(s, queue) = queue
<1>. DEFINE n == Len(queue)
            kept == {i \in DOMAIN queue :
                        LET c == FindProcess(s, queue[i])
                        IN  c # NULL /\ s.status[c] # "TERMINATED"}
<1>1. n \in Nat /\ DOMAIN queue = 1 .. n /\ \A i \in 1 .. n : queue[i] \in ToSet(queue)
  BY ToSetProperty
<1>2. kept = 1 .. n
  BY <1>1
<1>3. Purge(s, queue) = [j \in 1 .. Cardinality(kept) |-> queue[Nth(kept, j)]]
  BY DEF Purge
<1>. HIDE DEF kept, n
<1>4. Cardinality(1 .. n) = n
  BY <1>1, FS_Interval
<1>5. ASSUME NEW j \in 1 .. n PROVE Nth(1 .. n, j) = j
  <2>1. ASSUME NEW i \in 1 .. n PROVE Cardinality({h \in 1 .. n : h <= i}) = i
    <3>1. {h \in 1 .. n : h <= i} = 1 .. i
      BY <1>1
    <3>2. Cardinality(1 .. i) = i
      BY <1>1, FS_Interval
    <3>. QED BY <3>1, <3>2
  <2>2. j \in 1 .. n /\ Cardinality({h \in 1 .. n : h <= j}) = j
    BY <2>1
  <2>. QED BY <2>1, <2>2 DEF Nth
<1>6. Purge(s, queue) = [j \in 1 .. n |-> queue[j]]
  BY <1>2, <1>3, <1>4, <1>5
<1>. QED
  BY <1>1, <1>6

\* Behind each queued pid findProcess finds the blocked process.
LEMMA QueuedAreFound ==
    ASSUME NEW s, NEW m, NEW home, Orderly(s, m, home), NEW id \in SemIds,
           NEW pid \in ToSet(m[id].waitQueue)
    PROVE  \E c \in Ctx : /\ s.pid[c] = pid /\ s.status[c] = "BLOCKED" /\ home[c] = id
                          /\ FindProcess(s, pid) = c
<1>1. PICK c \in Ctx : s.pid[c] = pid /\ s.status[c] = "BLOCKED" /\ home[c] = id
  BY DEF Orderly, QueuesInOrder
<1>2. FindProcess(s, pid) = c
  BY <1>1, FindsIt DEF Orderly, Live
<1>. QED
  BY <1>1, <1>2

LEMMA NothingToPurge ==
    ASSUME NEW s, NEW m, NEW home, Orderly(s, m, home), NEW id \in SemIds
    PROVE  Purge(s, m[id].waitQueue) = m[id].waitQueue
<1>1. m[id].waitQueue \in Seq(Pids)
  BY DEF Orderly, Semaphore
<1>2. \A pid \in ToSet(m[id].waitQueue) :
        FindProcess(s, pid) # NULL /\ s.status[FindProcess(s, pid)] # "TERMINATED"
  BY QueuedAreFound, SchedulerAssumption
<1>. QED
  BY <1>1, <1>2, PurgeKeeps

\* Each queued pid is that of another blocked process, so while somebody can
\* still call sem_wait a queue has fewer pids than there are contexts.
LEMMA QueueHasRoom ==
    ASSUME NEW s, NEW m, NEW home, Orderly(s, m, home), NEW id \in SemIds,
           s.currentProcess # NULL
    PROVE  Len(m[id].waitQueue) < Cardinality(Ctx)
<1>. DEFINE q == m[id].waitQueue
            n == Len(q)
            x == s.currentProcess
            W == Ctx \ {x}
            f == [i \in 1 .. n |-> FindProcess(s, q[i])]
<1>1. q \in Seq(Pids) /\ n \in Nat /\ \A i \in 1 .. n : q[i] \in ToSet(q)
  <2>1. q \in Seq(Pids)
    BY DEF Orderly, Semaphore
  <2>. QED BY <2>1, ToSetProperty
<1>2. x \in Ctx /\ s.status[x] # "BLOCKED"
  BY DEF Orderly, Inv, Common, Kernel, Cpu
<1>3. \A i \in 1 .. n : f[i] \in W /\ s.pid[f[i]] = q[i]
  BY <1>1, <1>2, QueuedAreFound
<1>4. \A i, j \in 1 .. n : q[i] = q[j] => i = j
  BY <1>1 DEF Orderly, QueuesInOrder, IsInjective
<1>5. IsFiniteSet(Ctx) /\ Cardinality(Ctx) \in Nat /\ IsFiniteSet(W) /\ Cardinality(W) = Cardinality(Ctx) - 1
  BY <1>2, SchedulerAssumption, FS_CardinalityType, FS_RemoveElement
<1>6. DOMAIN f = 1 .. n /\ f = [i \in 1 .. n |-> f[i]]
  OBVIOUS
<1>. HIDE DEF q, W, f, n
<1>7. f \in Injection(1 .. n, W)
  <2>1. f \in [1 .. n -> W]
    BY <1>3, <1>6
  <2>2. \A i, j \in 1 .. n : f[i] = f[j] => i = j
    BY <1>3, <1>4
  <2>. QED BY <1>6, <2>1, <2>2 DEF Injection, IsInjective
<1>8. IsFiniteSet(1 .. n) /\ Cardinality(1 .. n) = n
  BY <1>1, FS_Interval
<1>9. n <= Cardinality(W)
  BY <1>5, <1>7, <1>8, FS_Injection
<1>. QED
  BY <1>1, <1>5, <1>9 DEF q, n

\* What is counted is a finite number.
LEMMA AwakenedFinite ==
    ASSUME NEW s, NEW home, NEW id
    PROVE  /\ IsFiniteSet(Awakened(s, home, id))
           /\ Cardinality(Awakened(s, home, id)) \in Nat
BY SchedulerAssumption, FS_Subset, FS_CardinalityType DEF Awakened

\* The process that runs leaves the semaphore it is at, with the token it has.
LEMMA OrderlyLeave ==
    ASSUME NEW s, NEW m, NEW home, Orderly(s, m, home), NEW c \in Ctx,
           c = s.currentProcess, NEW x \in Int, x \notin SemIds,
           NEW home2, Goes(home, c, x, home2)
    PROVE  /\ Orderly(s, m, home2)
           /\ \A id \in SemIds :
                Supply(s, m, home2, id) = IF id = home[c] THEN Supply(s, m, home, id) - 1
                                                         ELSE Supply(s, m, home, id)
<1>1. s.status[c] = "RUNNING" /\ home \in [Ctx -> Int]
  BY SchedulerAssumption DEF Orderly, Inv, Cpu, Undead
<1>2. home2 \in [Ctx -> Int] /\ \A d \in Ctx : home2[d] = IF d = c THEN x ELSE home[d]
  BY DEF Goes
<1>3. QueuesInOrder(s, m, home2)
  <2>1. QueuesInOrder(s, m, home)
    BY DEF Orderly
  <2>2. \A d \in Ctx : s.status[d] = "BLOCKED" => home2[d] = home[d]
    BY <1>1, <1>2
  <2>. QED BY <2>1, <2>2 DEF QueuesInOrder
<1>4. Orderly(s, m, home2)
  BY <1>1, <1>2, <1>3 DEF Orderly
<1>5. ASSUME NEW id \in SemIds
      PROVE  Supply(s, m, home2, id) = IF id = home[c] THEN Supply(s, m, home, id) - 1
                                                      ELSE Supply(s, m, home, id)
  <2>1. m[id].counter \in Int
    BY DEF Orderly, Semaphore
  <2>2. CASE id = home[c]
    <3>1. /\ c \notin Awakened(s, home2, id)
          /\ Awakened(s, home, id) = Awakened(s, home2, id) \cup {c}
      BY <1>1, <1>2, <2>2 DEF Awakened
    <3>2. Cardinality(Awakened(s, home, id)) = Cardinality(Awakened(s, home2, id)) + 1
      <4>. DEFINE A == Awakened(s, home2, id)
      <4>1. IsFiniteSet(A)
        BY AwakenedFinite
      <4>2. c \notin A /\ Awakened(s, home, id) = A \cup {c}
        BY <3>1
      <4>. HIDE DEF A
      <4>3. Cardinality(A \cup {c}) = Cardinality(A) + 1
        BY <4>1, <4>2, FS_AddElement
      <4>. QED BY <4>2, <4>3 DEF A
    <3>3. Cardinality(Awakened(s, home2, id)) \in Nat
      BY AwakenedFinite
    <3>. QED BY <2>1, <2>2, <3>2, <3>3 DEF Supply
  <2>3. CASE id # home[c]
    <3>1. Awakened(s, home, id) = Awakened(s, home2, id)
      BY <1>2, <2>3 DEF Awakened
    <3>. QED BY <2>3, <3>1 DEF Supply
  <2>. QED BY <2>2, <2>3
<1>. QED
  BY <1>4, <1>5

\* A step of the scheduler leaves every semaphore with what it has to give.
LEMMA OrderlySteady ==
    ASSUME NEW s, NEW m, NEW home, Orderly(s, m, home), NEW t, Inv(t), Steady(s, t)
    PROVE  /\ Orderly(t, m, home)
           /\ \A id \in SemIds : Supply(t, m, home, id) = Supply(s, m, home, id)
<1>1. QueuesInOrder(t, m, home) /\ Undead(t)
  <2>1. \A c \in Ctx :
            /\ t.pid[c] = s.pid[c] /\ t.status[c] # "TERMINATED"
            /\ s.status[c] = "BLOCKED" => t.status[c] = "BLOCKED"
    BY DEF Steady
  <2>2. QueuesInOrder(s, m, home)
    BY DEF Orderly
  <2>. QED BY <2>1, <2>2 DEF QueuesInOrder, Undead
<1>2. s \in Kernel /\ t \in Kernel /\ Undead(s)
  BY DEF Orderly, Inv, Common
<1>3. \A c \in Ctx : s.status[c] \in {"READY", "RUNNING"} <=> t.status[c] \in {"READY", "RUNNING"}
  <2>1. \A c \in Ctx : s.status[c] \in Statuses /\ t.status[c] \in Statuses
    BY <1>2 DEF Kernel
  <2>. QED BY <1>2, <2>1 DEF Steady, Undead, Statuses, Live
<1>4. \A id \in SemIds : Awakened(t, home, id) = Awakened(s, home, id)
  BY <1>3 DEF Awakened
<1>. QED
  BY <1>1, <1>4 DEF Orderly, Supply

\* So does the creation of a process.
LEMMA OrderlyCreate ==
    ASSUME NEW s, NEW m, NEW home, Orderly(s, m, home),
           NEW c \in Ctx, s.status[c] = "FREED", home[c] \notin SemIds,
           NEW pid \in Pids, IsMinFreePid(s, pid), NEW program \in AnyProgram,
           NEW t, t = CreateProcess(s, c, pid, program)
    PROVE  /\ Orderly(t, m, home)
           /\ \A id \in SemIds : Supply(t, m, home, id) = Supply(s, m, home, id)
<1>1. /\ Inv(t) /\ t.status[c] = "READY"
      /\ \A d \in Ctx : d # c => t.status[d] = s.status[d] /\ t.pid[d] = s.pid[d]
  BY ProcessCreated DEF Orderly
<1>2. Undead(t)
  BY <1>1 DEF Orderly, Undead
<1>3. QueuesInOrder(t, m, home)
  BY <1>1, SMTT(40) DEF Orderly, QueuesInOrder
<1>4. \A id \in SemIds : Awakened(t, home, id) = Awakened(s, home, id)
  BY <1>1 DEF Awakened
<1>. QED
  BY <1>1, <1>2, <1>3, <1>4 DEF Orderly, Supply

\* sem_wait: the caller is at the semaphore, with the token it took or without,
\* and goes on exactly when there was one.
LEMMA OrderlyWait ==
    ASSUME NEW s, NEW m, NEW home, Orderly(s, m, home), NEW id \in SemIds, id \in Int,
           NEW c \in Ctx, c = s.currentProcess, s.pid[c] # IDLE_PID, home[c] \notin SemIds,
           NEW t, NEW m2, SemWait(Sys(s, m), id) = Sys(t, m2),
           NEW home2, Goes(home, c, id, home2)
    PROVE  /\ Orderly(t, m2, home2)
           /\ \A j \in SemIds : Supply(t, m2, home2, j) = Supply(s, m, home, j)
           /\ t.currentProcess = c <=> m[id].counter > 0
           /\ t.currentProcess = c => t = s
           /\ \A j \in SemIds : m2[j].active = m[j].active /\ (j # id => m2[j] = m[j])
           /\ \A d \in Ctx : t.pid[d] = s.pid[d] /\ (t.status[d] = "FREED" <=> s.status[d] = "FREED")
<1>1. /\ s.status[c] = "RUNNING" /\ s.currentPid = s.pid[c] /\ s.currentPid \in Pids
      /\ home \in [Ctx -> Int] /\ m \in [SemIds -> Semaphore]
      /\ Inv(s) /\ Undead(s) /\ QueuesInOrder(s, m, home)
  BY SchedulerAssumption DEF Orderly, Inv, Common, Cpu, Undead, Identity
<1>2. \A d \in Ctx : home2[d] = IF d = c THEN id ELSE home[d]
  BY DEF Goes
<1>3. home2 \in [Ctx -> Int]
  BY DEF Goes
<1>4. m[id] \in Semaphore /\ m[id].waitQueue \in Seq(Pids) /\ m[id].counter \in Nat
  BY <1>1 DEF Semaphore
<1>5. CASE m[id].counter > 0
  <2>. DEFINE sem == [m[id] EXCEPT !.counter = @ - 1]
  <2>1. t = s /\ m2 = [m EXCEPT ![id] = sem]
    BY <1>5 DEF SemWait, Sys
  <2>2. sem \in Semaphore /\ sem.counter = m[id].counter - 1 /\ sem.active = m[id].active
        /\ sem.waitQueue = m[id].waitQueue
    BY <1>4, <1>5 DEF Semaphore
  <2>. HIDE DEF sem
  <2>3. m2 \in [SemIds -> Semaphore] /\ \A j \in SemIds : m2[j] = IF j = id THEN sem ELSE m[j]
    BY <1>1, <2>1, <2>2
  <2>4. QueuesInOrder(t, m2, home2)
    <3>1. \A j \in SemIds : m2[j].waitQueue = m[j].waitQueue
                            /\ (m2[j].counter > 0 => m[j].waitQueue = << >>)
      BY <1>1, <1>5, <2>2, <2>3 DEF QueuesInOrder
    <3>2. ASSUME NEW j \in SemIds, NEW pid \in ToSet(m[j].waitQueue)
          PROVE  \E d \in Ctx : t.pid[d] = pid /\ t.status[d] = "BLOCKED" /\ home2[d] = j
      <4>1. PICK d \in Ctx : s.pid[d] = pid /\ s.status[d] = "BLOCKED" /\ home[d] = j
        BY <1>1 DEF QueuesInOrder
      <4>. QED BY <1>1, <1>2, <2>1, <4>1
    <3>3. \A j \in SemIds : IsInjective(m[j].waitQueue)
      BY <1>1 DEF QueuesInOrder
    <3>. QED BY <3>1, <3>2, <3>3 DEF QueuesInOrder
  <2>5. ASSUME NEW j \in SemIds PROVE Supply(t, m2, home2, j) = Supply(s, m, home, j)
    <3>1. CASE j = id
      <4>. DEFINE A == Awakened(s, home, j)
      <4>1. IsFiniteSet(A) /\ Cardinality(A) \in Nat
        BY AwakenedFinite
      <4>2. c \notin A /\ Awakened(s, home2, j) = A \cup {c}
        BY <1>1, <1>2, <3>1 DEF Awakened
      <4>. HIDE DEF A
      <4>3. Cardinality(A \cup {c}) = Cardinality(A) + 1
        BY <4>1, <4>2, FS_AddElement
      <4>4. m2[j].counter = m[j].counter - 1 /\ m[j].counter \in Nat
        BY <1>4, <2>2, <2>3, <3>1
      <4>5. Supply(t, m2, home2, j) = m[j].counter - 1 + (Cardinality(A) + 1)
        BY <2>1, <4>2, <4>3, <4>4 DEF Supply
      <4>6. Supply(s, m, home, j) = m[j].counter + Cardinality(A)
        BY DEF A, Supply
      <4>. QED BY <4>1, <4>4, <4>5, <4>6
    <3>2. CASE j # id
      <4>1. Awakened(s, home2, j) = Awakened(s, home, j)
        BY <1>2, <3>2 DEF Awakened
      <4>. QED BY <2>1, <2>3, <3>2, <4>1 DEF Supply
    <3>. QED BY <3>1, <3>2
  <2>. QED BY <1>1, <1>3, <1>5, <2>1, <2>2, <2>3, <2>4, <2>5 DEF Orderly
<1>6. CASE ~ (m[id].counter > 0)
  <2>. DEFINE sem == Enqueue(m[id], s.currentPid)
  <2>1. t = BlockProcess(s, s.currentPid) /\ m2 = [m EXCEPT ![id] = sem]
    BY <1>6 DEF SemWait, Sys
  <2>2. /\ Inv(t) /\ Undead(t) /\ t.currentProcess # c /\ t.status[c] = "BLOCKED"
        /\ \A d \in Ctx :
             /\ t.pid[d] = s.pid[d]
             /\ t.status[d] = "FREED" <=> s.status[d] = "FREED"
             /\ d # c => (t.status[d] = "BLOCKED" <=> s.status[d] = "BLOCKED")
    BY <1>1, <2>1, CallerBlocks
  <2>3. s.currentPid \notin ToSet(m[id].waitQueue)
    <3>1. ASSUME NEW pid \in ToSet(m[id].waitQueue) PROVE pid # s.pid[c]
      <4>1. QueuesInOrder(s, m, home)
        BY <1>1
      <4>2. PICK d \in Ctx : s.pid[d] = pid /\ s.status[d] = "BLOCKED"
        BY <4>1 DEF QueuesInOrder
      <4>. QED BY <1>1, <4>2 DEF Inv, Common, Identity, Live
    <3>. QED BY <1>1, <3>1
  <2>4. /\ IsInjective(Append(m[id].waitQueue, s.currentPid))
        /\ Append(m[id].waitQueue, s.currentPid) \in Seq(Pids)
        /\ \A pid : pid \in ToSet(Append(m[id].waitQueue, s.currentPid))
                        <=> pid \in ToSet(m[id].waitQueue) \/ pid = s.currentPid
    <3>1. IsInjective(m[id].waitQueue)
      BY <1>1 DEF QueuesInOrder
    <3>. QED BY <1>1, <1>4, <2>3, <3>1, AppendProperty
  <2>5. /\ sem \in Semaphore /\ sem.counter = m[id].counter /\ sem.active = m[id].active
        /\ IsInjective(sem.waitQueue)
        /\ \A pid \in ToSet(sem.waitQueue) : pid \in ToSet(m[id].waitQueue) \/ pid = s.currentPid
    <3>1. CASE m[id].active
      <4>1. sem = [m[id] EXCEPT !.waitQueue = Append(@, s.currentPid)]
        BY <3>1 DEF Enqueue
      <4>2. sem.waitQueue = Append(m[id].waitQueue, s.currentPid)
        BY <1>4, <4>1 DEF Semaphore
      <4>. HIDE DEF sem
      <4>. QED BY <1>4, <2>4, <4>1, <4>2 DEF Semaphore
    <3>2. CASE ~ m[id].active
      <4>1. sem = m[id]
        BY <3>2 DEF Enqueue
      <4>. QED BY <1>1, <1>4, <4>1 DEF QueuesInOrder
    <3>. QED BY <3>1, <3>2
  <2>. HIDE DEF sem
  <2>6. m2 \in [SemIds -> Semaphore] /\ \A j \in SemIds : m2[j] = IF j = id THEN sem ELSE m[j]
    BY <1>1, <2>1, <2>5
  <2>7. QueuesInOrder(t, m2, home2)
    <3>1. ASSUME NEW j \in SemIds
          PROVE  IsInjective(m2[j].waitQueue) /\ (m2[j].counter > 0 => m2[j].waitQueue = << >>)
      BY <1>1, <1>6, <2>5, <2>6 DEF QueuesInOrder
    <3>2. ASSUME NEW j \in SemIds, NEW pid \in ToSet(m2[j].waitQueue)
          PROVE  \E d \in Ctx : t.pid[d] = pid /\ t.status[d] = "BLOCKED" /\ home2[d] = j
      <4>1. CASE j = id /\ pid = s.currentPid
        BY <1>1, <1>2, <2>2, <4>1
      <4>2. CASE ~ (j = id /\ pid = s.currentPid)
        <5>1. pid \in ToSet(m[j].waitQueue)
          BY <2>5, <2>6, <4>2
        <5>2. PICK d \in Ctx : s.pid[d] = pid /\ s.status[d] = "BLOCKED" /\ home[d] = j
          BY <1>1, <5>1 DEF QueuesInOrder
        <5>3. d # c
          BY <1>1, <5>2
        <5>. QED BY <1>2, <2>2, <5>2, <5>3
      <4>. QED BY <4>1, <4>2
    <3>. QED BY <3>1, <3>2 DEF QueuesInOrder
  <2>8. ASSUME NEW j \in SemIds PROVE Supply(t, m2, home2, j) = Supply(s, m, home, j)
    <3>1. \A d \in Ctx : s.status[d] \in Statuses /\ t.status[d] \in Statuses
      BY <1>1, <2>2 DEF Inv, Common, Kernel
    <3>2. \A d \in Ctx \ {c} : s.status[d] \in {"READY", "RUNNING"} <=> t.status[d] \in {"READY", "RUNNING"}
      BY <1>1, <2>2, <3>1 DEF Undead, Statuses, Live
    <3>3. Awakened(t, home2, j) = Awakened(s, home, j)
      BY <1>2, <2>2, <3>2 DEF Awakened
    <3>4. m2[j].counter = m[j].counter
      BY <2>5, <2>6
    <3>. QED BY <3>3, <3>4 DEF Supply
  <2>9. Orderly(t, m2, home2)
    BY <1>3, <2>2, <2>6, <2>7 DEF Orderly
  <2>. QED BY <1>6, <2>2, <2>5, <2>6, <2>8, <2>9
<1>. QED
  BY <1>5, <1>6

\* sem_post: one token more, in the counter or in the hands of the process that
\* waited longest; the caller goes on.
LEMMA OrderlyPost ==
    ASSUME NEW s, NEW m, NEW home, Orderly(s, m, home), NEW id \in SemIds,
           NEW t, NEW m2, SemPost(Sys(s, m), id) = Sys(t, m2)
    PROVE  /\ Orderly(t, m2, home)
           /\ \A j \in SemIds : Supply(t, m2, home, j) = IF j = id THEN Supply(s, m, home, j) + 1
                                                                  ELSE Supply(s, m, home, j)
           /\ SameProcesses(s, t)
           /\ \A j \in SemIds : m2[j].active = m[j].active /\ (j # id => m2[j] = m[j])
           /\ \A d \in Ctx : t.status[d] = "FREED" <=> s.status[d] = "FREED"
           /\ m[id].waitQueue = << >> => t = s /\ m2 = [m EXCEPT ![id].counter = @ + 1]
           /\ m[id].waitQueue # << >> =>
                \E c \in Ctx : s.status[c] = "BLOCKED" /\ t.status[c] = "READY" /\ home[c] = id
           /\ \A d \in Ctx : home[d] # id => t.status[d] = s.status[d]
<1>. DEFINE q == m[id].waitQueue
<1>1. /\ home \in [Ctx -> Int] /\ m \in [SemIds -> Semaphore]
      /\ Inv(s) /\ Undead(s) /\ QueuesInOrder(s, m, home)
  BY DEF Orderly
<1>2. m[id] \in Semaphore /\ q \in Seq(Pids) /\ m[id].counter \in Nat
  BY <1>1 DEF Semaphore
<1>3. Purge(s, q) = q
  BY NothingToPurge
<1>4. CASE q = << >>
  <2>. DEFINE sem == [m[id] EXCEPT !.counter = @ + 1]
  <2>1. t = s /\ m2 = [m EXCEPT ![id].waitQueue = q, ![id].counter = @ + 1]
    BY <1>3, <1>4 DEF SemPost, Sys
  <2>2. [m[id] EXCEPT !.waitQueue = q] = m[id]
    BY <1>2 DEF Semaphore
  <2>3. m2 = [m EXCEPT ![id] = sem]
    BY <1>1, <2>1, <2>2
  <2>4. sem \in Semaphore /\ sem.counter = m[id].counter + 1 /\ sem.active = m[id].active
        /\ sem.waitQueue = q
    BY <1>2 DEF Semaphore
  <2>. HIDE DEF sem, q
  <2>5. m2 \in [SemIds -> Semaphore] /\ \A j \in SemIds : m2[j] = IF j = id THEN sem ELSE m[j]
    BY <1>1, <2>3, <2>4
  <2>6. QueuesInOrder(t, m2, home)
    <3>1. \A j \in SemIds : m2[j].waitQueue = m[j].waitQueue
      BY <2>4, <2>5 DEF q
    <3>2. \A j \in SemIds : m2[j].counter > 0 => m2[j].waitQueue = << >>
      BY <1>1, <1>4, <2>4, <2>5 DEF QueuesInOrder
    <3>3. ASSUME NEW j \in SemIds PROVE IsInjective(m2[j].waitQueue)
      BY <1>1, <3>1 DEF QueuesInOrder
    <3>4. ASSUME NEW j \in SemIds, NEW pid \in ToSet(m2[j].waitQueue)
          PROVE  \E c \in Ctx : t.pid[c] = pid /\ t.status[c] = "BLOCKED" /\ home[c] = j
      <4>1. pid \in ToSet(m[j].waitQueue)
        BY <3>1
      <4>. QED BY <1>1, <2>1, <4>1 DEF QueuesInOrder
    <3>. QED BY <3>2, <3>3, <3>4 DEF QueuesInOrder
  <2>7. \A j \in SemIds : Supply(t, m2, home, j) = IF j = id THEN Supply(s, m, home, j) + 1
                                                            ELSE Supply(s, m, home, j)
    BY <1>2, <2>1, <2>4, <2>5, AwakenedFinite DEF Supply
  <2>8. Orderly(t, m2, home)
    BY <1>1, <2>1, <2>5, <2>6 DEF Orderly
  <2>9. m2 = [m EXCEPT ![id].counter = @ + 1]
    BY <2>3 DEF sem
  <2>. QED BY <1>4, <2>1, <2>4, <2>5, <2>7, <2>8, <2>9 DEF SameProcesses, q
<1>5. CASE q # << >>
  <2>. DEFINE sem == [m[id] EXCEPT !.waitQueue = Tail(q)]
  <2>1. t = SetReadyProcess(s, Head(q)) /\ m2 = [m EXCEPT ![id] = sem]
    BY <1>3, <1>5 DEF SemPost, Sys
  <2>2. IsInjective(q) /\ ~ (m[id].counter > 0)
    BY <1>1, <1>5 DEF QueuesInOrder
  <2>. HIDE DEF q
  <2>3. /\ Head(q) \in ToSet(q) /\ Tail(q) \in Seq(Pids) /\ IsInjective(Tail(q))
        /\ \A pid : pid \in ToSet(Tail(q)) <=> pid \in ToSet(q) /\ pid # Head(q)
    BY <1>2, <1>5, <2>2, TailProperty
  <2>4. PICK c \in Ctx : s.pid[c] = Head(q) /\ s.status[c] = "BLOCKED" /\ home[c] = id
    BY <1>1, <2>3 DEF QueuesInOrder, q
  <2>5. /\ Inv(t) /\ SameProcesses(s, t)
        /\ \A d \in Ctx : t.status[d] = IF d = c THEN "READY" ELSE s.status[d]
    BY <1>1, <2>1, <2>4, WaiterWakes
  <2>6. sem \in Semaphore /\ sem.counter = m[id].counter /\ sem.active = m[id].active
        /\ sem.waitQueue = Tail(q)
    BY <1>2, <2>3 DEF Semaphore
  <2>. HIDE DEF sem
  <2>7. m2 \in [SemIds -> Semaphore] /\ \A j \in SemIds : m2[j] = IF j = id THEN sem ELSE m[j]
    BY <1>1, <2>1, <2>6
  <2>8. QueuesInOrder(t, m2, home)
    <3>1. ASSUME NEW j \in SemIds
          PROVE  IsInjective(m2[j].waitQueue) /\ (m2[j].counter > 0 => m2[j].waitQueue = << >>)
      BY <1>1, <2>2, <2>3, <2>6, <2>7 DEF QueuesInOrder
    <3>2. ASSUME NEW j \in SemIds, NEW pid \in ToSet(m2[j].waitQueue)
          PROVE  \E d \in Ctx : t.pid[d] = pid /\ t.status[d] = "BLOCKED" /\ home[d] = j
      <4>1. pid \in ToSet(m[j].waitQueue) /\ (j = id => pid # Head(q))
        BY <2>3, <2>6, <2>7 DEF q
      <4>2. PICK d \in Ctx : s.pid[d] = pid /\ s.status[d] = "BLOCKED" /\ home[d] = j
        BY <1>1, <4>1 DEF QueuesInOrder
      <4>3. d # c
        BY <2>4, <4>1, <4>2
      <4>. QED BY <2>5, <4>2, <4>3 DEF SameProcesses
    <3>. QED BY <3>1, <3>2 DEF QueuesInOrder
  <2>9. ASSUME NEW j \in SemIds
        PROVE  Supply(t, m2, home, j) = IF j = id THEN Supply(s, m, home, j) + 1
                                                  ELSE Supply(s, m, home, j)
    <3>1. m2[j].counter = m[j].counter /\ m[j].counter \in Nat
      BY <1>1, <2>6, <2>7 DEF Semaphore
    <3>2. CASE j = id
      <4>. DEFINE A == Awakened(s, home, j)
      <4>1. IsFiniteSet(A) /\ Cardinality(A) \in Nat
        BY AwakenedFinite
      <4>2. c \notin A /\ Awakened(t, home, j) = A \cup {c}
        BY <2>4, <2>5, <3>2 DEF Awakened
      <4>3. Supply(s, m, home, j) = m[j].counter + Cardinality(A)
        BY DEF Supply
      <4>. HIDE DEF A
      <4>4. Cardinality(A \cup {c}) = Cardinality(A) + 1
        BY <4>1, <4>2, FS_AddElement
      <4>5. Supply(t, m2, home, j) = m[j].counter + (Cardinality(A) + 1)
        BY <3>1, <4>2, <4>4 DEF Supply
      <4>. QED BY <3>1, <3>2, <4>1, <4>3, <4>5
    <3>3. CASE j # id
      <4>1. Awakened(t, home, j) = Awakened(s, home, j)
        BY <2>4, <2>5, <3>3 DEF Awakened
      <4>. QED BY <3>1, <3>3, <4>1 DEF Supply
    <3>. QED BY <3>2, <3>3
  <2>10. Orderly(t, m2, home)
    BY <1>1, <2>5, <2>7, <2>8 DEF Orderly, Undead
  <2>. QED BY <1>5, <2>4, <2>5, <2>6, <2>7, <2>9, <2>10 DEF q
<1>. QED
  BY <1>4, <1>5

\* A semaphore that begins anew or ends, with x tokens and nobody in its queue.
LEMMA OrderlyReset ==
    ASSUME NEW s, NEW m, NEW home, Orderly(s, m, home), NEW id \in SemIds,
           NEW x \in Semaphore, x.waitQueue = << >>
    PROVE  /\ Orderly(s, [m EXCEPT ![id] = x], home)
           /\ \A j \in SemIds :
                Supply(s, [m EXCEPT ![id] = x], home, j)
                    = IF j = id THEN x.counter + Cardinality(Awakened(s, home, id))
                                ELSE Supply(s, m, home, j)
<1>. DEFINE w == [m EXCEPT ![id] = x]
<1>1. m \in [SemIds -> Semaphore] /\ Inv(s) /\ Undead(s) /\ home \in [Ctx -> Int]
      /\ QueuesInOrder(s, m, home)
  BY DEF Orderly
<1>2. \A j \in SemIds : w[j] = IF j = id THEN x ELSE m[j]
  BY <1>1
<1>3. w \in [SemIds -> Semaphore]
  BY <1>1
<1>. HIDE DEF w
<1>4. QueuesInOrder(s, w, home)
  <2>1. ASSUME NEW j \in SemIds
        PROVE  /\ w[j].counter > 0 => w[j].waitQueue = << >>
               /\ IsInjective(w[j].waitQueue)
               /\ \A pid \in ToSet(w[j].waitQueue) :
                    \E c \in Ctx : s.pid[c] = pid /\ s.status[c] = "BLOCKED" /\ home[c] = j
    <3>1. CASE j = id
      <4>1. w[j].waitQueue = << >>
        BY <1>2, <3>1
      <4>2. IsInjective(<< >>) /\ ToSet(<< >>) = {}
        BY DEF IsInjective, ToSet
      <4>. QED BY <4>1, <4>2
    <3>2. CASE j # id
      <4>1. w[j] = m[j]
        BY <1>2, <3>2
      <4>. QED BY <1>1, <4>1 DEF QueuesInOrder
    <3>. QED BY <3>1, <3>2
  <2>. QED BY <2>1 DEF QueuesInOrder
<1>5. \A j \in SemIds :
        Supply(s, w, home, j) = IF j = id THEN x.counter + Cardinality(Awakened(s, home, id))
                                          ELSE Supply(s, m, home, j)
  BY <1>2 DEF Supply
<1>. QED
  BY <1>1, <1>3, <1>4, <1>5 DEF Orderly, w

\* sem_create, on a semaphore that nobody is at: it has its value to give.
Nobody(home, id) == \A c \in Ctx : home[c] # id

Fresh(value) == [active |-> TRUE, counter |-> value, waitQueue |-> << >>]

LEMMA OrderlySemCreate ==
    ASSUME NEW s, NEW m, NEW home, Orderly(s, m, home), NEW id \in SemIds, NEW value \in Nat,
           Nobody(home, id)
    PROVE  /\ Orderly(s, [m EXCEPT ![id] = Fresh(value)], home)
           /\ \A j \in SemIds :
                Supply(s, [m EXCEPT ![id] = Fresh(value)], home, j)
                    = IF j = id THEN value ELSE Supply(s, m, home, j)
<1>1. Fresh(value) \in Semaphore /\ Fresh(value).waitQueue = << >> /\ Fresh(value).counter = value
  BY DEF Fresh, Semaphore
<1>2. Cardinality(Awakened(s, home, id)) = 0
  <2>1. Awakened(s, home, id) = {}
    BY DEF Awakened, Nobody
  <2>. QED BY <2>1, FS_EmptySet
<1>3. Orderly(s, [m EXCEPT ![id] = Fresh(value)], home)
  BY <1>1, OrderlyReset
<1>4. \A j \in SemIds :
        Supply(s, [m EXCEPT ![id] = Fresh(value)], home, j)
            = IF j = id THEN value + Cardinality(Awakened(s, home, id)) ELSE Supply(s, m, home, j)
  BY <1>1, OrderlyReset
<1>5. value + Cardinality(Awakened(s, home, id)) = value
  BY <1>2
<1>. DEFINE w == [m EXCEPT ![id] = Fresh(value)]
<1>6. Orderly(s, w, home)
  BY <1>3
<1>7. \A j \in SemIds : Supply(s, w, home, j) = IF j = id THEN value ELSE Supply(s, m, home, j)
  BY <1>4, <1>5
<1>. HIDE DEF w
<1>8. Orderly(s, w, home)
      /\ \A j \in SemIds : Supply(s, w, home, j) = IF j = id THEN value ELSE Supply(s, m, home, j)
  BY <1>6, <1>7
<1>. QED
  BY <1>8 DEF w

-----------------------------------------------------------------------------
(***************************************************************************)
(* Processes that start others, wait for them and exit, while nobody kills *)
(* a process other than himself.  SteadyBut is Steady for all but c.       *)
(***************************************************************************)
SteadyBut(s, t, c) ==
    \A d \in Ctx \ {c} :
        /\ t.pid[d] = s.pid[d]
        /\ t.status[d] = "FREED" <=> s.status[d] = "FREED"
        /\ t.status[d] = "BLOCKED" <=> s.status[d] = "BLOCKED"
        /\ t.status[d] # "TERMINATED"

\* Those that live keep their waiting lists.
KeepsLists(s, t) ==
    \A c \in Ctx : t.status[c] \in Live => t.waitingList[c] = s.waitingList[c]

\* Who waits for a process is blocked, waits for that one only, and at no semaphore.
WaitersApart(s, home) ==
    \A c \in Ctx : s.status[c] # "FREED" => \A w \in ToSet(s.waitingList[c]) :
        /\ w \in Ctx /\ s.status[w] = "BLOCKED" /\ home[w] \notin SemIds
        /\ \A d \in Ctx : s.status[d] # "FREED" /\ w \in ToSet(s.waitingList[d]) => d = c

Peaceful(s, m, home) == Orderly(s, m, home) /\ WaitersApart(s, home)

\* A process that is not dead lives.
LEMMA LiveOrFreed ==
    ASSUME NEW s, Inv(s), Undead(s), NEW c \in Ctx
    PROVE  s.status[c] # "FREED" <=> s.status[c] \in Live
BY DEF Inv, Common, Kernel, Undead, Statuses, Live

\* schedule() and whatever else leaves everybody blocked who was.
LEMMA PeacefulSteady ==
    ASSUME NEW s, NEW m, NEW home, Peaceful(s, m, home), NEW t, Inv(t), Steady(s, t),
           KeepsLists(s, t)
    PROVE  /\ Peaceful(t, m, home)
           /\ \A id \in SemIds : Supply(t, m, home, id) = Supply(s, m, home, id)
<1>1. /\ Orderly(t, m, home)
      /\ \A id \in SemIds : Supply(t, m, home, id) = Supply(s, m, home, id)
  BY OrderlySteady DEF Peaceful
<1>2. WaitersApart(t, home)
  <2>1. \A c \in Ctx :
            /\ t.status[c] # "FREED" => /\ s.status[c] # "FREED"
                                        /\ t.waitingList[c] = s.waitingList[c]
            /\ s.status[c] = "BLOCKED" => t.status[c] = "BLOCKED"
    BY <1>1, LiveOrFreed DEF Steady, KeepsLists, Orderly
  <2>. QED BY <2>1 DEF Peaceful, WaitersApart
<1>. QED
  BY <1>1, <1>2 DEF Peaceful

\* A tick and a yield.
LEMMA PeacefulSchedule ==
    ASSUME NEW s, NEW m, NEW home, Peaceful(s, m, home), NEW t,
           t = Schedule(s) \/ t = Yield(s)
    PROVE  /\ Peaceful(t, m, home) /\ Steady(s, t) /\ KeepsLists(s, t)
           /\ \A id \in SemIds : Supply(t, m, home, id) = Supply(s, m, home, id)
<1>1. Inv(s) /\ Undead(s) /\ Mid(s)
  BY InvIsMid DEF Peaceful, Orderly
<1>2. Inv(t) /\ Steady(s, t) /\ Gentle(s, t)
  <2>1. CASE t = Schedule(s)
    BY <1>1, <2>1, ScheduleInv, ScheduleSteady, ScheduleGentle
  <2>2. CASE t = Yield(s)
    BY <1>1, <2>2, YieldInv, YieldSteady, YieldGentle
  <2>. QED BY <2>1, <2>2
<1>3. KeepsLists(s, t)
  BY <1>2 DEF Gentle, Fate, KeepsLists
<1>. QED
  BY <1>2, <1>3, PeacefulSteady

\* Where a process is that is not blocked can be settled anew.
LEMMA PeacefulMove ==
    ASSUME NEW s, NEW m, NEW home, Peaceful(s, m, home), NEW c \in Ctx,
           s.status[c] # "BLOCKED", NEW x, NEW home2, Goes(home, c, x, home2)
    PROVE  Peaceful(s, m, home2)
<1>1. /\ home2 \in [Ctx -> Int]
      /\ \A d \in Ctx : s.status[d] = "BLOCKED" => home2[d] = home[d]
  BY DEF Goes
<1>2. QueuesInOrder(s, m, home2)
  <2>1. QueuesInOrder(s, m, home)
    BY DEF Peaceful, Orderly
  <2>2. \A d \in Ctx : s.status[d] = "BLOCKED" => home2[d] = home[d]
    BY <1>1
  <2>. QED BY <2>1, <2>2 DEF QueuesInOrder
<1>3. WaitersApart(s, home2)
  BY <1>1 DEF Peaceful, WaitersApart
<1>. QED
  BY <1>1, <1>2, <1>3 DEF Peaceful, Orderly

\* blockProcess on the caller leaves the waiting lists alone.
LEMMA CallerKeepsLists ==
    ASSUME NEW s, Inv(s), Undead(s), NEW c \in Ctx, c = s.currentProcess,
           s.pid[c] # IDLE_PID, NEW t, t = BlockProcess(s, s.currentPid)
    PROVE  KeepsLists(s, t)
<1>. DEFINE b == MoveToBlocked(s, c)
            d == Detach(s, c)
<1>1. s \in Kernel /\ Lists(s) /\ c # NULL /\ s.status[c] = "RUNNING" /\ s.currentPid = s.pid[c]
  BY SchedulerAssumption DEF Inv, Common, Cpu, Undead
<1>2. FindProcess(s, s.currentPid) = c
  BY <1>1, FindsIt DEF Live
<1>3. t = Yield(b)
  BY <1>1, <1>2 DEF BlockProcess
<1>4. Mid(b)
  BY <1>1, MoveToBlockedInv
<1>5. d \in Kernel /\ d.waitingList = s.waitingList
  BY <1>1, DetachProperty, WaitingListFrame
<1>6. b = [d EXCEPT !.blockedProcess[c] = @ + 1, !.status[c] = "BLOCKED"]
  BY DEF MoveToBlocked
<1>. HIDE DEF b, d
<1>7. b.waitingList = s.waitingList
  BY <1>5, <1>6 DEF Kernel
<1>8. Fate(b, t)
  BY <1>3, <1>4, YieldGentle DEF Gentle
<1>. QED
  BY <1>7, <1>8 DEF Fate, KeepsLists

\* Nobody begins or ends.
SameWorld(s, t) ==
    \A d \in Ctx : t.pid[d] = s.pid[d] /\ (t.status[d] = "FREED" <=> s.status[d] = "FREED")

\* Nobody but c is blocked who was not.
OnlyBlocks(s, t, c) ==
    \A d \in Ctx \ {c} : t.status[d] = "BLOCKED" => s.status[d] = "BLOCKED"

LEMMA WaitBlocksCaller ==
    ASSUME NEW s, Inv(s), Undead(s), NEW c \in Ctx, c = s.currentProcess, s.pid[c] # IDLE_PID,
           NEW m, NEW id, NEW t, NEW m2, SemWait(Sys(s, m), id) = Sys(t, m2)
    PROVE  OnlyBlocks(s, t, c)
<1>1. t = s \/ t = BlockProcess(s, s.currentPid)
  BY DEF SemWait, Sys
<1>2. t = BlockProcess(s, s.currentPid) =>
        \A d \in Ctx : d # c => (t.status[d] = "BLOCKED" <=> s.status[d] = "BLOCKED")
  BY CallerBlocks
<1>. QED
  BY <1>1, <1>2 DEF OnlyBlocks

\* sem_wait by a process that is at no semaphore.
LEMMA PeacefulSemWait ==
    ASSUME NEW s, NEW m, NEW home, Peaceful(s, m, home), NEW id \in SemIds, id \in Int,
           NEW c \in Ctx, c = s.currentProcess, s.pid[c] # IDLE_PID, home[c] \notin SemIds,
           NEW t, NEW m2, SemWait(Sys(s, m), id) = Sys(t, m2),
           NEW home2, Goes(home, c, id, home2)
    PROVE  /\ Peaceful(t, m2, home2) /\ KeepsLists(s, t)
           /\ \A j \in SemIds : Supply(t, m2, home2, j) = Supply(s, m, home, j)
           /\ SameWorld(s, t)
<1>1. /\ Orderly(s, m, home) /\ Inv(s) /\ Undead(s) /\ WaitersApart(s, home)
      /\ s.status[c] = "RUNNING"
  BY SchedulerAssumption DEF Peaceful, Orderly, Inv, Cpu, Undead
<1>2. /\ Orderly(t, m2, home2)
      /\ \A j \in SemIds : Supply(t, m2, home2, j) = Supply(s, m, home, j)
      /\ \A d \in Ctx : t.pid[d] = s.pid[d] /\ (t.status[d] = "FREED" <=> s.status[d] = "FREED")
  BY <1>1, OrderlyWait
<1>3. t = s \/ t = BlockProcess(s, s.currentPid)
  BY DEF SemWait, Sys
<1>4. /\ KeepsLists(s, t)
      /\ \A d \in Ctx : s.status[d] = "BLOCKED" => t.status[d] = "BLOCKED"
  <2>1. CASE t = s
    BY <2>1 DEF KeepsLists
  <2>2. CASE t = BlockProcess(s, s.currentPid)
    <3>1. KeepsLists(s, t)
      BY <1>1, <2>2, CallerKeepsLists
    <3>2. \A d \in Ctx : d # c => (t.status[d] = "BLOCKED" <=> s.status[d] = "BLOCKED")
      BY <1>1, <2>2, CallerBlocks
    <3>. QED BY <1>1, <3>1, <3>2
  <2>. QED BY <1>3, <2>1, <2>2
<1>5. WaitersApart(t, home2)
  <2>1. \A d \in Ctx : t.status[d] # "FREED" => /\ s.status[d] # "FREED"
                                                /\ t.waitingList[d] = s.waitingList[d]
    BY <1>2, <1>4, LiveOrFreed DEF KeepsLists, Orderly
  <2>2. \A d \in Ctx : s.status[d] = "BLOCKED" => home2[d] = home[d] /\ t.status[d] = "BLOCKED"
    BY <1>1, <1>4 DEF Goes
  <2>. QED BY <1>1, <2>1, <2>2 DEF WaitersApart
<1>6. SameWorld(s, t)
  BY <1>2 DEF SameWorld
<1>. QED
  BY <1>2, <1>4, <1>5, <1>6 DEF Peaceful

\* sem_post wakes nobody who waits for a process.
LEMMA PeacefulSemPost ==
    ASSUME NEW s, NEW m, NEW home, Peaceful(s, m, home), NEW id \in SemIds,
           NEW t, NEW m2, SemPost(Sys(s, m), id) = Sys(t, m2)
    PROVE  Peaceful(t, m2, home) /\ t.waitingList = s.waitingList
<1>1. Orderly(s, m, home) /\ s \in Kernel /\ WaitersApart(s, home)
  BY DEF Peaceful, Orderly, Inv, Common
<1>2. /\ Orderly(t, m2, home)
      /\ \A d \in Ctx : t.status[d] = "FREED" <=> s.status[d] = "FREED"
      /\ \A d \in Ctx : home[d] # id => t.status[d] = s.status[d]
  BY <1>1, OrderlyPost
<1>3. t.waitingList = s.waitingList
  <2>1. t = s \/ \E pid : t = SetReadyProcess(s, pid)
    BY DEF SemPost, Sys
  <2>2. ASSUME NEW pid PROVE SetReadyProcess(s, pid).waitingList = s.waitingList
    <3>1. SetReadyProcess(s, pid) = s \/ \E w : SetReadyProcess(s, pid) = Wake(s, w)
      BY DEF SetReadyProcess
    <3>2. \A w : Wake(s, w).waitingList = s.waitingList
      BY <1>1 DEF Wake, Kernel
    <3>. QED BY <3>1, <3>2
  <2>. QED BY <2>1, <2>2
<1>4. WaitersApart(t, home)
  BY <1>1, <1>2, <1>3 DEF WaitersApart
<1>. QED
  BY <1>2, <1>3, <1>4 DEF Peaceful

\* It wakes one of those in the queue at most.
LEMMA PostBlocksNobody ==
    ASSUME NEW s, NEW m, NEW home, Orderly(s, m, home), NEW id \in SemIds,
           NEW t, NEW m2, SemPost(Sys(s, m), id) = Sys(t, m2)
    PROVE  \A d \in Ctx : t.status[d] = "BLOCKED" => s.status[d] = "BLOCKED"
<1>. DEFINE q == m[id].waitQueue
<1>1. Inv(s) /\ q \in Seq(Pids)
  BY DEF Orderly, Semaphore
<1>2. Purge(s, q) = q
  BY NothingToPurge
<1>3. CASE q = << >>
  BY <1>2, <1>3 DEF SemPost, Sys
<1>4. CASE q # << >>
  <2>1. t = SetReadyProcess(s, Head(q)) /\ Head(q) \in ToSet(q)
    <3>1. t = SetReadyProcess(s, Head(q))
      BY <1>2, <1>4 DEF SemPost, Sys
    <3>2. Head(q) = q[1] /\ 1 \in 1 .. Len(q)
      BY <1>1, <1>4
    <3>3. q[1] \in ToSet(q)
      <4>. HIDE DEF q
      <4>. QED BY <1>1, <3>2, ToSetProperty
    <3>. QED BY <3>1, <3>2, <3>3
  <2>2. PICK c \in Ctx : s.pid[c] = Head(q) /\ s.status[c] = "BLOCKED"
    BY <2>1, QueuedAreFound
  <2>. HIDE DEF q
  <2>3. \A d \in Ctx : t.status[d] = IF d = c THEN "READY" ELSE s.status[d]
    BY <1>1, <2>1, <2>2, WaiterWakes
  <2>. QED BY <2>3
<1>. QED
  BY <1>3, <1>4

\* A new process waits for nobody, and nobody for it.
LEMMA PeacefulCreate ==
    ASSUME NEW s, NEW m, NEW home, Peaceful(s, m, home),
           NEW c \in Ctx, s.status[c] = "FREED", home[c] \notin SemIds,
           NEW pid \in Pids, IsMinFreePid(s, pid), NEW program \in AnyProgram,
           NEW t, t = CreateProcess(s, c, pid, program)
    PROVE  /\ Peaceful(t, m, home)
           /\ \A id \in SemIds : Supply(t, m, home, id) = Supply(s, m, home, id)
<1>1. Orderly(s, m, home) /\ Inv(s) /\ s \in Kernel /\ WaitersApart(s, home)
  BY DEF Peaceful, Orderly, Inv, Common
<1>2. Orderly(t, m, home)
  BY <1>1, OrderlyCreate
<1>3. \A id \in SemIds : Supply(t, m, home, id) = Supply(s, m, home, id)
  BY <1>1, OrderlyCreate
<1>4. \A d \in Ctx : d # c => t.status[d] = s.status[d]
  BY <1>1, ProcessCreated
<1>6. /\ t.waitingList[c] = << >>
      /\ \A d \in Ctx : d # c => t.waitingList[d] = s.waitingList[d]
  BY <1>1, CreateWaitingList
<1>7. WaitersApart(t, home)
  <2>1. \A d \in Ctx : d # c => \A w \in ToSet(s.waitingList[d]) :
            s.status[d] # "FREED" => w # c
    BY <1>1 DEF WaitersApart
  <2>2. ToSet(<< >>) = {}
    BY DEF ToSet
  <2>. QED BY <1>1, <1>4, <1>6, <2>1, <2>2 DEF WaitersApart
<1>. QED
  BY <1>2, <1>3, <1>7 DEF Peaceful

\* waitProcess by a process that is at no semaphore: it blocks until the other
\* one dies, or goes on because there is none.
LEMMA PeacefulWaitProcess ==
    ASSUME NEW s, NEW m, NEW home, Peaceful(s, m, home), NEW c \in Ctx, c = s.currentProcess,
           s.pid[c] # IDLE_PID, home[c] \notin SemIds, NEW pid,
           NEW t, t = WaitProcess(s, pid)
    PROVE  /\ Peaceful(t, m, home)
           /\ \A id \in SemIds : Supply(t, m, home, id) = Supply(s, m, home, id)
           /\ \A d \in Ctx : /\ t.pid[d] = s.pid[d]
                             /\ t.status[d] = "FREED" <=> s.status[d] = "FREED"
           /\ OnlyBlocks(s, t, c)
<1>. DEFINE target == FindProcess(s, pid)
            u == [s EXCEPT !.waitingList[target] = Append(@, c)]
<1>1. /\ Orderly(s, m, home) /\ Inv(s) /\ Undead(s) /\ WaitersApart(s, home)
      /\ s.status[c] = "RUNNING" /\ s \in Kernel /\ s.currentPid = s.pid[c]
  BY SchedulerAssumption DEF Peaceful, Orderly, Inv, Common, Cpu, Undead
<1>2. FindProcess(s, s.currentPid) = c
  BY <1>1, FindsIt DEF Live
<1>3. CASE target = NULL \/ s.currentPid = pid
  BY <1>1, <1>3 DEF WaitProcess, Peaceful, OnlyBlocks
<1>4. CASE ~ (target = NULL \/ s.currentPid = pid)
  <2>1. target \in Ctx
    BY <1>1, <1>4, FindProcessProperty
  <2>2. t = BlockProcess(u, s.currentPid)
    BY <1>2, <1>4 DEF WaitProcess
  <2>. HIDE DEF target
  <2>3. u.waitingList = [s.waitingList EXCEPT ![target] = Append(@, c)]
    BY <1>1 DEF Kernel
  <2>4. u.waitingList \in [Ctx -> Seq(Ctx \cup {NULL})]
    BY <1>1, <2>1, <2>3 DEF Kernel
  <2>5. u \in Kernel
    BY <1>1, <2>3, <2>4 DEF Kernel
  <2>6. /\ SameProcesses(s, u)
        /\ u.readyProcess = s.readyProcess /\ u.blockedProcess = s.blockedProcess
        /\ u.status = s.status
    BY <1>1 DEF Kernel, SameProcesses
  <2>. HIDE DEF u
  <2>7. /\ Inv(u) /\ Undead(u) /\ c = u.currentProcess /\ u.pid[c] # IDLE_PID
        /\ t = BlockProcess(u, u.currentPid)
    BY <1>1, <2>2, <2>5, <2>6, OtherFieldsFrame DEF SameProcesses, Undead
  <2>8. /\ Inv(t) /\ Undead(t) /\ t.status[c] = "BLOCKED"
        /\ \A d \in Ctx :
             /\ t.pid[d] = s.pid[d]
             /\ t.status[d] = "FREED" <=> s.status[d] = "FREED"
             /\ d # c => (t.status[d] = "BLOCKED" <=> s.status[d] = "BLOCKED")
    <3>1. /\ Inv(t) /\ Undead(t) /\ t.status[c] = "BLOCKED"
          /\ \A d \in Ctx :
             /\ t.pid[d] = u.pid[d]
             /\ t.status[d] = "FREED" <=> u.status[d] = "FREED"
             /\ d # c => (t.status[d] = "BLOCKED" <=> u.status[d] = "BLOCKED")
      BY <2>7, CallerBlocks
    <3>. QED BY <2>6, <3>1 DEF SameProcesses
  <2>9. KeepsLists(u, t)
    BY <2>7, CallerKeepsLists
  <2>10. ASSUME NEW d \in Ctx, t.status[d] # "FREED"
         PROVE  \A w \in ToSet(t.waitingList[d]) :
                    w \in ToSet(s.waitingList[d]) \/ (d = target /\ w = c)
    <3>1. t.waitingList[d] = u.waitingList[d]
      BY <2>8, <2>9, <2>10, LiveOrFreed DEF KeepsLists
    <3>2. CASE d # target
      <4>1. u.waitingList[d] = s.waitingList[d]
        BY <1>1, <2>1, <2>3, <3>2 DEF Kernel
      <4>. QED BY <3>1, <4>1
    <3>3. CASE d = target
      <4>1. u.waitingList[d] = Append(s.waitingList[d], c)
            /\ s.waitingList[d] \in Seq(Ctx \cup {NULL})
        BY <1>1, <2>1, <2>3, <3>3 DEF Kernel
      <4>2. \A w \in ToSet(Append(s.waitingList[d], c)) : w \in ToSet(s.waitingList[d]) \/ w = c
        BY <4>1 DEF ToSet
      <4>. QED BY <3>1, <3>3, <4>1, <4>2
    <3>. QED BY <3>2, <3>3
  <2>11. \A d \in Ctx : s.status[d] # "FREED" => c \notin ToSet(s.waitingList[d])
    BY <1>1 DEF WaitersApart
  <2>12. WaitersApart(t, home)
    <3>. SUFFICES ASSUME NEW d \in Ctx, t.status[d] # "FREED", NEW w \in ToSet(t.waitingList[d])
                  PROVE  /\ w \in Ctx /\ t.status[w] = "BLOCKED" /\ home[w] \notin SemIds
                         /\ \A e \in Ctx : t.status[e] # "FREED" /\ w \in ToSet(t.waitingList[e])
                                            => e = d
      BY DEF WaitersApart
    <3>1. s.status[d] # "FREED"
      BY <2>8
    <3>2. CASE w = c
      BY <2>8, <2>10, <2>11, <3>1, <3>2
    <3>3. CASE w # c
      <4>1. w \in ToSet(s.waitingList[d])
        BY <2>10, <3>3
      <4>2. /\ w \in Ctx /\ s.status[w] = "BLOCKED" /\ home[w] \notin SemIds
            /\ \A e \in Ctx : s.status[e] # "FREED" /\ w \in ToSet(s.waitingList[e]) => e = d
        BY <1>1, <3>1, <4>1 DEF WaitersApart
      <4>3. \A e \in Ctx : t.status[e] # "FREED" /\ w \in ToSet(t.waitingList[e])
                => s.status[e] # "FREED" /\ w \in ToSet(s.waitingList[e])
        BY <2>8, <2>10, <3>3
      <4>. QED BY <2>8, <3>3, <4>2, <4>3
    <3>. QED BY <3>2, <3>3
  <2>13. QueuesInOrder(t, m, home)
    <3>1. \A d \in Ctx : s.status[d] = "BLOCKED" => t.status[d] = "BLOCKED" /\ t.pid[d] = s.pid[d]
      BY <1>1, <2>8
    <3>2. QueuesInOrder(s, m, home)
      BY <1>1 DEF Orderly
    <3>. QED BY <3>1, <3>2 DEF QueuesInOrder
  <2>14. Peaceful(t, m, home)
    BY <1>1, <2>8, <2>12, <2>13 DEF Peaceful, Orderly
  <2>15. \A id \in SemIds : Awakened(t, home, id) = Awakened(s, home, id)
    <3>1. \A d \in Ctx : s.status[d] \in Statuses /\ t.status[d] \in Statuses
      BY <1>1, <2>8 DEF Inv, Common, Kernel
    <3>2. \A d \in Ctx \ {c} :
            s.status[d] \in {"READY", "RUNNING"} <=> t.status[d] \in {"READY", "RUNNING"}
      BY <1>1, <2>8, <3>1 DEF Undead, Statuses, Live
    <3>. QED BY <3>2 DEF Awakened
  <2>16. OnlyBlocks(s, t, c)
    BY <2>8 DEF OnlyBlocks
  <2>. QED BY <2>8, <2>14, <2>15, <2>16 DEF Supply
<1>. QED
  BY <1>3, <1>4

\* yield() after the process that runs was killed: its context is freed, and
\* nothing else changes but who runs.
LEMMA YieldOverDead ==
    ASSUME NEW s, Inv(s), NEW c \in Ctx, c = s.currentProcess, s.status[c] = "TERMINATED",
           NEW t, t = Yield(s)
    PROVE  Inv(t) /\ KeepsLists(s, t) /\ SteadyBut(s, t, c) /\ t.status[c] = "FREED"
<1>. DEFINE u == [s EXCEPT !.quantums = 0]
            v == [u EXCEPT !.quantums = @ - 1]
            f == FreeProcess(v, c)
            r == Retire(v)
<1>1. s \in Kernel /\ Mid(s) /\ s.currentPid \in Pids /\ s.currentPid # NO_PROCESS
  BY InvIsMid, SchedulerAssumption DEF Inv, Common, Cpu, Identity, Pids, NO_PROCESS
<1>2. v = [s EXCEPT !.quantums = -1] /\ v.quantums = -1
  <2>1. u.quantums = 0 /\ v = [u EXCEPT !.quantums = -1]
    BY <1>1 DEF Kernel
  <2>. QED BY <1>1, <2>1 DEF Kernel
<1>3. Mid(v) /\ v \in Kernel
  <2>1. Mid(v)
    BY <1>1, <1>2, QuantumFrame
  <2>. QED BY <2>1 DEF Mid, Common
<1>4. v.status = s.status /\ v.pid = s.pid /\ v.currentProcess = c /\ v.currentPid = s.currentPid
  BY <1>1, <1>2 DEF Kernel
<1>5. v.processQty # 0
  BY <1>3, SomebodyExists DEF Mid
<1>6. t = Switch(v)
  BY <1>2, <1>5 DEF Yield, Schedule
<1>. HIDE DEF u, v
<1>7. Parked(r)
  BY <1>3, RetireParked
<1>8. t = DispatchFirst(r)
  BY <1>1, <1>4, <1>6, <1>7, SomebodyReady DEF Switch
<1>9. Steady(r, t)
  BY <1>7, <1>8, DispatchFirstSteady
<1>10. r = [f EXCEPT !.currentProcess = NULL, !.currentPid = NO_PROCESS]
  BY <1>4, SchedulerAssumption DEF Retire
<1>11. /\ f \in Kernel /\ f.pid = [v.pid EXCEPT ![c] = NO_PROCESS]
       /\ f.status = [v.status EXCEPT ![c] = "FREED"]
  BY <1>3, FreeProcessFrame
<1>. HIDE DEF f
<1>12. r.pid = f.pid /\ r.status = f.status
  BY <1>10, <1>11 DEF Kernel
<1>. HIDE DEF r
<1>13. /\ r.status[c] = "FREED"
       /\ \A d \in Ctx : d # c => r.status[d] = s.status[d] /\ r.pid[d] = s.pid[d]
  BY <1>1, <1>4, <1>11, <1>12 DEF Kernel
<1>14. SteadyBut(s, t, c) /\ t.status[c] = "FREED"
  BY <1>9, <1>13 DEF Steady, SteadyBut
<1>15. Inv(t) /\ KeepsLists(s, t)
  BY <1>1, YieldInv, YieldGentle DEF Gentle, Fate, KeepsLists
<1>. QED
  BY <1>14, <1>15

\* kill() of the process that runs, when blocked processes wait for it: it is
\* dead but keeps the processor, and of the others only its waiters are woken.
LEMMA SelfKilled ==
    ASSUME NEW s, Inv(s), Undead(s), NEW c \in Ctx, c = s.currentProcess, s.pid[c] \in Targets,
           \A w \in ToSet(s.waitingList[c]) : w \in Ctx /\ s.status[w] = "BLOCKED",
           NEW t \in Kill(s, c)
    PROVE  /\ t.currentProcess = c /\ t.status[c] = "TERMINATED" /\ Inv(t)
           /\ \A d \in Ctx \ {c} :
                /\ t.pid[d] = s.pid[d] /\ t.waitingList[d] = s.waitingList[d]
                /\ d \notin ToSet(s.waitingList[c]) => t.status[d] = s.status[d]
                /\ t.status[d] = s.status[d] \/ t.status[d] = "READY"
<1>1. /\ s \in Kernel /\ Lists(s) /\ Identity(s) /\ s.status[c] = "RUNNING"
      /\ c \in ToSet(s.processList)
  BY SchedulerAssumption DEF Inv, Common, Cpu, Lists, Undead, Live
<1>2. Detach(s, c) = s /\ ListsBut(s, c) /\ Dangling(s, c) = {}
  BY <1>1 DEF Detach, ListsBut, Lists, Dangling
<1>3. PICK stale \in [Dangling(s, c) -> StalePids] :
        \E w \in WakeOrders(s, Waiters(s, c, stale)) : t = Bury(Wake(s, w), c)
  BY <1>1, <1>2, DetachSucceeds DEF Kill
<1>4. PICK w \in WakeOrders(s, Waiters(s, c, stale)) : t = Bury(Wake(s, w), c)
  BY <1>3
<1>5. s.waitingList[c] \in Seq(Ctx \cup {NULL})
  BY <1>1, SMTT(40) DEF Kernel
<1>. DEFINE list == s.waitingList[c]
            waiters == Waiters(s, c, stale)
            v == Wake(s, w)
<1>6. \A i \in DOMAIN list : waiters[i] = list[i] /\ list[i] \in ToSet(list)
  <2>. SUFFICES ASSUME NEW i \in DOMAIN list PROVE waiters[i] = list[i] /\ list[i] \in ToSet(list)
    OBVIOUS
  <2>1. list[i] \in ToSet(list)
    BY DEF ToSet
  <2>2. list[i] \in Ctx /\ s.status[list[i]] = "BLOCKED"
    BY <2>1
  <2>3. FindProcess(s, s.pid[list[i]]) = list[i]
    BY <2>2, FindsIt DEF Live
  <2>. QED BY <2>1, <2>2, <2>3, SchedulerAssumption DEF Waiters
<1>7. DOMAIN waiters = DOMAIN list /\ DOMAIN waiters \subseteq Nat
  BY <1>5 DEF Waiters
<1>8. ToSet(waiters) \subseteq Ctx \cup {NULL} /\ ToSet(waiters) \subseteq ToSet(list)
  <2>1. \A x \in ToSet(waiters) : x \in ToSet(list)
    <3>. HIDE DEF waiters, list
    <3>. QED BY <1>6, <1>7 DEF ToSet
  <2>. HIDE DEF waiters
  <2>. QED BY <2>1
<1>. HIDE DEF waiters
<1>9. w \in Seq(Ctx) /\ IsInjective(w) /\ \A e \in ToSet(w) : CanWake(s, e)
  BY <1>4, <1>7, <1>8, WakeOrdersProperty DEF waiters
<1>10. \A e \in ToSet(w) : e \in ToSet(list)
  <2>1. w \in WakeOrders(s, waiters)
    BY <1>4 DEF waiters
  <2>. DEFINE W == {e \in ToSet(waiters) : CanWake(s, e)}
  <2>2. w \in [1 .. Cardinality(W) -> W]
    BY <2>1 DEF WakeOrders
  <2>3. W \subseteq ToSet(list)
    BY <1>8
  <2>. HIDE DEF W
  <2>. QED BY <2>2, <2>3 DEF ToSet
<1>11. /\ v \in Kernel /\ SameProcesses(s, v)
       /\ \A e \in Ctx :
            /\ e \in ToSet(w) => s.status[e] = "BLOCKED" /\ e # c /\ v.status[e] = "READY"
            /\ e \notin ToSet(w) => v.status[e] = s.status[e]
  BY <1>1, <1>2, <1>9, WakeProperty
<1>12. v.waitingList = s.waitingList
  BY <1>1, WaitingListFrame
<1>. HIDE DEF v, list
<1>13. t = Bury(v, c) /\ v.currentProcess = c
  BY <1>4, <1>11 DEF v, SameProcesses
<1>. DEFINE b == [v EXCEPT !.processList = RemoveFirst(@, c),
                           !.status[c]   = "TERMINATED",
                           !.processQty  = @ - 1]
<1>14. t = b
  BY <1>13 DEF Bury
<1>15. /\ b.currentProcess = c /\ b.pid = v.pid /\ b.waitingList = v.waitingList
       /\ b.status = [v.status EXCEPT ![c] = "TERMINATED"]
  BY <1>11, <1>13 DEF Kernel
<1>. HIDE DEF b
<1>16. t.status[c] = "TERMINATED" /\ \A d \in Ctx : d # c => t.status[d] = v.status[d]
  BY <1>11, <1>14, <1>15 DEF Kernel
<1>17. Inv(t)
  BY <1>1, KillInv
<1>18. t.pid = s.pid /\ t.waitingList = s.waitingList
  BY <1>11, <1>12, <1>14, <1>15 DEF SameProcesses
<1>19. \A d \in Ctx : d # c =>
        /\ d \notin ToSet(list) => t.status[d] = s.status[d]
        /\ t.status[d] = s.status[d] \/ t.status[d] = "READY"
  BY <1>10, <1>11, <1>16
<1>. QED
  BY <1>14, <1>15, <1>16, <1>17, <1>18, <1>19 DEF list

\* syscall_exit by a process on the console that is at no semaphore.
LEMMA PeacefulExit ==
    ASSUME NEW s, NEW m, NEW home, Peaceful(s, m, home), NEW c \in Ctx, c = s.currentProcess,
           s.pid[c] \in Targets, home[c] \notin SemIds, PipedFd(s, c) = -1,
           NEW u \in KillProcess(s, s.pid[c]), NEW t, t = Yield(u)
    PROVE  /\ Peaceful(t, m, home)
           /\ \A id \in SemIds : Supply(t, m, home, id) = Supply(s, m, home, id)
           /\ t.status[c] = "FREED"
           /\ \A d \in Ctx \ {c} : /\ t.pid[d] = s.pid[d]
                                   /\ t.status[d] = "FREED" <=> s.status[d] = "FREED"
           /\ OnlyBlocks(s, t, c)
<1>1. /\ Orderly(s, m, home) /\ Inv(s) /\ Undead(s) /\ WaitersApart(s, home)
      /\ s.status[c] = "RUNNING" /\ s \in Kernel
  BY SchedulerAssumption DEF Peaceful, Orderly, Inv, Common, Cpu, Undead
<1>2. FindProcess(s, s.pid[c]) = c
  BY <1>1, FindsIt DEF Live
<1>3. u \in Kill(s, c)
  <2>1. ~ DetachFails(s, c) /\ c # NULL
    BY <1>1, DetachSucceeds, SchedulerAssumption DEF Inv, Common
  <2>2. \A x : KillPeer(x, -1) = {x}
    BY DEF KillPeer
  <2>. QED BY <1>2, <2>1, <2>2 DEF KillProcess
<1>4. \A w \in ToSet(s.waitingList[c]) :
        w \in Ctx /\ s.status[w] = "BLOCKED" /\ home[w] \notin SemIds
  BY <1>1 DEF WaitersApart
<1>5. /\ u.currentProcess = c /\ u.status[c] = "TERMINATED" /\ Inv(u)
      /\ \A d \in Ctx \ {c} :
            /\ u.pid[d] = s.pid[d] /\ u.waitingList[d] = s.waitingList[d]
            /\ d \notin ToSet(s.waitingList[c]) => u.status[d] = s.status[d]
            /\ u.status[d] = s.status[d] \/ u.status[d] = "READY"
  BY <1>1, <1>3, <1>4, SelfKilled
<1>6. Inv(t) /\ KeepsLists(u, t) /\ SteadyBut(u, t, c) /\ t.status[c] = "FREED"
  BY <1>5, YieldOverDead
<1>7. \A d \in Ctx : s.status[d] \in Statuses /\ t.status[d] \in Statuses /\ u.status[d] \in Statuses
  BY <1>1, <1>5, <1>6 DEF Inv, Common, Kernel
<1>8. \A d \in Ctx \ {c} :
        /\ t.pid[d] = s.pid[d]
        /\ t.status[d] = "FREED" <=> s.status[d] = "FREED"
        /\ t.status[d] # "TERMINATED"
        /\ d \notin ToSet(s.waitingList[c]) => (t.status[d] = "BLOCKED" <=> s.status[d] = "BLOCKED")
        /\ t.status[d] # "FREED" => t.waitingList[d] = s.waitingList[d]
  <2>. SUFFICES ASSUME NEW d \in Ctx \ {c}
                PROVE  /\ t.pid[d] = s.pid[d]
                       /\ t.status[d] = "FREED" <=> s.status[d] = "FREED"
                       /\ t.status[d] # "TERMINATED"
                       /\ d \notin ToSet(s.waitingList[c]) =>
                            (t.status[d] = "BLOCKED" <=> s.status[d] = "BLOCKED")
                       /\ t.status[d] # "FREED" => t.waitingList[d] = s.waitingList[d]
    OBVIOUS
  <2>1. /\ t.pid[d] = u.pid[d] /\ t.status[d] # "TERMINATED"
        /\ t.status[d] = "FREED" <=> u.status[d] = "FREED"
        /\ t.status[d] = "BLOCKED" <=> u.status[d] = "BLOCKED"
    BY <1>6 DEF SteadyBut
  <2>2. u.status[d] = "FREED" <=> s.status[d] = "FREED"
    <3>1. d \in ToSet(s.waitingList[c]) => s.status[d] # "FREED"
      BY <1>4
    <3>. QED BY <1>5, <3>1
  <2>3. t.status[d] # "FREED" => t.waitingList[d] = u.waitingList[d]
    BY <1>6, <1>7, <2>1 DEF KeepsLists, Statuses
  <2>. QED BY <1>5, <2>1, <2>2, <2>3
<1>9. Undead(t)
  BY <1>6, <1>8 DEF Undead
<1>10. QueuesInOrder(t, m, home)
  <2>1. QueuesInOrder(s, m, home)
    BY <1>1 DEF Orderly
  <2>2. \A id \in SemIds, d \in Ctx : s.status[d] = "BLOCKED" /\ home[d] = id =>
            t.status[d] = "BLOCKED" /\ t.pid[d] = s.pid[d]
    BY <1>1, <1>4, <1>8
  <2>. QED BY <2>1, <2>2 DEF QueuesInOrder
<1>11. Orderly(t, m, home)
  BY <1>1, <1>6, <1>9, <1>10 DEF Orderly
<1>12. WaitersApart(t, home)
  <2>1. ASSUME NEW d \in Ctx, t.status[d] # "FREED"
        PROVE  /\ d # c /\ s.status[d] # "FREED" /\ t.waitingList[d] = s.waitingList[d]
               /\ \A w \in ToSet(s.waitingList[d]) : t.status[w] = "BLOCKED"
    <3>1. d # c /\ s.status[d] # "FREED" /\ t.waitingList[d] = s.waitingList[d]
      BY <1>6, <1>8, <2>1
    <3>2. ASSUME NEW w \in ToSet(s.waitingList[d]) PROVE t.status[w] = "BLOCKED"
      <4>1. w \in Ctx /\ s.status[w] = "BLOCKED" /\ w # c /\ w \notin ToSet(s.waitingList[c])
        BY <1>1, <3>1, <3>2 DEF WaitersApart
      <4>. QED BY <1>8, <4>1
    <3>. QED BY <3>1, <3>2
  <2>. QED BY <1>1, <2>1 DEF WaitersApart
<1>13. \A id \in SemIds : Awakened(t, home, id) = Awakened(s, home, id)
  <2>1. \A d \in Ctx : home[d] \in SemIds =>
            (s.status[d] \in {"READY", "RUNNING"} <=> t.status[d] \in {"READY", "RUNNING"})
    BY <1>1, <1>4, <1>7, <1>8 DEF Undead, Statuses, Live
  <2>. QED BY <2>1 DEF Awakened
<1>14. OnlyBlocks(s, t, c)
  BY <1>5, <1>6 DEF SteadyBut, OnlyBlocks
<1>. QED
  BY <1>6, <1>8, <1>11, <1>12, <1>13, <1>14 DEF Peaceful, Supply

\* The exit leaves the waiting lists of the others alone.
LEMMA ExitKeepsLists ==
    ASSUME NEW s, NEW m, NEW home, Peaceful(s, m, home), NEW c \in Ctx, c = s.currentProcess,
           s.pid[c] \in Targets, PipedFd(s, c) = -1,
           NEW u \in KillProcess(s, s.pid[c]), NEW t, t = Yield(u)
    PROVE  KeepsLists(s, t)
<1>1. /\ Inv(s) /\ Undead(s) /\ WaitersApart(s, home) /\ s.status[c] = "RUNNING" /\ s \in Kernel
  BY SchedulerAssumption DEF Peaceful, Orderly, Inv, Common, Cpu, Undead
<1>2. FindProcess(s, s.pid[c]) = c
  BY <1>1, FindsIt DEF Live
<1>3. u \in Kill(s, c)
  <2>1. ~ DetachFails(s, c) /\ c # NULL
    BY <1>1, DetachSucceeds, SchedulerAssumption DEF Inv, Common
  <2>2. \A x : KillPeer(x, -1) = {x}
    BY DEF KillPeer
  <2>. QED BY <1>2, <2>1, <2>2 DEF KillProcess
<1>4. \A w \in ToSet(s.waitingList[c]) : w \in Ctx /\ s.status[w] = "BLOCKED"
  BY <1>1 DEF WaitersApart
<1>5. /\ u.currentProcess = c /\ u.status[c] = "TERMINATED" /\ Inv(u)
      /\ \A d \in Ctx \ {c} :
            /\ u.pid[d] = s.pid[d] /\ u.waitingList[d] = s.waitingList[d]
            /\ d \notin ToSet(s.waitingList[c]) => u.status[d] = s.status[d]
            /\ u.status[d] = s.status[d] \/ u.status[d] = "READY"
  BY <1>1, <1>3, <1>4, SelfKilled
<1>6. \A d \in Ctx \ {c} : u.status[d] # "TERMINATED"
  BY <1>1, <1>5 DEF Undead
<1>7. KeepsLists(u, t) /\ t.status[c] = "FREED"
  BY <1>5, <1>6, YieldOverDead
<1>. QED
  BY <1>5, <1>7 DEF KeepsLists, Live

\* waitProcess: the caller joins the waiting list of the process it waits for.
LEMMA WaitJoins ==
    ASSUME NEW s, Inv(s), Undead(s), NEW c \in Ctx, c = s.currentProcess, s.pid[c] # IDLE_PID,
           NEW pid, NEW t, t = WaitProcess(s, pid), NEW d \in Ctx, s.status[d] # "FREED"
    PROVE  /\ \A w \in ToSet(s.waitingList[d]) : w \in ToSet(t.waitingList[d])
           /\ s.pid[d] = pid /\ d # c => c \in ToSet(t.waitingList[d])
<1>. DEFINE target == FindProcess(s, pid)
            u == [s EXCEPT !.waitingList[target] = Append(@, c)]
<1>1. /\ s.status[c] = "RUNNING" /\ s \in Kernel /\ s.currentPid = s.pid[c]
      /\ Identity(s) /\ s.status[d] \in Live
  BY SchedulerAssumption, LiveOrFreed DEF Inv, Common, Cpu, Undead
<1>2. FindProcess(s, s.currentPid) = c
  BY <1>1, FindsIt DEF Live
<1>3. s.pid[d] = pid /\ d # c => target = d /\ s.currentPid # pid
  BY <1>1, FindsIt DEF Identity, Live
<1>4. CASE target = NULL \/ s.currentPid = pid
  BY <1>1, <1>3, <1>4, SchedulerAssumption DEF WaitProcess
<1>5. CASE ~ (target = NULL \/ s.currentPid = pid)
  <2>1. target \in Ctx
    BY <1>1, <1>5, FindProcessProperty
  <2>2. t = BlockProcess(u, s.currentPid)
    BY <1>2, <1>5 DEF WaitProcess
  <2>. HIDE DEF target
  <2>3. u.waitingList = [s.waitingList EXCEPT ![target] = Append(@, c)]
    BY <1>1 DEF Kernel
  <2>4. u.waitingList \in [Ctx -> Seq(Ctx \cup {NULL})]
    BY <1>1, <2>1, <2>3 DEF Kernel
  <2>5. u \in Kernel
    BY <1>1, <2>3, <2>4 DEF Kernel
  <2>6. /\ SameProcesses(s, u)
        /\ u.readyProcess = s.readyProcess /\ u.blockedProcess = s.blockedProcess
        /\ u.status = s.status
    BY <1>1 DEF Kernel, SameProcesses
  <2>. HIDE DEF u
  <2>7. /\ Inv(u) /\ Undead(u) /\ c = u.currentProcess /\ u.pid[c] # IDLE_PID
        /\ t = BlockProcess(u, u.currentPid)
    BY <1>1, <2>2, <2>5, <2>6, OtherFieldsFrame DEF SameProcesses, Undead
  <2>8. KeepsLists(u, t)
    BY <2>7, CallerKeepsLists
  <2>9. t.status[d] \in Live
    <3>1. Inv(t) /\ Undead(t) /\ (t.status[d] = "FREED" <=> u.status[d] = "FREED")
      BY <2>7, CallerBlocks
    <3>. QED BY <2>6, <3>1, LiveOrFreed
  <2>10. t.waitingList[d] = u.waitingList[d]
    BY <2>8, <2>9 DEF KeepsLists
  <2>11. CASE d # target
    <3>1. u.waitingList[d] = s.waitingList[d]
      BY <1>1, <2>1, <2>3, <2>11 DEF Kernel
    <3>. QED BY <1>3, <2>10, <2>11, <3>1 DEF target
  <2>12. CASE d = target
    <3>1. u.waitingList[d] = Append(s.waitingList[d], c)
          /\ s.waitingList[d] \in Seq(Ctx \cup {NULL})
      BY <1>1, <2>1, <2>3, <2>12 DEF Kernel
    <3>2. Append(s.waitingList[d], c) \in Seq(Ctx \cup {NULL})
      BY <3>1
    <3>3. \A w : w \in ToSet(s.waitingList[d]) \/ w = c
                    => w \in ToSet(Append(s.waitingList[d], c))
      <4>. DEFINE q == s.waitingList[d]
      <4>1. /\ Len(Append(q, c)) = Len(q) + 1 /\ Append(q, c)[Len(q) + 1] = c
            /\ \A i \in 1 .. Len(q) : Append(q, c)[i] = q[i]
        BY <3>1
      <4>2. Len(q) \in Nat /\ q \in Seq(Ctx \cup {NULL})
        BY <3>1
      <4>. HIDE DEF q
      <4>3. /\ \A w : w \in ToSet(q) <=> \E i \in 1 .. Len(q) : q[i] = w
            /\ \A w : w \in ToSet(Append(q, c)) <=>
                        \E i \in 1 .. Len(Append(q, c)) : Append(q, c)[i] = w
        <5>1. Append(q, c) \in Seq(Ctx \cup {NULL})
          BY <3>2 DEF q
        <5>2. \A w : w \in ToSet(q) <=> \E i \in 1 .. Len(q) : q[i] = w
          BY <4>2, ToSetProperty
        <5>3. \A w : w \in ToSet(Append(q, c)) <=>
                    \E i \in 1 .. Len(Append(q, c)) : Append(q, c)[i] = w
          BY <5>1, ToSetProperty
        <5>. QED BY <5>2, <5>3
      <4>4. ASSUME NEW w, w \in ToSet(q) \/ w = c PROVE w \in ToSet(Append(q, c))
        <5>1. CASE w \in ToSet(q)
          <6>1. PICK i \in 1 .. Len(q) : q[i] = w
            BY <4>3, <5>1
          <6>. QED BY <4>1, <4>3, <4>2, <6>1
        <5>2. CASE w = c
          <6>1. Len(q) + 1 \in 1 .. Len(Append(q, c))
            BY <4>1, <4>2
          <6>. QED BY <4>1, <4>3, <5>2, <6>1
        <5>. QED BY <4>4, <5>1, <5>2
      <4>. QED BY <4>4 DEF q
    <3>. QED BY <2>10, <3>1, <3>3
  <2>. QED BY <2>11, <2>12
<1>. QED
  BY <1>4, <1>5

\* What the system calls on semaphores return is a state of the system.
LEMMA CallReturns ==
    \A s, m, id : /\ SemWait(Sys(s, m), id) = Sys(SemWait(Sys(s, m), id).k, SemWait(Sys(s, m), id).sems)
                  /\ SemPost(Sys(s, m), id) = Sys(SemPost(Sys(s, m), id).k, SemPost(Sys(s, m), id).sems)
<1>. TAKE s, m, id
<1>. DEFINE o == Sys(s, m)
<1>1. SemWait(o, id) = Sys(SemWait(o, id).k, SemWait(o, id).sems)
  <2>1. CASE o.sems[id].counter > 0
    <3>1. \E u : SemWait(o, id) = Sys(s, u)
      BY <2>1 DEF SemWait, Sys
    <3>. QED BY <3>1 DEF Sys
  <2>2. CASE ~ (o.sems[id].counter > 0)
    <3>1. \E t, u : SemWait(o, id) = Sys(t, u)
      BY <2>2 DEF SemWait, Sys
    <3>. QED BY <3>1 DEF Sys
  <2>. QED BY <2>1, <2>2
<1>2. SemPost(o, id) = Sys(SemPost(o, id).k, SemPost(o, id).sems)
  <2>1. \E t, u : SemPost(o, id) = Sys(t, u)
    BY DEF SemPost, Sys
  <2>. QED BY <2>1 DEF Sys
<1>. QED
  BY <1>1, <1>2

-----------------------------------------------------------------------------
(***************************************************************************)
(* Where nobody is connected to a pipe, the scheduler connects nobody.     *)
(***************************************************************************)
\* Then a process has no other end that exit would kill.
LEMMA NoPeer ==
    ASSUME NEW s, Inv(s), AtConsole(s), NEW c \in Ctx, s.status[c] \in Live, s.pid[c] # IDLE_PID
    PROVE  PipedFd(s, c) = -1
<1>1. << s.fdIn[c], s.fdOut[c] >> \in FdPairs
  BY DEF Inv, Common, Roles
<1>2. s.fdIn[c] \in {-1, STDIN} /\ s.fdOut[c] \in {-1, STDOUT}
  BY DEF AtConsole
<1>3. -1 \notin Pipes
  BY SchedulerAssumption
<1>4. s.fdIn[c] = STDIN /\ s.fdOut[c] = STDOUT
  BY <1>1, <1>2, <1>3 DEF FdPairs, STDIN, STDOUT
<1>. QED
  BY <1>4 DEF PipedFd

LEMMA ConsoleFree ==
    ASSUME NEW s \in Kernel, AtConsole(s), NEW c \in Ctx
    PROVE  AtConsole(FreeProcess(s, c))
<1>1. LET f == FreeProcess(s, c)
      IN  f.fdIn = [s.fdIn EXCEPT ![c] = -1] /\ f.fdOut = [s.fdOut EXCEPT ![c] = -1]
  BY FreeProcessFrame
<1>. QED
  BY <1>1 DEF AtConsole, Kernel

LEMMA ConsoleRetire ==
    ASSUME NEW s, Mid(s), AtConsole(s)
    PROVE  AtConsole(Retire(s))
<1>. DEFINE c == s.currentProcess
            t == Retire(s)
<1>1. s \in Kernel /\ c \in Ctx \cup {NULL}
  BY DEF Mid, Common, Kernel
<1>2. CASE c \in Ctx /\ s.status[c] = "TERMINATED"
  <2>. DEFINE f == FreeProcess(s, c)
  <2>1. t = [f EXCEPT !.currentProcess = NULL, !.currentPid = NO_PROCESS]
    BY <1>2, SchedulerAssumption DEF Retire
  <2>2. f \in Kernel /\ AtConsole(f)
    BY <1>1, <1>2, FreeProcessFrame, ConsoleFree
  <2>. HIDE DEF f
  <2>3. t.fdIn = f.fdIn /\ t.fdOut = f.fdOut
    BY <2>1, <2>2 DEF Kernel
  <2>. QED BY <2>2, <2>3 DEF AtConsole
<1>3. CASE ~ (c \in Ctx /\ s.status[c] = "TERMINATED")
  <2>1. t = s \/ t = [s EXCEPT !.status[c] = "READY", !.readyProcess = Append(@, c)]
    BY <1>1, <1>3 DEF Retire
  <2>2. t.fdIn = s.fdIn /\ t.fdOut = s.fdOut
    BY <1>1, <2>1 DEF Kernel
  <2>. QED BY <2>2 DEF AtConsole
<1>. QED
  BY <1>2, <1>3

LEMMA ConsoleDispatch ==
    ASSUME NEW s \in Kernel, AtConsole(s)
    PROVE  AtConsole(DispatchFirst(s))
<1>. DEFINE t == DispatchFirst(s)
<1>1. t.fdIn = s.fdIn /\ t.fdOut = s.fdOut
  BY DEF DispatchFirst, Dispatch, Kernel
<1>. QED
  BY <1>1 DEF AtConsole

LEMMA ConsoleSwitch ==
    ASSUME NEW s, Mid(s), AtConsole(s)
    PROVE  AtConsole(Switch(s))
<1>1. s \in Kernel
  BY DEF Mid, Common
<1>2. CASE s.currentPid = NO_PROCESS
  <2>1. s.currentProcess = NULL
    BY <1>2 DEF Mid, Common, CpuMid, Identity, Kernel, Pids, NO_PROCESS
  <2>2. Parked(s)
    BY <2>1, SchedulerAssumption DEF Mid, CpuMid, Parked
  <2>. QED BY <1>1, <1>2, <2>2, SomebodyReady, ConsoleDispatch DEF Switch
<1>3. CASE s.currentPid # NO_PROCESS
  <2>1. Parked(Retire(s)) /\ AtConsole(Retire(s)) /\ Retire(s) \in Kernel
    BY RetireParked, ConsoleRetire DEF Parked, Common
  <2>2. Switch(s) = DispatchFirst(Retire(s))
    BY <1>3, <2>1, SomebodyReady DEF Switch
  <2>. QED BY <2>1, <2>2, ConsoleDispatch
<1>. QED
  BY <1>2, <1>3

LEMMA ConsoleQuantum ==
    ASSUME NEW s \in Kernel, AtConsole(s), NEW q \in Int
    PROVE  AtConsole([s EXCEPT !.quantums = q])
<1>1. [s EXCEPT !.quantums = q].fdIn = s.fdIn /\ [s EXCEPT !.quantums = q].fdOut = s.fdOut
  BY DEF Kernel
<1>. QED
  BY <1>1 DEF AtConsole

LEMMA ConsoleSchedule ==
    ASSUME NEW s, Mid(s), AtConsole(s)
    PROVE  AtConsole(Schedule(s))
<1>. DEFINE t == [s EXCEPT !.quantums = s.quantums - 1]
<1>1. s \in Kernel /\ s.quantums - 1 \in Int
  BY DEF Mid, Common, Kernel
<1>2. [s EXCEPT !.quantums = @ - 1] = t
  BY <1>1 DEF Kernel
<1>3. Mid(t) /\ AtConsole(t)
  BY <1>1, QuantumFrame, ConsoleQuantum
<1>. HIDE DEF t
<1>4. Schedule(s) = t \/ Schedule(s) = Switch(t)
  BY <1>2 DEF Schedule
<1>. QED
  BY <1>3, <1>4, ConsoleSwitch

LEMMA ConsoleYield ==
    ASSUME NEW s, Mid(s), AtConsole(s)
    PROVE  AtConsole(Yield(s))
<1>1. s \in Kernel
  BY DEF Mid, Common
<1>2. Mid([s EXCEPT !.quantums = 0]) /\ AtConsole([s EXCEPT !.quantums = 0])
  BY <1>1, QuantumFrame, ConsoleQuantum
<1>. QED
  BY <1>2, ConsoleSchedule DEF Yield

\* blockProcess on the caller.
LEMMA ConsoleBlock ==
    ASSUME NEW s, Inv(s), Undead(s), AtConsole(s), NEW c \in Ctx, c = s.currentProcess,
           s.pid[c] # IDLE_PID
    PROVE  AtConsole(BlockProcess(s, s.currentPid))
<1>. DEFINE b == MoveToBlocked(s, c)
            d == Detach(s, c)
<1>1. s \in Kernel /\ Lists(s) /\ c # NULL /\ s.status[c] = "RUNNING" /\ s.currentPid = s.pid[c]
  BY SchedulerAssumption DEF Inv, Common, Cpu, Undead
<1>2. FindProcess(s, s.currentPid) = c
  BY <1>1, FindsIt DEF Live
<1>3. BlockProcess(s, s.currentPid) = Yield(b)
  BY <1>1, <1>2 DEF BlockProcess
<1>4. Mid(b)
  BY <1>1, MoveToBlockedInv
<1>5. d \in Kernel /\ d.fdIn = s.fdIn /\ d.fdOut = s.fdOut
  BY <1>1, DetachProperty DEF SameProcesses
<1>6. b = [d EXCEPT !.blockedProcess[c] = @ + 1, !.status[c] = "BLOCKED"]
  BY DEF MoveToBlocked
<1>. HIDE DEF b, d
<1>7. b.fdIn = s.fdIn /\ b.fdOut = s.fdOut
  BY <1>5, <1>6 DEF Kernel
<1>8. AtConsole(b)
  BY <1>7 DEF AtConsole
<1>. QED
  BY <1>3, <1>4, <1>8, ConsoleYield

LEMMA ConsoleWait ==
    ASSUME NEW s, Inv(s), Undead(s), AtConsole(s), NEW c \in Ctx, c = s.currentProcess,
           s.pid[c] # IDLE_PID, NEW pid
    PROVE  AtConsole(WaitProcess(s, pid))
<1>. DEFINE target == FindProcess(s, pid)
            self == FindProcess(s, s.currentPid)
            u == [s EXCEPT !.waitingList[target] = Append(@, self)]
<1>1. s \in Kernel /\ s.status[c] = "RUNNING" /\ s.currentPid = s.pid[c]
  BY SchedulerAssumption DEF Inv, Common, Cpu, Undead
<1>2. self = c
  BY <1>1, FindsIt DEF Live
<1>3. CASE target = NULL \/ s.currentPid = pid
  BY <1>3 DEF WaitProcess
<1>4. CASE ~ (target = NULL \/ s.currentPid = pid)
  <2>1. target \in Ctx
    BY <1>1, <1>4, FindProcessProperty
  <2>2. WaitProcess(s, pid) = BlockProcess(u, s.currentPid)
    BY <1>4 DEF WaitProcess
  <2>. HIDE DEF target, self
  <2>3. u.waitingList = [s.waitingList EXCEPT ![target] = Append(@, c)]
    BY <1>1, <1>2 DEF Kernel
  <2>4. u.waitingList \in [Ctx -> Seq(Ctx \cup {NULL})]
    BY <1>1, <2>1, <2>3 DEF Kernel
  <2>5. u \in Kernel
    BY <1>1, <2>3, <2>4 DEF Kernel
  <2>6. /\ SameProcesses(s, u)
        /\ u.readyProcess = s.readyProcess /\ u.blockedProcess = s.blockedProcess
        /\ u.status = s.status
    BY <1>1 DEF Kernel, SameProcesses
  <2>. HIDE DEF u
  <2>7. Inv(u) /\ Undead(u) /\ AtConsole(u)
    BY <2>5, <2>6, OtherFieldsFrame DEF SameProcesses, Undead, AtConsole
  <2>8. c = u.currentProcess /\ u.pid[c] # IDLE_PID /\ u.currentPid = s.currentPid
    BY <2>6 DEF SameProcesses
  <2>. QED BY <2>2, <2>7, <2>8, ConsoleBlock
<1>. QED
  BY <1>3, <1>4

\* syscall_exit.
LEMMA ConsoleExit ==
    ASSUME NEW s, Inv(s), Undead(s), AtConsole(s), NEW c \in Ctx, c = s.currentProcess,
           s.pid[c] \in Targets, NEW u \in KillProcess(s, s.pid[c])
    PROVE  AtConsole(Yield(u))
<1>1. s \in Kernel /\ s.status[c] = "RUNNING" /\ s.pid[c] # IDLE_PID
  BY SchedulerAssumption DEF Inv, Common, Cpu, Undead, Targets
<1>2. FindProcess(s, s.pid[c]) = c /\ PipedFd(s, c) = -1
  BY <1>1, FindsIt, NoPeer DEF Live
<1>3. u \in Kill(s, c)
  <2>1. ~ DetachFails(s, c) /\ c # NULL
    BY <1>1, DetachSucceeds, SchedulerAssumption DEF Inv, Common
  <2>2. \A x : KillPeer(x, -1) = {x}
    BY DEF KillPeer
  <2>. QED BY <1>2, <2>1, <2>2 DEF KillProcess
<1>4. Detach(s, c) = s
  BY <1>1 DEF Detach
<1>5. \E w : u = Bury(Wake(s, w), c)
  BY <1>1, <1>3, <1>4, DetachSucceeds DEF Kill, Inv, Common
<1>6. PICK w : u = Bury(Wake(s, w), c)
  BY <1>5
<1>7. \A x : Bury(Wake(s, x), c).fdIn = s.fdIn /\ Bury(Wake(s, x), c).fdOut = s.fdOut
  BY <1>1 DEF Bury, Wake, Kernel
<1>8. AtConsole(u)
  BY <1>6, <1>7 DEF AtConsole
<1>9. Mid(u)
  BY KillProcessInv, InvIsMid
<1>. QED
  BY <1>8, <1>9, ConsoleYield

-----------------------------------------------------------------------------
(***************************************************************************)
(* Processes that may be killed while they run.  Turn says that t has the  *)
(* processes of s, that the same ones are blocked, and that a dead one may *)
(* have been freed: what schedule() does, whoever it gives the processor   *)
(* to.  Unlike Steady it also says that who is left keeps its ground and   *)
(* its waiting list.                                                       *)
(***************************************************************************)
SameProcess(s, t, c) ==
    /\ t.pid[c] = s.pid[c] /\ t.ground[c] = s.ground[c]
    /\ t.waitingList[c] = s.waitingList[c]

\* The context c in both states.
Stays(s, t, c) ==
    /\ t.status[c] \in Live <=> s.status[c] \in Live
    /\ t.status[c] = "BLOCKED" <=> s.status[c] = "BLOCKED"
    /\ t.status[c] = "TERMINATED" => s.status[c] = "TERMINATED"
    /\ t.status[c] # "FREED" => SameProcess(s, t, c)

Turn(s, t) == \A c \in Ctx : Stays(s, t, c)

LEMMA TurnComposes ==
    ASSUME NEW s \in Kernel, NEW t \in Kernel, NEW u \in Kernel, Turn(s, t), Turn(t, u)
    PROVE  Turn(s, u)
<1>. SUFFICES ASSUME NEW c \in Ctx PROVE Stays(s, u, c)
  BY DEF Turn
<1>1. Stays(s, t, c) /\ Stays(t, u, c)
  BY DEF Turn
<1>2. s.status[c] \in Statuses /\ t.status[c] \in Statuses /\ u.status[c] \in Statuses
  BY DEF Kernel
<1>3. u.status[c] # "FREED" => t.status[c] # "FREED"
  BY <1>1, <1>2 DEF Stays, Statuses, Live
<1>. QED
  BY <1>1, <1>3 DEF Stays, SameProcess

LEMMA TurnUnchanged ==
    ASSUME NEW s, NEW t, t.status = s.status, t.pid = s.pid, t.ground = s.ground,
           t.waitingList = s.waitingList
    PROVE  Turn(s, t)
BY DEF Turn, Stays, SameProcess

LEMMA DispatchFirstTurn ==
    ASSUME NEW s, Parked(s)
    PROVE  Turn(s, DispatchFirst(s))
<1>. DEFINE c == Head(s.readyProcess)
            t == DispatchFirst(s)
<1>1. s \in Kernel /\ s.readyProcess \in Seq(Ctx) /\ s.readyProcess # << >>
  BY SomebodyReady DEF Parked, Common, Kernel
<1>2. c \in Ctx /\ s.status[c] = "READY"
  BY <1>1, TailProperty, ToSetProperty DEF Parked, Common, Lists
<1>. HIDE DEF c
<1>3. t = [s EXCEPT !.readyProcess   = Tail(@),
                    !.currentProcess = c,
                    !.currentPid     = s.pid[c],
                    !.quantums       = s.priority[c],
                    !.status[c]      = "RUNNING"]
  BY <1>1, <1>2 DEF DispatchFirst, Dispatch, Kernel, c
<1>4. /\ t.status = [s.status EXCEPT ![c] = "RUNNING"] /\ t.pid = s.pid
      /\ t.ground = s.ground /\ t.waitingList = s.waitingList
  BY <1>1, <1>3 DEF Kernel
<1>. HIDE DEF t
<1>5. \A d \in Ctx : t.status[d] = IF d = c THEN "RUNNING" ELSE s.status[d]
  BY <1>1, <1>2, <1>4 DEF Kernel
<1>6. Turn(s, t)
  BY <1>2, <1>4, <1>5 DEF Turn, Stays, SameProcess, Live
<1>. QED
  BY <1>6 DEF t

LEMMA RetireTurn ==
    ASSUME NEW s, Mid(s)
    PROVE  Turn(s, Retire(s))
<1>. DEFINE c == s.currentProcess
            t == Retire(s)
<1>1. s \in Kernel /\ c \in Ctx \cup {NULL}
  BY DEF Mid, Common, Kernel
<1>2. CASE c \in Ctx /\ s.status[c] = "RUNNING"
  <2>1. t = [s EXCEPT !.status[c] = "READY", !.readyProcess = Append(@, c)]
    BY <1>2, SchedulerAssumption DEF Retire
  <2>2. /\ t.status = [s.status EXCEPT ![c] = "READY"] /\ t.pid = s.pid
        /\ t.ground = s.ground /\ t.waitingList = s.waitingList
    BY <1>1, <2>1 DEF Kernel
  <2>. HIDE DEF t
  <2>3. \A d \in Ctx : t.status[d] = IF d = c THEN "READY" ELSE s.status[d]
    BY <1>1, <2>2 DEF Kernel
  <2>4. Turn(s, t)
    BY <1>2, <2>2, <2>3 DEF Turn, Stays, SameProcess, Live
  <2>. QED BY <2>4 DEF t
<1>3. CASE c \in Ctx /\ s.status[c] = "TERMINATED"
  <2>. DEFINE f == FreeProcess(s, c)
  <2>1. t = [f EXCEPT !.currentProcess = NULL, !.currentPid = NO_PROCESS]
    BY <1>3, SchedulerAssumption DEF Retire
  <2>2. /\ f \in Kernel /\ f.pid = [s.pid EXCEPT ![c] = NO_PROCESS]
        /\ f.ground = [s.ground EXCEPT ![c] = FOREGROUND]
    BY <1>1, <1>3, FreeProcessFrame
  <2>3. \A d \in Ctx : /\ f.status[d] = IF d = c THEN "FREED" ELSE s.status[d]
                       /\ d # c => f.waitingList[d] = s.waitingList[d]
    BY <1>1, <1>3, FreeProcessStatus
  <2>. HIDE DEF f
  <2>4. /\ t.pid = f.pid /\ t.ground = f.ground /\ t.waitingList = f.waitingList
        /\ t.status = f.status
    BY <2>1, <2>2 DEF Kernel
  <2>. HIDE DEF t
  <2>5. \A d \in Ctx : d # c => t.pid[d] = s.pid[d] /\ t.ground[d] = s.ground[d]
    BY <1>1, <2>2, <2>4 DEF Kernel
  <2>6. Turn(s, t)
    BY <1>3, <2>3, <2>4, <2>5 DEF Turn, Stays, SameProcess, Live
  <2>. QED BY <2>6 DEF t
<1>4. CASE ~ (c \in Ctx /\ s.status[c] \in {"RUNNING", "TERMINATED"})
  <2>1. t = s
    BY <1>1, <1>4 DEF Retire
  <2>. QED BY <2>1, TurnUnchanged
<1>. QED
  BY <1>2, <1>3, <1>4

LEMMA SwitchTurn ==
    ASSUME NEW s, Mid(s)
    PROVE  Turn(s, Switch(s))
<1>1. CASE s.currentPid = NO_PROCESS
  <2>1. s.currentProcess = NULL
    BY <1>1 DEF Mid, Common, CpuMid, Identity, Kernel, Pids, NO_PROCESS
  <2>2. Parked(s)
    BY <2>1, SchedulerAssumption DEF Mid, CpuMid, Parked
  <2>. QED BY <1>1, <2>2, SomebodyReady, DispatchFirstTurn DEF Switch
<1>2. CASE s.currentPid # NO_PROCESS
  <2>1. Parked(Retire(s)) /\ Turn(s, Retire(s))
    BY RetireParked, RetireTurn
  <2>2. Turn(Retire(s), DispatchFirst(Retire(s))) /\ Inv(DispatchFirst(Retire(s)))
    BY <2>1, DispatchFirstTurn, DispatchFirstInv
  <2>3. Switch(s) = DispatchFirst(Retire(s))
    BY <1>2, <2>1, SomebodyReady DEF Switch
  <2>4. s \in Kernel /\ Retire(s) \in Kernel /\ Switch(s) \in Kernel
    BY <2>1, <2>2, <2>3 DEF Mid, Parked, Inv, Common
  <2>. QED BY <2>1, <2>2, <2>3, <2>4, TurnComposes
<1>. QED
  BY <1>1, <1>2

LEMMA QuantumTurn ==
    ASSUME NEW s \in Kernel, NEW q \in Int, NEW t, Turn([s EXCEPT !.quantums = q], t)
    PROVE  Turn(s, t)
<1>. DEFINE u == [s EXCEPT !.quantums = q]
<1>1. /\ u.status = s.status /\ u.pid = s.pid /\ u.ground = s.ground
      /\ u.waitingList = s.waitingList
  BY DEF Kernel
<1>. HIDE DEF u
<1>2. Turn(u, t)
  BY DEF u
<1>. QED
  BY <1>1, <1>2 DEF Turn, Stays, SameProcess

\* A timer tick, and a yield whatever the handler did before it.
LEMMA ScheduleTurn ==
    ASSUME NEW s, Mid(s)
    PROVE  Turn(s, Schedule(s))
<1>. DEFINE t == [s EXCEPT !.quantums = s.quantums - 1]
<1>1. s \in Kernel /\ s.quantums - 1 \in Int
  BY DEF Mid, Common, Kernel
<1>2. [s EXCEPT !.quantums = @ - 1] = t
  BY <1>1 DEF Kernel
<1>3. Mid(t)
  BY <1>1, QuantumFrame
<1>4. Schedule(s) = t \/ Schedule(s) = Switch(t)
  BY <1>2 DEF Schedule
<1>5. Turn(t, Schedule(s))
  BY <1>3, <1>4, SwitchTurn, TurnUnchanged
<1>. QED
  BY <1>1, <1>5, QuantumTurn

LEMMA YieldTurn ==
    ASSUME NEW s, Mid(s)
    PROVE  Turn(s, Yield(s))
<1>1. s \in Kernel
  BY DEF Mid, Common
<1>2. Mid([s EXCEPT !.quantums = 0])
  BY <1>1, QuantumFrame
<1>3. Turn([s EXCEPT !.quantums = 0], Yield(s))
  BY <1>2, ScheduleTurn DEF Yield
<1>. QED
  BY <1>1, <1>3, QuantumTurn

\* A process that runs is alive, and so is everybody else who is not freed.
LEMMA RunningAlone ==
    ASSUME NEW s, Inv(s), NEW c \in Ctx, c = s.currentProcess, s.status[c] \in Live
    PROVE  /\ Undead(s) /\ s.status[c] = "RUNNING" /\ s.currentPid = s.pid[c]
           /\ FindProcess(s, s.currentPid) = c
<1>1. c # NULL
  BY SchedulerAssumption
<1>2. s.status[c] = "RUNNING" /\ s.currentPid = s.pid[c]
  BY <1>1 DEF Inv, Cpu, Live
<1>3. \A d \in Ctx : s.status[d] = "TERMINATED" => d = c
  BY DEF Inv, Cpu
<1>. QED
  BY <1>2, <1>3, FindsIt DEF Undead

\* blockProcess on the caller.
LEMMA CallerTurns ==
    ASSUME NEW s, Inv(s), NEW c \in Ctx, c = s.currentProcess, s.status[c] \in Live,
           s.pid[c] # IDLE_PID, NEW t, t = BlockProcess(s, s.currentPid)
    PROVE  /\ Inv(t) /\ t.currentProcess # c /\ t.status[c] = "BLOCKED"
           /\ SameProcess(s, t, c) /\ \A d \in Ctx \ {c} : Stays(s, t, d)
<1>1. Undead(s) /\ s.status[c] = "RUNNING" /\ FindProcess(s, s.currentPid) = c /\ s \in Kernel
  BY RunningAlone DEF Inv, Common
<1>2. Inv(t) /\ t.currentProcess # c /\ t.status[c] = "BLOCKED"
  BY <1>1, CallerBlocks
<1>. DEFINE b == MoveToBlocked(s, c)
            d == Detach(s, c)
<1>3. t = Yield(b) /\ Mid(b)
  <2>1. s.currentPid = s.pid[c] /\ c # NULL
    BY RunningAlone, SchedulerAssumption
  <2>2. Mid(b)
    BY <1>1, MoveToBlockedInv
  <2>. QED BY <1>1, <2>1, <2>2 DEF BlockProcess
<1>4. d \in Kernel /\ SameProcesses(s, d) /\ d.status = s.status /\ d.waitingList = s.waitingList
  BY <1>1, DetachProperty, WaitingListFrame DEF Inv, Common
<1>5. b = [d EXCEPT !.blockedProcess[c] = @ + 1, !.status[c] = "BLOCKED"]
  BY DEF MoveToBlocked
<1>. HIDE DEF b, d
<1>6. /\ b.status = [s.status EXCEPT ![c] = "BLOCKED"] /\ b.pid = s.pid /\ b.ground = s.ground
      /\ b.waitingList = s.waitingList
  BY <1>4, <1>5 DEF Kernel, SameProcesses
<1>7. \A e \in Ctx : b.status[e] = IF e = c THEN "BLOCKED" ELSE s.status[e]
  BY <1>1, <1>6 DEF Kernel
<1>8. Turn(b, t)
  BY <1>3, YieldTurn
<1>9. SameProcess(s, t, c)
  BY <1>2, <1>6, <1>8 DEF Turn, Stays, SameProcess
<1>10. \A e \in Ctx \ {c} : Stays(s, t, e)
  BY <1>6, <1>7, <1>8 DEF Turn, Stays, SameProcess
<1>. QED
  BY <1>2, <1>9, <1>10

\* setReadyProcess on a process that is blocked.
LEMMA WaiterTurns ==
    ASSUME NEW s, Inv(s), NEW c \in Ctx, s.status[c] = "BLOCKED",
           NEW t, t = SetReadyProcess(s, s.pid[c])
    PROVE  /\ Inv(t) /\ t.currentProcess = s.currentProcess
           /\ t.fdIn = s.fdIn /\ t.fdOut = s.fdOut
           /\ \A d \in Ctx : /\ SameProcess(s, t, d)
                             /\ t.status[d] = IF d = c THEN "READY" ELSE s.status[d]
<1>1. /\ Inv(t) /\ SameProcesses(s, t)
      /\ \A d \in Ctx : t.status[d] = IF d = c THEN "READY" ELSE s.status[d]
  BY WaiterWakes
<1>2. t.waitingList = s.waitingList
  <2>1. t = s \/ \E w : t = Wake(s, w)
    BY DEF SetReadyProcess
  <2>2. s \in Kernel
    BY DEF Inv, Common
  <2>3. \A w : Wake(s, w).waitingList = s.waitingList
    BY <2>2 DEF Wake, Kernel
  <2>. QED BY <2>1, <2>3
<1>. QED
  BY <1>1, <1>2 DEF SameProcesses, SameProcess

\* kill() of any process, when nobody but x, which lives, is in its waiting list:
\* it is dead, x is woken if it was there, and nobody else notices.
LEMMA Killed ==
    ASSUME NEW s, Inv(s), NEW c \in Ctx, s.status[c] \in Live, s.pid[c] \in Targets,
           NEW x \in Ctx, x # c, s.status[x] \in Live,
           \A w \in ToSet(s.waitingList[c]) : w = x,
           NEW t \in Kill(s, c)
    PROVE  /\ Inv(t) /\ t.currentProcess = s.currentProcess
           /\ t.status[c] = IF s.currentProcess = c THEN "TERMINATED" ELSE "FREED"
           /\ s.currentProcess = c => SameProcess(s, t, c)
           /\ \A d \in Ctx \ {c} :
                /\ SameProcess(s, t, d)
                /\ t.status[d] = IF /\ d = x /\ s.status[x] = "BLOCKED"
                                    /\ x \in ToSet(s.waitingList[c])
                                 THEN "READY" ELSE s.status[d]
           /\ AtConsole(s) => AtConsole(t)
<1>. DEFINE d0      == Detach(s, c)
            list    == s.waitingList[c]
<1>1. /\ s \in Kernel /\ Lists(s) /\ Identity(s) /\ c \in ToSet(s.processList)
      /\ list \in Seq(Ctx \cup {NULL}) /\ x # NULL
  BY SchedulerAssumption, SMTT(40) DEF Inv, Common, Lists, Kernel
<1>2. /\ d0 \in Kernel /\ ListsBut(d0, c) /\ SameProcesses(s, d0)
      /\ d0.status = s.status /\ d0.waitingList = s.waitingList
  BY <1>1, DetachProperty, WaitingListFrame
<1>3. Dangling(s, c) = {}
  BY DEF Dangling, Live
<1>4. PICK stale \in [Dangling(s, c) -> StalePids] :
        \E w \in WakeOrders(d0, Waiters(d0, c, stale)) : t = Bury(Wake(d0, w), c)
  BY <1>1, DetachSucceeds DEF Kill
<1>5. PICK w \in WakeOrders(d0, Waiters(d0, c, stale)) : t = Bury(Wake(d0, w), c)
  BY <1>4
<1>. DEFINE waiters == Waiters(d0, c, stale)
            v       == Wake(d0, w)
<1>6. FindProcess(d0, d0.pid[x]) = x
  <2>1. FindProcess(s, s.pid[x]) = x
    BY FindsIt
  <2>. QED BY <1>2, <2>1 DEF FindProcess, SameProcesses
<1>. HIDE DEF d0
<1>7. \A i \in DOMAIN list : waiters[i] = x /\ list[i] = x
  <2>. SUFFICES ASSUME NEW i \in DOMAIN list PROVE waiters[i] = x /\ list[i] = x
    OBVIOUS
  <2>1. list[i] = x
    BY DEF ToSet
  <2>2. d0.status[x] # "FREED" /\ d0.waitingList[c] = list
    BY <1>2 DEF Live
  <2>. QED BY <1>1, <1>6, <2>1, <2>2 DEF Waiters
<1>8. DOMAIN waiters = DOMAIN list /\ DOMAIN waiters \subseteq Nat
  BY <1>1, <1>2 DEF Waiters
<1>. HIDE DEF waiters, list
<1>9. \A y \in ToSet(waiters) : y = x
  BY <1>7, <1>8 DEF ToSet
<1>10. x \in ToSet(list) => x \in ToSet(waiters)
  BY <1>7, <1>8 DEF ToSet
<1>11. /\ w \in WakeOrders(d0, waiters)
       /\ w \in Seq(Ctx) /\ IsInjective(w) /\ \A e \in ToSet(w) : CanWake(d0, e)
  <2>1. ToSet(waiters) \subseteq Ctx \cup {NULL}
    BY <1>9
  <2>2. w \in WakeOrders(d0, waiters)
    BY <1>5 DEF waiters
  <2>. QED BY <1>8, <2>1, <2>2, WakeOrdersProperty
<1>12. \A e \in ToSet(w) : e = x /\ x \in ToSet(list)
  <2>. DEFINE W == {e \in ToSet(waiters) : CanWake(d0, e)}
  <2>1. w \in [1 .. Cardinality(W) -> W]
    BY <1>11 DEF WakeOrders
  <2>2. \A e \in W : e = x /\ x \in ToSet(list)
    <3>1. ToSet(waiters) # {} => x \in ToSet(list)
      BY <1>7, <1>8 DEF ToSet
    <3>. QED BY <1>9, <3>1
  <2>. HIDE DEF W
  <2>. QED BY <2>1, <2>2 DEF ToSet
<1>13. s.status[x] = "BLOCKED" /\ x \in ToSet(list) => x \in ToSet(w)
  <2>. SUFFICES ASSUME s.status[x] = "BLOCKED", x \in ToSet(list) PROVE x \in ToSet(w)
    OBVIOUS
  <2>1. CanWake(d0, x)
    BY <1>1, <1>2 DEF CanWake, ListsBut
  <2>2. ToSet(waiters) \subseteq Ctx \cup {NULL}
    BY <1>9
  <2>. QED BY <1>8, <1>10, <1>11, <2>1, <2>2, WakeOrdersCover
<1>14. /\ v \in Kernel /\ SameProcesses(d0, v) /\ v.waitingList = d0.waitingList
       /\ \A e \in Ctx :
            /\ e \in ToSet(w) => d0.status[e] = "BLOCKED" /\ v.status[e] = "READY"
            /\ e \notin ToSet(w) => v.status[e] = d0.status[e]
  BY <1>2, <1>11, WakeProperty, WaitingListFrame
<1>15. \A e \in Ctx : v.status[e] = IF /\ e = x /\ s.status[x] = "BLOCKED"
                                       /\ x \in ToSet(list)
                                    THEN "READY" ELSE s.status[e]
  BY <1>2, <1>12, <1>13, <1>14
<1>16. /\ v.pid = s.pid /\ v.ground = s.ground /\ v.waitingList = s.waitingList
       /\ v.fdIn = s.fdIn /\ v.fdOut = s.fdOut /\ v.currentProcess = s.currentProcess
  BY <1>2, <1>14 DEF SameProcesses
<1>17. Inv(t) /\ t = Bury(v, c)
  BY <1>1, <1>5, KillInv
<1>. HIDE DEF v
<1>. DEFINE b == [v EXCEPT !.processList = RemoveFirst(@, c),
                           !.status[c]   = "TERMINATED",
                           !.processQty  = @ - 1]
<1>18. t = IF v.currentProcess = c THEN b ELSE FreeProcess(b, c)
  BY <1>17 DEF Bury
<1>19. /\ b.pid = v.pid /\ b.ground = v.ground /\ b.waitingList = v.waitingList
       /\ b.fdIn = v.fdIn /\ b.fdOut = v.fdOut /\ b.currentProcess = v.currentProcess
       /\ b.status = [v.status EXCEPT ![c] = "TERMINATED"]
  BY <1>14 DEF Kernel
<1>. HIDE DEF b
<1>20. b.status[c] = "TERMINATED" /\ \A e \in Ctx : e # c => b.status[e] = v.status[e]
  BY <1>14, <1>19 DEF Kernel
<1>21. CASE s.currentProcess = c
  <2>1. t = b
    BY <1>16, <1>18, <1>21
  <2>2. \A e \in Ctx : SameProcess(s, t, e)
    BY <1>16, <1>19, <2>1 DEF SameProcess
  <2>3. AtConsole(s) => AtConsole(t)
    BY <1>16, <1>19, <2>1 DEF AtConsole
  <2>4. t.currentProcess = s.currentProcess
    BY <1>16, <1>19, <2>1
  <2>. QED
    BY <1>15, <1>17, <1>20, <1>21, <2>1, <2>2, <2>3, <2>4 DEF list
<1>22. CASE s.currentProcess # c
  <2>1. t = [b EXCEPT !.pid[c] = NO_PROCESS, !.priority[c] = MIN_PRIORITY,
                      !.ground[c] = FOREGROUND, !.fdIn[c] = -1, !.fdOut[c] = -1,
                      !.status[c] = "FREED", !.waitingList[c] = << >>]
    BY <1>16, <1>18, <1>22 DEF FreeProcess
  <2>2. /\ t.pid = [b.pid EXCEPT ![c] = NO_PROCESS]
        /\ t.ground = [b.ground EXCEPT ![c] = FOREGROUND]
        /\ t.waitingList = [b.waitingList EXCEPT ![c] = << >>]
        /\ t.fdIn = [b.fdIn EXCEPT ![c] = -1] /\ t.fdOut = [b.fdOut EXCEPT ![c] = -1]
        /\ t.status = [b.status EXCEPT ![c] = "FREED"]
        /\ t.currentProcess = b.currentProcess
    <3>1. DOMAIN b = DOMAIN v /\ DOMAIN v = DOMAIN s
      BY <1>1, <1>14 DEF b, Kernel
    <3>. QED BY <1>1, <2>1, <3>1 DEF Kernel
  <2>3. /\ t.status[c] = "FREED"
        /\ \A e \in Ctx : e # c => t.status[e] = b.status[e] /\ SameProcess(s, t, e)
    BY <1>1, <1>14, <1>16, <1>19, <2>2 DEF Kernel, SameProcess
  <2>4. AtConsole(s) => AtConsole(t)
    BY <1>1, <1>16, <1>19, <2>2 DEF AtConsole, Kernel
  <2>5. t.currentProcess = s.currentProcess
    BY <1>16, <1>19, <2>2
  <2>. QED
    BY <1>15, <1>17, <1>20, <1>22, <2>3, <2>4, <2>5 DEF list
<1>. QED
  BY <1>21, <1>22

-----------------------------------------------------------------------------
(***************************************************************************)
(* What the programs at the console do to each other: kill, create, wait.  *)
(***************************************************************************)
\* The pids of the processes that live are different.
LEMMA PidsDiffer ==
    ASSUME NEW s, Inv(s), NEW c \in Ctx, NEW d \in Ctx, s.status[c] \in Live,
           s.status[d] \in Live, s.pid[c] = s.pid[d]
    PROVE  c = d
BY DEF Inv, Common, Identity

LEMMA StatusType ==
    ASSUME NEW s, Inv(s), NEW c \in Ctx
    PROVE  s.status[c] \in {"READY", "RUNNING", "BLOCKED", "TERMINATED", "FREED"}
BY DEF Inv, Common, Kernel, Statuses, Live

\* kill() of a process that is not idle is all there is to killProcess.
LEMMA KillsOnly ==
    ASSUME NEW s, Inv(s), AtConsole(s), NEW c \in Ctx, s.status[c] \in Live,
           s.pid[c] # IDLE_PID, NEW t \in KillProcess(s, s.pid[c])
    PROVE  t \in Kill(s, c)
<1>1. FindProcess(s, s.pid[c]) = c /\ s \in Kernel /\ Lists(s) /\ c # NULL
  BY FindsIt, SchedulerAssumption DEF Inv, Common
<1>2. ~ DetachFails(s, c)
  BY <1>1, DetachSucceeds
<1>3. PipedFd(s, c) = -1
  BY NoPeer
<1>4. \A u : KillPeer(u, PipedFd(s, c)) = {u}
  BY <1>3 DEF KillPeer
<1>. QED
  BY <1>1, <1>2, <1>4 DEF KillProcess

\* How the shell creates a program that is connected to no pipe.
ConsoleProgram(ground) == [priority |-> 1, ground |-> ground, fds |-> << STDIN, STDOUT >>]

LEMMA ConsoleProgramType ==
    ASSUME NEW ground \in Grounds
    PROVE  /\ ConsoleProgram(ground) \in AnyProgram
           /\ ConsoleProgram(ground).fds[1] = STDIN /\ ConsoleProgram(ground).fds[2] = STDOUT
<1>1. 1 \in Priorities /\ << STDIN, STDOUT >> \in FdPairs
  BY SchedulerAssumption DEF Priorities, MIN_PRIORITY, FdPairs
<1>. QED
  BY <1>1 DEF ConsoleProgram, AnyProgram

\* The process that is created, and the others.
LEMMA ConsoleCreated ==
    ASSUME NEW s, Inv(s), AtConsole(s), NEW c \in Ctx, s.status[c] = "FREED",
           NEW pid \in Pids, IsMinFreePid(s, pid), NEW ground \in Grounds,
           NEW t, t = CreateProcess(s, c, pid, ConsoleProgram(ground))
    PROVE  /\ Inv(t) /\ AtConsole(t)
           /\ t.status[c] = "READY" /\ t.pid[c] = pid /\ pid # IDLE_PID
           /\ t.ground[c] = ground /\ t.waitingList[c] = << >>
           /\ \A d \in Ctx : d # c => t.status[d] = s.status[d] /\ SameProcess(s, t, d)
<1>1. s \in Kernel /\ Lists(s) /\ s.processQty = Len(s.processList)
  BY DEF Inv, Common, Identity
<1>2. ASSUME NEW priority \in Priorities, NEW in \in Fds, NEW out \in Fds, priority = 1,
             in = STDIN, out = STDOUT
      PROVE  /\ t.ground[c] = ground
             /\ \A d \in Ctx : d # c => t.ground[d] = s.ground[d]
  <2>1. t = CreateProcess(s, c, pid, [priority |-> priority, ground |-> ground,
                                      fds |-> << in, out >>])
    BY <1>2 DEF ConsoleProgram
  <2>. QED BY <1>1, <2>1, CreateProcessFrame
<1>3. /\ t.ground[c] = ground
      /\ \A d \in Ctx : d # c => t.ground[d] = s.ground[d]
  <2>1. 1 \in Priorities /\ STDIN \in Fds /\ STDOUT \in Fds
    BY SchedulerAssumption DEF Priorities, MIN_PRIORITY, Fds
  <2>. QED BY <1>2, <2>1
<1>4. /\ ConsoleProgram(ground) \in AnyProgram
      /\ ConsoleProgram(ground).fds[1] = STDIN /\ ConsoleProgram(ground).fds[2] = STDOUT
  BY ConsoleProgramType
<1>5. /\ Inv(t) /\ t.status[c] = "READY" /\ t.pid[c] = pid /\ pid # IDLE_PID
      /\ t.fdIn[c] = STDIN /\ t.fdOut[c] = STDOUT
      /\ \A d \in Ctx : d # c =>
            /\ t.status[d] = s.status[d] /\ t.pid[d] = s.pid[d]
            /\ t.fdIn[d] = s.fdIn[d] /\ t.fdOut[d] = s.fdOut[d]
  BY <1>4, ProcessCreated
<1>6. /\ t.waitingList[c] = << >>
      /\ \A d \in Ctx : d # c => t.waitingList[d] = s.waitingList[d]
  BY <1>1, CreateWaitingList
<1>7. AtConsole(t)
  BY <1>5 DEF AtConsole
<1>. QED
  BY <1>3, <1>5, <1>6, <1>7 DEF SameProcess

\* sh registers as the one that waits for cat.
Registers(s, cat, sh, u) == u = [s EXCEPT !.waitingList[cat] = Append(@, sh)]

Unawaited(s, c) == ToSet(s.waitingList[c]) = {}

LEMMA EmptyList ==
    ASSUME NEW S, NEW list \in Seq(S), ToSet(list) = {}, NEW c \in S
    PROVE  Append(list, c) \in Seq(S) /\ \A w : w \in ToSet(Append(list, c)) <=> w = c
<1>1. IsInjective(list) /\ c \notin ToSet(list)
  BY DEF ToSet, IsInjective
<1>. QED
  BY <1>1, AppendProperty

LEMMA Registered ==
    ASSUME NEW s \in Kernel, NEW cat \in Ctx, NEW sh \in Ctx, Unawaited(s, cat),
           NEW u, Registers(s, cat, sh, u)
    PROVE  /\ u \in Kernel /\ SameProcesses(s, u) /\ u.readyProcess = s.readyProcess
           /\ u.blockedProcess = s.blockedProcess /\ u.status = s.status
           /\ \A w : w \in ToSet(u.waitingList[cat]) <=> w = sh
           /\ \A d \in Ctx : d # cat => u.waitingList[d] = s.waitingList[d]
<1>. DEFINE list == Append(s.waitingList[cat], sh)
<1>1. s.waitingList \in [Ctx -> Seq(Ctx \cup {NULL})] /\ sh \in Ctx \cup {NULL}
  BY DEF Kernel
<1>2. list \in Seq(Ctx \cup {NULL}) /\ \A w : w \in ToSet(list) <=> w = sh
  <2>1. s.waitingList[cat] \in Seq(Ctx \cup {NULL})
    BY <1>1
  <2>. QED BY <1>1, <2>1, EmptyList DEF Unawaited
<1>3. u = [s EXCEPT !.waitingList[cat] = list]
  BY DEF Registers
<1>. HIDE DEF list
<1>4. u \in Kernel
  BY <1>1, <1>2, <1>3 DEF Kernel
<1>5. /\ SameProcesses(s, u) /\ u.readyProcess = s.readyProcess
      /\ u.blockedProcess = s.blockedProcess /\ u.status = s.status
      /\ u.waitingList = [s.waitingList EXCEPT ![cat] = list]
  BY <1>3 DEF Kernel, SameProcesses
<1>6. \A d \in Ctx : u.waitingList[d] = IF d = cat THEN list ELSE s.waitingList[d]
  BY <1>1, <1>5
<1>. QED
  BY <1>2, <1>4, <1>5, <1>6

\* waitProcess for cat: its waiting list is empty, and the shell blocks.
LEMMA WaitForm ==
    ASSUME NEW s, Inv(s), NEW cat \in Ctx, s.status[cat] \in Live, NEW sh \in Ctx,
           FindProcess(s, s.currentPid) = sh, s.currentPid # s.pid[cat],
           Unawaited(s, cat), NEW u, Registers(s, cat, sh, u)
    PROVE  /\ WaitProcess(s, s.pid[cat]) = BlockProcess(u, u.currentPid)
           /\ Inv(u) /\ u.currentProcess = s.currentProcess
           /\ u.pid = s.pid /\ u.status = s.status /\ u.ground = s.ground
           /\ \A w : w \in ToSet(u.waitingList[cat]) <=> w = sh
           /\ \A d \in Ctx : d # cat => u.waitingList[d] = s.waitingList[d]
<1>1. s \in Kernel /\ FindProcess(s, s.pid[cat]) = cat /\ cat # NULL
  BY FindsIt, SchedulerAssumption DEF Inv, Common
<1>2. /\ u \in Kernel /\ SameProcesses(s, u) /\ u.readyProcess = s.readyProcess
      /\ u.blockedProcess = s.blockedProcess /\ u.status = s.status
      /\ \A w : w \in ToSet(u.waitingList[cat]) <=> w = sh
      /\ \A d \in Ctx : d # cat => u.waitingList[d] = s.waitingList[d]
  BY <1>1, Registered
<1>3. Inv(u)
  BY <1>2, OtherFieldsFrame
<1>4. WaitProcess(s, s.pid[cat]) = BlockProcess(u, u.currentPid)
  <2>1. u.currentPid = s.currentPid
    BY <1>2 DEF SameProcesses
  <2>. QED BY <1>1, <2>1 DEF WaitProcess, Registers
<1>. QED
  BY <1>2, <1>3, <1>4 DEF SameProcesses

\* sh is blocked behind cat, and nobody else waits for that one.
BlockedBehind(s, sh, cat, t) ==
    /\ Inv(t) /\ AtConsole(t) /\ t.status[sh] = "BLOCKED" /\ t.pid[sh] = s.pid[sh]
    /\ \A d \in Ctx :
        /\ t.status[d] \in Live <=> s.status[d] \in Live
        /\ d # sh => (t.status[d] = "BLOCKED" <=> s.status[d] = "BLOCKED")
        /\ t.status[d] # "TERMINATED"
        /\ t.status[d] # "FREED" => /\ t.pid[d] = s.pid[d] /\ t.ground[d] = s.ground[d]
                                    /\ d # cat => t.waitingList[d] = s.waitingList[d]
    /\ sh \in ToSet(t.waitingList[cat]) /\ \A w \in ToSet(t.waitingList[cat]) : w = sh

LEMMA CallerWaits ==
    ASSUME NEW s, Inv(s), AtConsole(s), NEW sh \in Ctx, sh = s.currentProcess,
           s.status[sh] \in Live, s.pid[sh] # IDLE_PID,
           NEW cat \in Ctx, cat # sh, s.status[cat] \in Live, Unawaited(s, cat),
           NEW t, t = WaitProcess(s, s.pid[cat])
    PROVE  BlockedBehind(s, sh, cat, t)
<1>1. /\ Undead(s) /\ s.status[sh] = "RUNNING" /\ s.currentPid = s.pid[sh]
      /\ FindProcess(s, s.currentPid) = sh
  BY RunningAlone
<1>2. s.currentPid # s.pid[cat]
  BY <1>1, PidsDiffer
<1>0. PICK u : Registers(s, cat, sh, u)
  BY DEF Registers
<1>3. /\ t = BlockProcess(u, u.currentPid)
      /\ Inv(u) /\ u.currentProcess = s.currentProcess
      /\ u.pid = s.pid /\ u.status = s.status /\ u.ground = s.ground
      /\ \A w : w \in ToSet(u.waitingList[cat]) <=> w = sh
      /\ \A d \in Ctx : d # cat => u.waitingList[d] = s.waitingList[d]
  BY <1>0, <1>1, <1>2, WaitForm
<1>4. /\ Inv(t) /\ t.status[sh] = "BLOCKED"
      /\ SameProcess(u, t, sh) /\ \A d \in Ctx \ {sh} : Stays(u, t, d)
  BY <1>3, CallerTurns
<1>5. AtConsole(t)
  BY <1>1, ConsoleWait
<1>6. \A d \in Ctx : t.status[d] # "FREED" => SameProcess(u, t, d)
  BY <1>4 DEF Stays
<1>7. \A d \in Ctx :
        /\ t.status[d] \in Live <=> s.status[d] \in Live
        /\ d # sh => (t.status[d] = "BLOCKED" <=> s.status[d] = "BLOCKED")
        /\ t.status[d] # "TERMINATED"
  BY <1>1, <1>3, <1>4 DEF Stays, Undead, Live
<1>8. t.status[cat] # "FREED" /\ t.pid[sh] = s.pid[sh]
  BY <1>3, <1>4, <1>7 DEF Live, SameProcess
<1>. QED
  BY <1>3, <1>4, <1>5, <1>6, <1>7, <1>8 DEF BlockedBehind, SameProcess

=============================================================================
