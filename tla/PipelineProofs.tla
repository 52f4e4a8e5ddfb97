---------------------------- MODULE PipelineProofs ----------------------------
(***************************************************************************)
(* The shell prompts again only when a pipeline is over: both processes    *)
(* are gone, Ctrl+C or not, and no pipe is left that could be used, for    *)
(* every grounds of the two commands and every size of the system.         *)
(*                                                                         *)
(* What happens while the shell waits is told by a relation between the    *)
(* scheduler states before and after a handler (Passes): nobody is         *)
(* created, and the shell is woken by a death it waited for only.  The     *)
(* semaphores are kept apart by their numbers (Tidy), so that the mutex of *)
(* the pipe is free and the shell never waits for it.                      *)
(***************************************************************************)
EXTENDS Pipeline, PipeProofs

-----------------------------------------------------------------------------
(***************************************************************************)
(* The inductive invariant; sh is the context of the shell.                *)
(***************************************************************************)
LiveIn(s, c) == s.status[c] \in Live

\* Somebody sh waited for has died.
Freed(s, t, sh) ==
    \E c \in Ctx : LiveIn(s, c) /\ ~ LiveIn(t, c) /\ sh \in ToSet(s.waitingList[c])

\* What handlers do to the processes while the shell does nothing.
Passes(s, t, sh) ==
    /\ \A c \in Ctx :
        /\ t.status[c] # "FREED" => s.status[c] # "FREED" /\ t.pid[c] = s.pid[c]
        /\ LiveIn(t, c) => LiveIn(s, c) /\ t.waitingList[c] = s.waitingList[c]
    /\ LiveIn(s, sh) => LiveIn(t, sh)
    /\ s.status[sh] # "BLOCKED" => t.status[sh] # "BLOCKED"
    /\ s.status[sh] = "BLOCKED" /\ t.status[sh] # "BLOCKED" => Freed(s, t, sh)

\* Only the shell waits for anybody.
IsShell(s, sh) ==
    /\ sh \in Ctx /\ LiveIn(s, sh) /\ s.pid[sh] = SHELL_PID
    /\ \A c \in Ctx : LiveIn(s, c) => \A w \in ToSet(s.waitingList[c]) : w = sh

Awaits(s, sh, c) == sh \in ToSet(s.waitingList[c])

\* The processes of the line that may live while the shell is at label.
Expected(label, p, pid) ==
    CASE label \in {"prompt", "start1"} -> FALSE
      [] label = "start2"               -> p[1] \in {0, pid}
      [] label \in {"wait1", "wait2"}   -> p[1] \in {0, pid} \/ p[2] \in {0, pid}
      [] label = "close"                -> p[2] \in {0, pid}

\* Whom the shell, being at label, has just waited for.
Target(label, p, pid) ==
    \/ label = "wait2" /\ p[1] = pid
    \/ label = "close" /\ p[2] = pid

ShellPoints == {"prompt", "start1", "start2", "wait1", "wait2", "close"}

Family(s, at, p, sh) ==
    /\ at[sh] \in ShellPoints
    /\ \A c \in Ctx \ {sh} : at[c] \in {"none", "write", "read"}
    /\ p \in [1 .. 2 -> (Pids \ {SHELL_PID}) \cup {NO_PROCESS}]
    /\ \A c \in Ctx \ {sh} : LiveIn(s, c) =>
        /\ s.pid[c] # IDLE_PID => Expected(at[sh], p, s.pid[c])
        /\ Target(at[sh], p, s.pid[c]) <=> Awaits(s, sh, c)
        /\ Awaits(s, sh, c) => s.status[sh] = "BLOCKED"

Usable(p) == p.isOpen /\ p.mutex \in SemIds

\* The pipes in S are those whose mutex the running process has.
Tidy(m, P, n, S) ==
    /\ m \in [SemIds -> Semaphore] /\ P \in [Slots -> Pipe]
    /\ n \in Nat /\ n >= FIRST_SEM /\ Unused(m, n)
    /\ \A id \in SemIds : SHELL_PID \notin ToSet(m[id].waitQueue)
    /\ \A i \in Slots : P[i].semReaders < n /\ P[i].semWriters < n /\ P[i].mutex < n
    /\ \A i \in Slots : Usable(P[i]) =>
        /\ P[i].writers = 1
        /\ m[P[i].mutex].active /\ m[P[i].mutex].waitQueue = << >>
        /\ m[P[i].mutex].counter = IF i \in S THEN 0 ELSE 1
        /\ P[i].mutex # P[i].semReaders /\ P[i].mutex # P[i].semWriters
        /\ \A j \in Slots \ {i} :
            P[i].mutex \notin {P[j].semReaders, P[j].semWriters, P[j].mutex}

BodyPoints == {"readBody", "writeBody", "closeBody", "exitCloseBody"}

\* Nobody waits for the mutex of a pipe that can be used, and the shell and idle
\* are in no call.
Calls(s, P, C, sh) ==
    /\ C \in [Ctx -> Call]
    /\ \A c \in Ctx :
        /\ C[c].at \in BodyPoints => ~ Usable(P[C[c].slot])
        /\ C[c].at # "user" /\ s.status[c] # "FREED" => c # sh /\ s.pid[c] # IDLE_PID
        /\ C[c].at \in {"writeMutex", "writeBody"} => C[c].value \in Bytes

Fits(P, at, fd, sh) ==
    IF at[sh] = "prompt" THEN \A i \in Slots : ~ Usable(P[i])
    ELSE /\ fd \in Pipes
         /\ \A i \in Slots : Usable(P[i]) => fd = i + 3
         /\ \A i \in Slots : P[i].isOpen /\ fd = i + 3 => Usable(P[i])

Over(sh) ==
    /\ Inv(k) /\ IsShell(k, sh) /\ pc \in [Ctx -> ShellPoints \cup {"none", "write", "read"}]
    /\ Family(k, pc, pids, sh) /\ line \in Grounds \X Grounds
    /\ Tidy(sems, pipes, next_sem_id, {})
    /\ Calls(k, pipes, call, sh)
    /\ \A c \in Ctx : k.status[c] = "FREED" => call[c] = InProgram
    /\ Fits(pipes, pc, pipe_fd, sh)

OverInv == \E sh \in Ctx : Over(sh)

-----------------------------------------------------------------------------
(***************************************************************************)
(* The scheduler while the shell does nothing.                             *)
(***************************************************************************)
LEMMA PassesUnchanged ==
    ASSUME NEW s, NEW t, NEW sh \in Ctx, t.status = s.status, t.pid = s.pid,
           t.waitingList = s.waitingList
    PROVE  Passes(s, t, sh)
BY DEF Passes, LiveIn

LEMMA PassesComposes ==
    ASSUME NEW s, NEW t, NEW u, NEW sh \in Ctx, Passes(s, t, sh), Passes(t, u, sh)
    PROVE  Passes(s, u, sh)
<1>1. \A c \in Ctx :
        /\ t.status[c] # "FREED" => s.status[c] # "FREED" /\ t.pid[c] = s.pid[c]
        /\ u.status[c] # "FREED" => t.status[c] # "FREED" /\ u.pid[c] = t.pid[c]
        /\ LiveIn(t, c) => LiveIn(s, c) /\ t.waitingList[c] = s.waitingList[c]
        /\ LiveIn(u, c) => LiveIn(t, c) /\ u.waitingList[c] = t.waitingList[c]
  BY DEF Passes
<1>2. s.status[sh] = "BLOCKED" /\ u.status[sh] # "BLOCKED" => Freed(s, u, sh)
  <2>1. Freed(s, t, sh) => Freed(s, u, sh)
    BY <1>1 DEF Freed
  <2>2. Freed(t, u, sh) => Freed(s, u, sh)
    BY <1>1 DEF Freed
  <2>. QED BY <2>1, <2>2 DEF Passes
<1>. QED
  BY <1>1, <1>2 DEF Passes

\* The shell is what it was, and nobody else has begun to wait.
LEMMA ShellStays ==
    ASSUME NEW s, NEW t, NEW sh, IsShell(s, sh), Passes(s, t, sh)
    PROVE  IsShell(t, sh)
<1>1. sh \in Ctx /\ LiveIn(t, sh)
  BY DEF IsShell, Passes
<1>2. t.status[sh] # "FREED"
  BY <1>1 DEF LiveIn, Live
<1>. QED
  BY <1>1, <1>2 DEF IsShell, Passes

LEMMA TurnPasses ==
    ASSUME NEW s \in Kernel, NEW t \in Kernel, NEW sh \in Ctx, Turn(s, t)
    PROVE  Passes(s, t, sh)
<1>1. ASSUME NEW c \in Ctx
      PROVE  /\ t.status[c] # "FREED" => s.status[c] # "FREED" /\ t.pid[c] = s.pid[c]
             /\ LiveIn(t, c) <=> LiveIn(s, c)
             /\ LiveIn(t, c) => t.waitingList[c] = s.waitingList[c]
             /\ t.status[c] = "BLOCKED" <=> s.status[c] = "BLOCKED"
  <2>1. Stays(s, t, c)
    BY DEF Turn
  <2>2. t.status[c] \in Statuses
    BY DEF Kernel
  <2>. QED BY <2>1, <2>2 DEF Stays, SameProcess, LiveIn, Live, Statuses
<1>. QED
  BY <1>1 DEF Passes

LEMMA SchedulePasses ==
    ASSUME NEW s, Inv(s), NEW sh \in Ctx
    PROVE  Inv(Schedule(s)) /\ Passes(s, Schedule(s), sh)
<1>1. Inv(Schedule(s)) /\ Turn(s, Schedule(s))
  BY ScheduleInv, ScheduleTurn, InvIsMid
<1>. QED
  BY <1>1, TurnPasses DEF Inv, Common

LEMMA YieldPasses ==
    ASSUME NEW s, Mid(s), NEW sh \in Ctx
    PROVE  Inv(Yield(s)) /\ Passes(s, Yield(s), sh)
<1>1. Inv(Yield(s)) /\ Turn(s, Yield(s))
  BY YieldInv, YieldTurn
<1>. QED
  BY <1>1, TurnPasses DEF Inv, Mid, Common

\* kill() of a process the shell may be waiting for.
LEMMA KillPasses ==
    ASSUME NEW s, Inv(s), NEW sh, IsShell(s, sh), NEW c \in Ctx, LiveIn(s, c),
           s.pid[c] \in Targets, NEW t \in Kill(s, c)
    PROVE  Inv(t) /\ Passes(s, t, sh)
<1>1. /\ sh \in Ctx /\ sh # c /\ s.status[sh] \in Live /\ s.status[c] \in Live
      /\ \A w \in ToSet(s.waitingList[c]) : w = sh
  BY DEF IsShell, LiveIn, Targets
<1>2. /\ Inv(t)
      /\ t.status[c] \in {"TERMINATED", "FREED"}
      /\ t.status[c] = "TERMINATED" => SameProcess(s, t, c)
      /\ \A d \in Ctx \ {c} :
            /\ SameProcess(s, t, d)
            /\ t.status[d] = IF /\ d = sh /\ s.status[sh] = "BLOCKED"
                                /\ sh \in ToSet(s.waitingList[c])
                             THEN "READY" ELSE s.status[d]
  BY <1>1, Killed
<1>3. /\ LiveIn(s, c) /\ ~ LiveIn(t, c) /\ s.status[c] # "FREED"
      /\ \A d \in Ctx \ {c} : LiveIn(t, d) <=> LiveIn(s, d)
  BY <1>1, <1>2 DEF LiveIn, Live
<1>4. s.status[sh] = "BLOCKED" /\ t.status[sh] # "BLOCKED" => Freed(s, t, sh)
  BY <1>1, <1>2, <1>3 DEF Freed
<1>5. s.status[sh] # "BLOCKED" => t.status[sh] # "BLOCKED"
  BY <1>1, <1>2
<1>6. \A d \in Ctx : t.status[d] # "FREED" => s.status[d] # "FREED" /\ t.pid[d] = s.pid[d]
  BY <1>1, <1>2, <1>3 DEF SameProcess, Live
<1>7. \A d \in Ctx : LiveIn(t, d) => LiveIn(s, d) /\ t.waitingList[d] = s.waitingList[d]
  BY <1>2, <1>3 DEF SameProcess
<1>. QED
  BY <1>1, <1>2, <1>3, <1>4, <1>5, <1>6, <1>7 DEF Passes

LEMMA KillPeerPasses ==
    ASSUME NEW s, Inv(s), NEW sh, IsShell(s, sh), NEW fd \in Pipes \cup {-1},
           NEW t \in KillPeer(s, fd)
    PROVE  Inv(t) /\ Passes(s, t, sh)
<1>. DEFINE peer == PipedTo(s, fd)
<1>1. CASE fd = -1 \/ peer = NULL
  <2>1. t = s
    BY <1>1 DEF KillPeer
  <2>. QED BY <2>1, PassesUnchanged DEF IsShell
<1>2. CASE fd # -1 /\ peer # NULL
  <2>1. t \in Kill(s, peer)
    BY <1>2 DEF KillPeer
  <2>2. s.processList \in Seq(Ctx)
    BY DEF Inv, Common, Kernel
  <2>3. /\ peer \in Ctx /\ peer \in ToSet(s.processList)
        /\ s.fdIn[peer] = fd \/ s.fdOut[peer] = fd
    BY <1>2, <2>2, FirstInProperty DEF PipedTo
  <2>. HIDE DEF peer
  <2>4. s.status[peer] \in Live /\ s.pid[peer] \in Pids
    BY <2>3 DEF Inv, Common, Lists, Identity, Live
  <2>5. fd # -1 /\ fd # STDIN /\ fd # STDOUT
    BY <1>2, SchedulerAssumption DEF STDIN, STDOUT
  <2>6. s.pid[peer] \notin {IDLE_PID, SHELL_PID}
    BY <2>3, <2>4, <2>5 DEF Inv, Common, Roles
  <2>. QED
    BY <2>1, <2>3, <2>4, <2>6, KillPasses DEF Targets, LiveIn
<1>. QED
  BY <1>1, <1>2

LEMMA KillProcessPasses ==
    ASSUME NEW s, Inv(s), NEW sh, IsShell(s, sh), NEW pid \in Targets,
           NEW t \in KillProcess(s, pid)
    PROVE  Inv(t) /\ Passes(s, t, sh)
<1>. DEFINE c == FindProcess(s, pid)
<1>1. s \in Kernel /\ Lists(s) /\ sh \in Ctx
  BY DEF Inv, Common, IsShell
<1>2. CASE c = NULL
  <2>1. t = s
    BY <1>2 DEF KillProcess
  <2>. QED BY <1>1, <2>1, PassesUnchanged
<1>3. CASE c # NULL
  <2>1. c \in Ctx /\ c \in ToSet(s.processList) /\ s.pid[c] = pid
    BY <1>1, <1>3, FindProcessProperty
  <2>2. ~ DetachFails(s, c)
    BY <1>1, <2>1, DetachSucceeds
  <2>3. PICK u \in Kill(s, c) : t \in KillPeer(u, PipedFd(s, c))
    BY <1>3, <2>2 DEF KillProcess
  <2>. HIDE DEF c
  <2>4. LiveIn(s, c)
    BY <2>1 DEF Inv, Common, Lists, LiveIn
  <2>5. Inv(u) /\ Passes(s, u, sh)
    BY <2>1, <2>3, <2>4, KillPasses
  <2>6. << s.fdIn[c], s.fdOut[c] >> \in FdPairs
    BY <2>1 DEF Inv, Common, Lists, Roles, Targets
  <2>7. PipedFd(s, c) \in Pipes \cup {-1}
    BY <2>6 DEF PipedFd, FdPairs
  <2>8. Inv(t) /\ Passes(u, t, sh)
    BY <2>3, <2>5, <2>7, ShellStays, KillPeerPasses
  <2>. QED
    BY <1>1, <2>5, <2>8, PassesComposes
<1>. QED
  BY <1>2, <1>3

\* Ctrl+C.
LEMMA ForegroundPasses ==
    ASSUME NEW s, Inv(s), NEW sh, IsShell(s, sh), NEW t \in KillForegroundProcess(s)
    PROVE  Inv(t) /\ Passes(s, t, sh)
<1>. DEFINE first == FirstIn(s.processList, {c \in Ctx : IsForeground(s, c)})
<1>1. s \in Kernel /\ s.processList \in Seq(Ctx) /\ s.currentProcess \in Ctx \cup {NULL}
  BY DEF Inv, Common, Kernel
<1>0. FOREGROUND # BACKGROUND
  BY DEF FOREGROUND, BACKGROUND
<1>2. CASE t = s
  BY <1>2, PassesUnchanged DEF IsShell
<1>3. CASE s.currentProcess # NULL /\ IsForeground(s, s.currentProcess)
  <2>1. t \in KillProcess(s, s.pid[s.currentProcess])
    BY <1>3 DEF KillForegroundProcess
  <2>2. s.status[s.currentProcess] \in {"RUNNING", "TERMINATED"}
    BY <1>3 DEF Inv, Cpu
  <2>3. s.pid[s.currentProcess] \in Targets
    BY <1>0, <1>1, <1>3, <2>2 DEF IsForeground, Inv, Common, Identity, Roles, Live, Targets
  <2>. QED
    BY <2>1, <2>3, KillProcessPasses
<1>4. CASE first # NULL /\ t \in Kill(s, first)
  <2>1. first \in Ctx /\ first \in ToSet(s.processList) /\ IsForeground(s, first)
    BY <1>1, <1>4, FirstInProperty
  <2>. HIDE DEF first
  <2>2. s.status[first] \in Live
    BY <2>1 DEF Inv, Common, Lists
  <2>3. s.pid[first] \in Targets
    BY <1>0, <2>1, <2>2 DEF IsForeground, Inv, Common, Identity, Roles, Live, Targets
  <2>. QED
    BY <1>4, <2>1, <2>2, <2>3, KillPasses DEF LiveIn
<1>. QED
  BY <1>2, <1>3, <1>4 DEF KillForegroundProcess

\* blockProcess and setReadyProcess, on somebody else.
LEMMA MovePasses ==
    ASSUME NEW s, Inv(s), NEW sh \in Ctx, NEW c \in Ctx \ {sh},
           s.status[c] \in {"READY", "RUNNING"}
    PROVE  Passes(s, MoveToBlocked(s, c), sh)
<1>. DEFINE b == MoveToBlocked(s, c)
            d == Detach(s, c)
<1>1. /\ s \in Kernel /\ d \in Kernel /\ SameProcesses(s, d) /\ d.status = s.status
      /\ d.waitingList = s.waitingList
  BY DetachProperty, WaitingListFrame DEF Inv, Common
<1>2. b = [d EXCEPT !.blockedProcess[c] = @ + 1, !.status[c] = "BLOCKED"]
  BY DEF MoveToBlocked
<1>. HIDE DEF b, d
<1>3. /\ b.status = [s.status EXCEPT ![c] = "BLOCKED"] /\ b.pid = s.pid
      /\ b.waitingList = s.waitingList
  BY <1>1, <1>2 DEF Kernel, SameProcesses
<1>4. \A e \in Ctx : b.status[e] = IF e = c THEN "BLOCKED" ELSE s.status[e]
  BY <1>1, <1>3 DEF Kernel
<1>5. Passes(s, b, sh)
  BY <1>3, <1>4 DEF Passes, LiveIn, Live
<1>. QED
  BY <1>5 DEF b

LEMMA BlockPasses ==
    ASSUME NEW s, Inv(s), NEW sh, IsShell(s, sh), NEW pid \in Targets
    PROVE  Inv(BlockProcess(s, pid)) /\ Passes(s, BlockProcess(s, pid), sh)
<1>. DEFINE c == FindProcess(s, pid)
            b == IF s.status[c] \in {"RUNNING", "READY"} THEN MoveToBlocked(s, c) ELSE s
            t == BlockProcess(s, pid)
<1>1. s \in Kernel /\ Lists(s) /\ sh \in Ctx /\ pid # IDLE_PID /\ pid # SHELL_PID
  BY DEF Inv, Common, IsShell, Targets
<1>2. Inv(t)
  BY <1>1, BlockProcessInv
<1>3. CASE c = NULL
  <2>1. t = s
    BY <1>3 DEF BlockProcess
  <2>. QED BY <1>1, <1>2, <2>1, PassesUnchanged
<1>4. CASE c # NULL
  <2>1. c \in Ctx /\ c \in ToSet(s.processList) /\ s.pid[c] = pid
    BY <1>1, <1>4, FindProcessProperty
  <2>2. ~ DetachFails(s, c) /\ c # sh
    BY <1>1, <2>1, DetachSucceeds DEF IsShell
  <2>3. t = IF s.currentPid = pid THEN Yield(b) ELSE b
    BY <1>4, <2>2 DEF BlockProcess
  <2>. HIDE DEF c
  <2>4. Mid(b) /\ Passes(s, b, sh)
    <3>1. CASE s.status[c] \in {"RUNNING", "READY"}
      <4>1. Mid(MoveToBlocked(s, c)) /\ Passes(s, MoveToBlocked(s, c), sh)
        BY <1>1, <2>1, <2>2, <3>1, MoveToBlockedInv, MovePasses
      <4>. QED BY <3>1, <4>1
    <3>2. CASE s.status[c] \notin {"RUNNING", "READY"}
      <4>1. b = s
        BY <3>2
      <4>. HIDE DEF b
      <4>. QED BY <1>1, <4>1, InvIsMid, PassesUnchanged
    <3>. QED BY <3>1, <3>2
  <2>. HIDE DEF b
  <2>5. Passes(b, Yield(b), sh)
    BY <1>1, <2>4, YieldPasses
  <2>6. Passes(s, Yield(b), sh)
    BY <1>1, <2>4, <2>5, PassesComposes
  <2>. QED BY <1>2, <2>3, <2>4, <2>6
<1>. QED
  BY <1>3, <1>4

LEMMA WakePasses ==
    ASSUME NEW s, Inv(s), NEW sh, IsShell(s, sh), NEW pid, pid # SHELL_PID
    PROVE  /\ Inv(SetReadyProcess(s, pid)) /\ Passes(s, SetReadyProcess(s, pid), sh)
           /\ SetReadyProcess(s, pid).currentProcess = s.currentProcess
<1>. DEFINE c == FindProcess(s, pid)
            t == SetReadyProcess(s, pid)
<1>1. s \in Kernel /\ sh \in Ctx
  BY DEF Inv, Common, IsShell
<1>2. Inv(t)
  BY SetReadyProcessInv
<1>3. CASE c # NULL /\ CanWake(s, c)
  <2>1. c \in Ctx /\ s.pid[c] = pid /\ c # sh
    BY <1>1, <1>3, FindProcessProperty DEF IsShell
  <2>2. t = Wake(s, << c >>)
    BY <1>3 DEF SetReadyProcess
  <2>3. s.status[c] = "BLOCKED"
    BY <1>3 DEF CanWake
  <2>. HIDE DEF c, t
  <2>4. ToSet(<< c >>) = {c}
    BY DEF ToSet
  <2>5. t = [s EXCEPT
                !.readyProcess   = @ \o << c >>,
                !.blockedProcess = [d \in Ctx |-> IF d \in {c} THEN @[d] - 1 ELSE @[d]],
                !.status         = [d \in Ctx |-> IF d \in {c} THEN "READY" ELSE @[d]]]
    BY <2>2, <2>4 DEF Wake
  <2>6. /\ t.pid = s.pid /\ t.waitingList = s.waitingList
        /\ t.currentProcess = s.currentProcess
        /\ t.status = [d \in Ctx |-> IF d \in {c} THEN "READY" ELSE s.status[d]]
    BY <1>1, <2>5 DEF Kernel
  <2>7. \A d \in Ctx : t.status[d] = IF d = c THEN "READY" ELSE s.status[d]
    BY <2>6
  <2>8. Passes(s, t, sh)
    BY <1>1, <2>1, <2>3, <2>6, <2>7 DEF Passes, LiveIn, Live
  <2>. QED BY <1>2, <2>6, <2>8 DEF t
<1>4. CASE ~ (c # NULL /\ CanWake(s, c))
  <2>1. t = s
    BY <1>4 DEF SetReadyProcess
  <2>. QED BY <1>1, <1>2, <2>1, PassesUnchanged
<1>. QED
  BY <1>3, <1>4

\* The dead are purged from a queue, and nobody is added.
LEMMA PurgeTakes ==
    ASSUME NEW s, NEW queue \in Seq(Pids), NEW pid \in ToSet(Purge(s, queue))
    PROVE  pid \in ToSet(queue)
<1>. DEFINE kept == {i \in DOMAIN queue :
                        LET c == FindProcess(s, queue[i])
                        IN  c # NULL /\ s.status[c] # "TERMINATED"}
<1>1. Len(queue) \in Nat /\ DOMAIN queue = 1 .. Len(queue) /\ \A i \in kept : i \in 1 .. Len(queue)
  OBVIOUS
<1>2. Purge(s, queue) = [j \in 1 .. Cardinality(kept) |-> queue[Nth(kept, j)]]
  BY DEF Purge
<1>. HIDE DEF kept
<1>3. PICK j \in 1 .. Cardinality(kept) : pid = queue[Nth(kept, j)]
  BY <1>2 DEF ToSet
<1>4. Nth(kept, j) \in 1 .. Len(queue)
  BY <1>1, NthExists DEF Nth
<1>. QED
  BY <1>1, <1>3, <1>4 DEF ToSet

-----------------------------------------------------------------------------
(***************************************************************************)
(* Semaphores and pipes while the shell does nothing.  Kept says of the    *)
(* state o in the middle of a call that began with the scheduler state s   *)
(* and the pipes P what the invariant says before and after the call.      *)
(***************************************************************************)
Shaped(o) == o = Of(o.k, o.sems, o.pipes, o.next_sem_id, o.call, o.delivered)

\* Pipes are only closed.
Fades(P, Q) ==
    \A i \in Slots : Q[i].isOpen => P[i].isOpen /\ (Usable(Q[i]) <=> Usable(P[i]))

Kept(o, s, P, S, sh) ==
    /\ Shaped(o) /\ Inv(o.k) /\ IsShell(s, sh) /\ Passes(s, o.k, sh)
    /\ Tidy(o.sems, o.pipes, o.next_sem_id, S) /\ Calls(o.k, o.pipes, o.call, sh)
    /\ Fades(P, o.pipes)

\* id is not the mutex of a pipe that can be used.
Foreign(P, id) == \A i \in Slots : Usable(P[i]) => P[i].mutex # id

\* Who holds the mutex of pipe i.
Holding(P, i) == IF Usable(P[i]) THEN {i} ELSE {}

Caller(s, c, sh) == c \in Ctx \ {sh} /\ s.status[c] # "FREED" /\ s.pid[c] # IDLE_PID

LEMMA KeptShell ==
    ASSUME NEW o, NEW s, NEW P, NEW S, NEW sh, Kept(o, s, P, S, sh)
    PROVE  IsShell(o.k, sh) /\ sh \in Ctx
BY ShellStays DEF Kept, IsShell

LEMMA CallsLast ==
    ASSUME NEW s, NEW t, NEW P, NEW C, NEW sh, Calls(s, P, C, sh), Passes(s, t, sh)
    PROVE  Calls(t, P, C, sh)
BY DEF Calls, Passes

LEMMA CallerPid ==
    ASSUME NEW o, NEW s, NEW P, NEW S, NEW sh, Kept(o, s, P, S, sh), NEW c,
           Caller(s, c, sh), o.k.currentProcess = c
    PROVE  o.k.currentPid \in Targets
<1>1. /\ Inv(o.k) /\ IsShell(o.k, sh) /\ sh \in Ctx /\ Passes(s, o.k, sh)
      /\ c \in Ctx /\ c # sh /\ c # NULL
  BY KeptShell, SchedulerAssumption DEF Kept, Caller
<1>2. o.k.status[c] \in {"RUNNING", "TERMINATED"} /\ o.k.currentPid = o.k.pid[c]
  BY <1>1 DEF Inv, Cpu
<1>3. o.k.pid[c] \in Pids /\ o.k.pid[c] # IDLE_PID
  BY <1>1, <1>2 DEF Inv, Common, Identity, Passes, Caller
<1>4. o.k.status[c] = "RUNNING" => o.k.pid[c] # SHELL_PID
  <2>1. o.k.status[c] = "RUNNING" => o.k.status[c] \in Live
    BY DEF Live
  <2>2. o.k.status[sh] \in Live /\ o.k.pid[sh] = SHELL_PID
    BY <1>1 DEF IsShell, LiveIn
  <2>. QED BY <1>1, <2>1, <2>2, PidsDiffer
<1>5. o.k.status[c] = "TERMINATED" => o.k.pid[c] \in Targets
  BY <1>1 DEF Inv, Common, Roles
<1>. QED
  BY <1>2, <1>3, <1>4, <1>5 DEF Targets

\* What sem_wait and sem_post change.
SameRest(o, t) ==
    t.pipes = o.pipes /\ t.next_sem_id = o.next_sem_id /\ t.call = o.call

Drawn(m, id)       == [m EXCEPT ![id].counter = @ - 1]
Joined(m, id, pid) == [m EXCEPT ![id] = Enqueue(@, pid)]
Shrunk(m, id, q)   == [m EXCEPT ![id].waitQueue = q]
Raised(m, id, q)   == [m EXCEPT ![id].waitQueue = q, ![id].counter = @ + 1]

LEMMA WaitFields ==
    ASSUME NEW o, Shaped(o), NEW id, NEW t, t = SemWait(o, id)
    PROVE  /\ Shaped(t) /\ SameRest(o, t)
           /\ o.sems[id].counter > 0 =>
                t.k = o.k /\ t.sems = Drawn(o.sems, id)
           /\ ~ (o.sems[id].counter > 0) =>
                /\ t.k = BlockProcess(o.k, o.k.currentPid)
                /\ t.sems = Joined(o.sems, id, o.k.currentPid)
<1>1. CASE o.sems[id].counter > 0
  BY <1>1 DEF Shaped, SemWait, Of, SameRest, Drawn, Joined
<1>2. CASE ~ (o.sems[id].counter > 0)
  BY <1>2 DEF Shaped, SemWait, Of, SameRest, Drawn, Joined
<1>. QED
  BY <1>1, <1>2

LEMMA PostFields ==
    ASSUME NEW o, Shaped(o), NEW id, NEW t, t = SemPost(o, id),
           NEW q, q = Purge(o.k, o.sems[id].waitQueue)
    PROVE  /\ Shaped(t) /\ SameRest(o, t)
           /\ q # << >> =>
                /\ t.k = SetReadyProcess(o.k, Head(q))
                /\ t.sems = Shrunk(o.sems, id, Tail(q))
           /\ q = << >> =>
                /\ t.k = o.k
                /\ t.sems = Raised(o.sems, id, q)
<1>1. CASE q # << >>
  BY <1>1 DEF Shaped, SemPost, Of, SameRest, Shrunk, Raised
<1>2. CASE q = << >>
  BY <1>2 DEF Shaped, SemPost, Of, SameRest, Shrunk, Raised
<1>. QED
  BY <1>1, <1>2

LEMMA SemaphoresKept ==
    ASSUME NEW o, NEW s, NEW P, NEW S, NEW sh, Kept(o, s, P, S, sh), NEW T,
           NEW t, Shaped(t), SameRest(o, t), Inv(t.k), Passes(o.k, t.k, sh),
           Tidy(t.sems, o.pipes, o.next_sem_id, T)
    PROVE  Kept(t, s, P, T, sh)
<1>1. Passes(s, t.k, sh)
  BY KeptShell, PassesComposes DEF Kept
<1>2. Calls(t.k, o.pipes, o.call, sh)
  BY CallsLast DEF Kept
<1>. QED
  BY <1>1, <1>2 DEF Kept, SameRest

\* One semaphore changes that is the mutex of no usable pipe.
LEMMA TidyElsewhere ==
    ASSUME NEW m, NEW P, NEW n, NEW S, Tidy(m, P, n, S), NEW id \in SemIds, Foreign(P, id),
           NEW sem \in Semaphore, SHELL_PID \notin ToSet(sem.waitQueue),
           sem.active => m[id].active, NEW w, w = [m EXCEPT ![id] = sem]
    PROVE  Tidy(w, P, n, S)
<1>1. m \in [SemIds -> Semaphore] /\ \A j \in SemIds : w[j] = IF j = id THEN sem ELSE m[j]
  BY DEF Tidy
<1>2. w \in [SemIds -> Semaphore]
  BY <1>1
<1>3. Unused(w, n) /\ \A j \in SemIds : SHELL_PID \notin ToSet(w[j].waitQueue)
  BY <1>1 DEF Tidy, Unused
<1>4. \A i \in Slots : Usable(P[i]) => w[P[i].mutex] = m[P[i].mutex]
  BY <1>1 DEF Foreign, Usable
<1>. QED
  BY <1>2, <1>3, <1>4 DEF Tidy

\* The mutex of one usable pipe is taken or given back.
LEMMA TidyMutex ==
    ASSUME NEW m, NEW P, NEW n, NEW S, Tidy(m, P, n, S), NEW i \in Slots, Usable(P[i]),
           NEW sem \in Semaphore, sem.waitQueue = << >>, sem.active, NEW T,
           sem.counter = IF i \in T THEN 0 ELSE 1,
           \A j \in Slots \ {i} : j \in T <=> j \in S,
           NEW w, w = [m EXCEPT ![P[i].mutex] = sem]
    PROVE  Tidy(w, P, n, T)
<1>. DEFINE id == P[i].mutex
<1>1. /\ m \in [SemIds -> Semaphore] /\ id \in SemIds /\ m[id].active
      /\ \A j \in SemIds : w[j] = IF j = id THEN sem ELSE m[j]
  BY DEF Tidy, Usable
<1>2. w \in [SemIds -> Semaphore]
  BY <1>1
<1>3. Unused(w, n) /\ \A j \in SemIds : SHELL_PID \notin ToSet(w[j].waitQueue)
  <2>1. SHELL_PID \notin ToSet(<< >>)
    BY DEF ToSet
  <2>. QED BY <1>1, <2>1 DEF Tidy, Unused
<1>4. \A j \in Slots \ {i} : Usable(P[j]) => P[j].mutex \in SemIds /\ P[j].mutex # id
  BY DEF Tidy, Usable
<1>5. \A j \in Slots : Usable(P[j]) =>
        /\ P[j].writers = 1
        /\ w[P[j].mutex].active /\ w[P[j].mutex].waitQueue = << >>
        /\ w[P[j].mutex].counter = IF j \in T THEN 0 ELSE 1
  BY <1>1, <1>4 DEF Tidy
<1>. QED
  BY <1>2, <1>3, <1>5 DEF Tidy

LEMMA IdsForeign ==
    ASSUME NEW m, NEW P, NEW n, NEW S, Tidy(m, P, n, S), NEW i \in Slots
    PROVE  /\ Foreign(P, P[i].semReaders) /\ Foreign(P, P[i].semWriters)
           /\ ~ Usable(P[i]) => Foreign(P, P[i].mutex)
BY DEF Tidy, Foreign

\* sem_wait on what is no usable pipe's mutex.
LEMMA KeptWait ==
    ASSUME NEW o, NEW s, NEW P, NEW S, NEW sh, Kept(o, s, P, S, sh),
           NEW id, Foreign(o.pipes, id), o.k.currentPid \in Targets,
           NEW t, t = SemWaitOn(o, id)
    PROVE  Kept(t, s, P, S, sh) /\ SameRest(o, t)
<1>. DEFINE sem == o.sems[id]
<1>0. /\ Shaped(o) /\ Inv(o.k) /\ Tidy(o.sems, o.pipes, o.next_sem_id, S)
      /\ IsShell(o.k, sh) /\ sh \in Ctx /\ o.sems \in [SemIds -> Semaphore]
  BY KeptShell DEF Kept, Tidy
<1>1. CASE t = o
  BY <1>1 DEF SameRest
<1>2. CASE t # o
  <2>1. id \in SemIds /\ t = SemWait(o, id)
    BY <1>2 DEF SemWaitOn
  <2>2. sem \in Semaphore /\ SHELL_PID \notin ToSet(sem.waitQueue)
    BY <1>0, <2>1 DEF Tidy
  <2>3. CASE sem.counter > 0
    <3>. DEFINE new == [sem EXCEPT !.counter = @ - 1]
    <3>0. /\ Shaped(t) /\ SameRest(o, t) /\ t.k = o.k
          /\ t.sems = Drawn(o.sems, id)
      BY <1>0, <2>1, <2>3, WaitFields
    <3>1. t.sems = [o.sems EXCEPT ![id] = new]
      BY <1>0, <2>1, <3>0 DEF Drawn
    <3>2. new \in Semaphore /\ new.waitQueue = sem.waitQueue /\ new.active = sem.active
      BY <2>2, <2>3 DEF Semaphore
    <3>. HIDE DEF new
    <3>3. Tidy(t.sems, o.pipes, o.next_sem_id, S)
      BY <1>0, <2>1, <2>2, <3>1, <3>2, TidyElsewhere
    <3>4. Inv(t.k) /\ Passes(o.k, t.k, sh)
      BY <1>0, <3>0, PassesUnchanged
    <3>. QED BY <3>0, <3>3, <3>4, SemaphoresKept
  <2>4. CASE ~ (sem.counter > 0)
    <3>. DEFINE new == Enqueue(sem, o.k.currentPid)
    <3>0. /\ Shaped(t) /\ SameRest(o, t) /\ t.k = BlockProcess(o.k, o.k.currentPid)
          /\ t.sems = Joined(o.sems, id, o.k.currentPid)
      BY <1>0, <2>1, <2>4, WaitFields
    <3>1. t.sems = [o.sems EXCEPT ![id] = new]
      BY <1>0, <2>1, <3>0 DEF Joined
    <3>2. o.k.currentPid \in Pids /\ o.k.currentPid # SHELL_PID
      BY DEF Targets
    <3>3. new \in Semaphore /\ new.active = sem.active /\ SHELL_PID \notin ToSet(new.waitQueue)
      <4>. DEFINE q == Append(sem.waitQueue, o.k.currentPid)
      <4>1. sem.waitQueue \in Seq(Pids)
        BY <2>2 DEF Semaphore
      <4>2. q \in Seq(Pids) /\ SHELL_PID \notin ToSet(q)
        <5>1. q \in Seq(Pids)
          BY <3>2, <4>1
        <5>2. \A j \in DOMAIN q : q[j] # SHELL_PID
          <6>1. \A j \in DOMAIN sem.waitQueue : sem.waitQueue[j] # SHELL_PID
            BY <2>2 DEF ToSet
          <6>. QED BY <3>2, <4>1, <6>1
        <5>. QED BY <5>1, <5>2 DEF ToSet
      <4>. HIDE DEF q
      <4>3. CASE sem.active
        <5>1. new = [sem EXCEPT !.waitQueue = q]
          BY <4>3 DEF Enqueue, q
        <5>. QED BY <2>2, <4>2, <5>1 DEF Semaphore
      <4>4. CASE ~ sem.active
        BY <2>2, <4>4 DEF Enqueue
      <4>. QED BY <4>3, <4>4
    <3>. HIDE DEF new
    <3>4. Tidy(t.sems, o.pipes, o.next_sem_id, S)
      BY <1>0, <2>1, <3>1, <3>3, TidyElsewhere
    <3>5. Inv(t.k) /\ Passes(o.k, t.k, sh)
      BY <1>0, <3>0, BlockPasses
    <3>. QED BY <3>0, <3>4, <3>5, SemaphoresKept
  <2>. QED BY <2>3, <2>4
<1>. QED
  BY <1>1, <1>2

\* sem_post on it wakes whoever it wakes, but not the shell.
LEMMA KeptPost ==
    ASSUME NEW o, NEW s, NEW P, NEW S, NEW sh, Kept(o, s, P, S, sh),
           NEW id, Foreign(o.pipes, id), NEW t, t = SemPostOn(o, id)
    PROVE  Kept(t, s, P, S, sh) /\ SameRest(o, t) /\ Self(t) = Self(o)
<1>. DEFINE sem == o.sems[id]
            q == Purge(o.k, sem.waitQueue)
<1>0. /\ Shaped(o) /\ Inv(o.k) /\ Tidy(o.sems, o.pipes, o.next_sem_id, S)
      /\ IsShell(o.k, sh) /\ sh \in Ctx /\ o.sems \in [SemIds -> Semaphore]
  BY KeptShell DEF Kept, Tidy
<1>1. CASE id \notin SemIds
  BY <1>1 DEF SemPostOn, SameRest
<1>2. CASE id \in SemIds
  <2>1. t = SemPost(o, id)
    BY <1>2 DEF SemPostOn
  <2>2. /\ sem \in Semaphore /\ SHELL_PID \notin ToSet(sem.waitQueue)
        /\ sem.waitQueue \in Seq(Pids)
    BY <1>0, <1>2 DEF Tidy, Semaphore
  <2>3. q \in Seq(Pids) /\ \A pid \in ToSet(q) : pid # SHELL_PID
    BY <2>2, PurgeProperty, PurgeTakes
  <2>. HIDE DEF q
  <2>4. CASE q # << >>
    <3>. DEFINE new == [sem EXCEPT !.waitQueue = Tail(q)]
    <3>0. /\ Shaped(t) /\ SameRest(o, t) /\ t.k = SetReadyProcess(o.k, Head(q))
          /\ t.sems = Shrunk(o.sems, id, Tail(q))
      BY <1>0, <2>1, <2>4, PostFields DEF q
    <3>1. t.sems = [o.sems EXCEPT ![id] = new]
      BY <1>0, <1>2, <3>0 DEF Shrunk
    <3>2. Tail(q) \in Seq(Pids) /\ SHELL_PID \notin ToSet(Tail(q)) /\ Head(q) # SHELL_PID
      BY <2>3, <2>4 DEF ToSet
    <3>3. new \in Semaphore /\ new.waitQueue = Tail(q) /\ new.active = sem.active
      BY <2>2, <3>2 DEF Semaphore
    <3>. HIDE DEF new
    <3>4. Tidy(t.sems, o.pipes, o.next_sem_id, S)
      <4>1. SHELL_PID \notin ToSet(new.waitQueue) /\ (new.active => o.sems[id].active)
        BY <3>2, <3>3
      <4>2. t.sems = [o.sems EXCEPT ![id] = new] /\ new \in Semaphore
        BY <3>1, <3>3
      <4>. QED BY <1>0, <1>2, <4>1, <4>2, TidyElsewhere
    <3>5. /\ Inv(t.k) /\ Passes(o.k, t.k, sh)
          /\ t.k.currentProcess = o.k.currentProcess
      BY <1>0, <3>0, <3>2, WakePasses
    <3>. QED BY <3>0, <3>4, <3>5, SemaphoresKept DEF Self
  <2>5. CASE q = << >>
    <3>. DEFINE new == [sem EXCEPT !.waitQueue = q, !.counter = @ + 1]
    <3>1. /\ Shaped(t) /\ SameRest(o, t) /\ t.k = o.k
          /\ t.sems = Raised(o.sems, id, q)
      BY <1>0, <2>1, <2>5, PostFields DEF q
    <3>2. t.sems = [o.sems EXCEPT ![id] = new]
      BY <1>0, <1>2, <3>1 DEF Raised
    <3>3. new \in Semaphore /\ new.waitQueue = q /\ new.active = sem.active
      <4>1. sem.counter \in Nat /\ sem.counter + 1 \in Nat
        BY <2>2 DEF Semaphore
      <4>2. [sem EXCEPT !.waitQueue = q] \in Semaphore
        BY <2>2, <2>3 DEF Semaphore
      <4>. QED BY <2>2, <2>3, <4>1, <4>2 DEF Semaphore
    <3>4. SHELL_PID \notin ToSet(q)
      BY <2>3
    <3>. HIDE DEF new
    <3>5. Tidy(t.sems, o.pipes, o.next_sem_id, S)
      BY <1>0, <1>2, <3>2, <3>3, <3>4, TidyElsewhere
    <3>6. Inv(t.k) /\ Passes(o.k, t.k, sh)
      BY <1>0, <3>1, PassesUnchanged
    <3>. QED BY <3>1, <3>5, <3>6, SemaphoresKept DEF Self
  <2>. QED BY <2>4, <2>5
<1>. QED
  BY <1>1, <1>2


\* The mutex of a pipe, which is free if the pipe can be used.
LEMMA KeptLock ==
    ASSUME NEW o, NEW s, NEW P, NEW sh, Kept(o, s, P, {}, sh), NEW i \in Slots,
           Usable(o.pipes[i]) \/ o.k.currentPid \in Targets,
           NEW t, t = SemWaitOn(o, o.pipes[i].mutex)
    PROVE  /\ Kept(t, s, P, Holding(o.pipes, i), sh) /\ SameRest(o, t)
           /\ Usable(o.pipes[i]) => t.k = o.k
<1>. DEFINE id == o.pipes[i].mutex
            sem == o.sems[id]
<1>0. /\ Shaped(o) /\ Inv(o.k) /\ Tidy(o.sems, o.pipes, o.next_sem_id, {})
      /\ IsShell(o.k, sh) /\ sh \in Ctx /\ o.sems \in [SemIds -> Semaphore]
  <2>1. IsShell(o.k, sh) /\ sh \in Ctx
    BY KeptShell
  <2>. QED BY <2>1 DEF Kept, Tidy
<1>1. CASE Usable(o.pipes[i])
  <2>1. /\ id \in SemIds /\ sem \in Semaphore /\ sem.active /\ sem.waitQueue = << >>
        /\ sem.counter = 1
    BY <1>0, <1>1 DEF Tidy, Usable
  <2>2. Len(sem.waitQueue) < MAX_QUEUE
    <3>1. IsFiniteSet(Ctx) /\ MAX_QUEUE \in Nat /\ MAX_QUEUE >= Cardinality(Ctx)
      BY SchedulerAssumption, SemaphoresAssumption, PipesAssumption
    <3>2. Cardinality(Ctx) \in Nat /\ Cardinality(Ctx) # 0
      BY <1>0, <3>1, FS_CardinalityType, FS_EmptySet
    <3>3. Len(sem.waitQueue) = 0
      BY <2>1
    <3>. QED BY <3>1, <3>2, <3>3
  <2>3. t = SemWait(o, id)
    BY <2>1, <2>2 DEF SemWaitOn
  <2>. DEFINE new == [sem EXCEPT !.counter = @ - 1]
  <2>4. /\ Shaped(t) /\ SameRest(o, t) /\ t.k = o.k
        /\ t.sems = Drawn(o.sems, id)
    <3>1. o.sems[id].counter > 0
      BY <2>1
    <3>. QED BY <1>0, <2>3, <3>1, WaitFields
  <2>5. t.sems = [o.sems EXCEPT ![id] = new]
    BY <1>0, <2>1, <2>4 DEF Drawn
  <2>6. new \in Semaphore /\ new.waitQueue = << >> /\ new.active /\ new.counter = 0
    BY <2>1 DEF Semaphore
  <2>. HIDE DEF new
  <2>7. Tidy(t.sems, o.pipes, o.next_sem_id, {i})
    <3>1. new.counter = IF i \in {i} THEN 0 ELSE 1
      BY <2>6
    <3>2. \A j \in Slots \ {i} : j \in {i} <=> j \in {}
      OBVIOUS
    <3>. QED BY <1>0, <1>1, <2>5, <2>6, <3>1, <3>2, TidyMutex
  <2>8. Inv(t.k) /\ Passes(o.k, t.k, sh)
    BY <1>0, <2>4, PassesUnchanged
  <2>9. Kept(t, s, P, {i}, sh)
    BY <2>4, <2>7, <2>8, SemaphoresKept
  <2>. QED BY <1>1, <2>4, <2>9 DEF Holding
<1>2. CASE ~ Usable(o.pipes[i])
  <2>1. Foreign(o.pipes, id)
    BY <1>0, <1>2, IdsForeign
  <2>2. Kept(t, s, P, {}, sh) /\ SameRest(o, t)
    BY <1>2, <2>1, KeptWait
  <2>. QED BY <1>2, <2>2 DEF Holding
<1>. QED
  BY <1>1, <1>2

LEMMA KeptUnlock ==
    ASSUME NEW o, NEW s, NEW P, NEW sh, NEW i \in Slots,
           Kept(o, s, P, Holding(o.pipes, i), sh),
           NEW t, t = SemPostOn(o, o.pipes[i].mutex)
    PROVE  Kept(t, s, P, {}, sh) /\ SameRest(o, t) /\ Self(t) = Self(o)
<1>. DEFINE id == o.pipes[i].mutex
            sem == o.sems[id]
<1>0. /\ Shaped(o) /\ Inv(o.k) /\ Tidy(o.sems, o.pipes, o.next_sem_id, Holding(o.pipes, i))
      /\ IsShell(o.k, sh) /\ sh \in Ctx /\ o.sems \in [SemIds -> Semaphore]
  BY KeptShell DEF Kept, Tidy
<1>1. CASE Usable(o.pipes[i])
  <2>0. Holding(o.pipes, i) = {i}
    BY <1>1 DEF Holding
  <2>1. /\ id \in SemIds /\ sem \in Semaphore /\ sem.active /\ sem.waitQueue = << >>
        /\ sem.counter = 0
    BY <1>0, <1>1, <2>0 DEF Tidy, Usable
  <2>2. t = SemPost(o, id)
    BY <2>1 DEF SemPostOn
  <2>3. << >> = Purge(o.k, sem.waitQueue)
    <3>1. sem.waitQueue \in Seq(Pids)
      BY <2>1 DEF Semaphore
    <3>. QED BY <2>1, <3>1, PurgeProperty
  <2>. DEFINE new == [sem EXCEPT !.waitQueue = << >>, !.counter = @ + 1]
  <2>4. /\ Shaped(t) /\ SameRest(o, t) /\ t.k = o.k
        /\ t.sems = Raised(o.sems, id, << >>)
    BY <1>0, <2>2, <2>3, PostFields
  <2>5. t.sems = [o.sems EXCEPT ![id] = new]
    BY <1>0, <2>1, <2>4 DEF Raised
  <2>6. new \in Semaphore /\ new.waitQueue = << >> /\ new.active /\ new.counter = 1
    <3>1. [sem EXCEPT !.waitQueue = << >>] \in Semaphore
      BY <2>1 DEF Semaphore
    <3>2. new = [[sem EXCEPT !.waitQueue = << >>] EXCEPT !.counter = 1]
      BY <2>1 DEF Semaphore
    <3>. HIDE DEF new
    <3>. QED BY <2>1, <3>1, <3>2 DEF Semaphore
  <2>. HIDE DEF new
  <2>7. Tidy(t.sems, o.pipes, o.next_sem_id, {})
    <3>1. new.counter = IF i \in {} THEN 0 ELSE 1
      BY <2>6
    <3>2. \A j \in Slots \ {i} : j \in {} <=> j \in {i}
      OBVIOUS
    <3>3. Tidy(o.sems, o.pipes, o.next_sem_id, {i})
      BY <1>0, <2>0
    <3>. QED BY <1>1, <2>5, <2>6, <3>1, <3>2, <3>3, TidyMutex
  <2>8. Inv(t.k) /\ Passes(o.k, t.k, sh)
    BY <1>0, <2>4, PassesUnchanged
  <2>9. Kept(t, s, P, {}, sh)
    BY <2>4, <2>7, <2>8, SemaphoresKept
  <2>. QED BY <2>4, <2>9 DEF Self
<1>2. CASE ~ Usable(o.pipes[i])
  <2>1. Foreign(o.pipes, id)
    BY <1>0, <1>2, IdsForeign
  <2>2. Kept(o, s, P, {}, sh)
    BY <1>2 DEF Holding
  <2>. QED BY <2>1, <2>2, KeptPost
<1>. QED
  BY <1>1, <1>2

\* The buffer of a pipe changes, and nothing that the invariant is about.
Alike(p, q) ==
    /\ q \in Pipe /\ q.isOpen = p.isOpen /\ q.writers = p.writers
    /\ q.semReaders = p.semReaders /\ q.semWriters = p.semWriters /\ q.mutex = p.mutex

Touched(o, t, i) ==
    /\ Shaped(t) /\ t.k = o.k /\ t.sems = o.sems
    /\ t.next_sem_id = o.next_sem_id /\ t.call = o.call
    /\ t.pipes \in [Slots -> Pipe]
    /\ \A j \in Slots : j # i => t.pipes[j] = o.pipes[j]
    /\ Alike(o.pipes[i], t.pipes[i])

LEMMA KeptTouch ==
    ASSUME NEW o, NEW s, NEW P, NEW S, NEW sh, Kept(o, s, P, S, sh), NEW i \in Slots,
           NEW t, Touched(o, t, i)
    PROVE  Kept(t, s, P, S, sh) /\ (Usable(t.pipes[i]) <=> Usable(o.pipes[i]))
<1>. DEFINE A == o.pipes
            B == t.pipes
<1>1. \A j \in Slots : Alike(A[j], B[j])
  BY DEF Touched, Alike, Kept, Tidy
<1>2. \A j \in Slots : Usable(B[j]) <=> Usable(A[j])
  BY <1>1 DEF Alike, Usable
<1>3. Tidy(t.sems, B, t.next_sem_id, S)
  <2>1. Tidy(o.sems, A, o.next_sem_id, S) /\ B \in [Slots -> Pipe]
    BY DEF Kept, Touched
  <2>. HIDE DEF A, B
  <2>. QED BY <1>1, <1>2, <2>1 DEF Tidy, Alike, Touched
<1>4. Calls(t.k, B, t.call, sh)
  <2>1. Calls(o.k, A, o.call, sh) /\ \A c \in Ctx : o.call[c].slot \in Slots
    BY DEF Kept, Calls, Call
  <2>. HIDE DEF A, B
  <2>. QED BY <1>2, <2>1 DEF Calls, Touched
<1>5. Fades(P, B)
  BY <1>1, <1>2 DEF Kept, Fades, Alike
<1>. QED
  BY <1>2, <1>3, <1>4, <1>5 DEF Kept, Touched

\* Where a call goes on.
LEMMA KeptGoOn ==
    ASSUME NEW o, NEW s, NEW P, NEW S, NEW sh, Kept(o, s, P, S, sh), NEW c \in Ctx,
           NEW point \in Points, NEW slot \in Slots, NEW value \in Bytes \cup Pipes \cup {0, -1},
           point \in BodyPoints => ~ Usable(o.pipes[slot]),
           point = "user" \/ Caller(s, c, sh),
           point \in {"writeMutex", "writeBody"} => value \in Bytes,
           NEW t, t = GoOnAt(o, c, point, slot, value)
    PROVE  Kept(t, s, P, S, sh) /\ t.k = o.k /\ t.pipes = o.pipes
<1>. DEFINE x == [at |-> point, slot |-> slot, value |-> value]
<1>1. /\ Shaped(t) /\ t.k = o.k /\ t.sems = o.sems /\ t.pipes = o.pipes
      /\ t.next_sem_id = o.next_sem_id /\ t.call = [o.call EXCEPT ![c] = x]
  <2>1. o = Of(o.k, o.sems, o.pipes, o.next_sem_id, o.call, o.delivered)
    BY DEF Kept, Shaped
  <2>2. t = Of(o.k, o.sems, o.pipes, o.next_sem_id, [o.call EXCEPT ![c] = x], o.delivered)
    BY <2>1 DEF GoOnAt, Of
  <2>. QED BY <2>2 DEF Of, Shaped
<1>2. x \in Call
  BY DEF Call
<1>3. x.at = point /\ x.slot = slot /\ x.value = value
  OBVIOUS
<1>. HIDE DEF x
<1>4. /\ Calls(o.k, o.pipes, o.call, sh) /\ o.call \in [Ctx -> Call] /\ Passes(s, o.k, sh)
  BY DEF Kept, Calls
<1>5. t.call \in [Ctx -> Call] /\ \A d \in Ctx : t.call[d] = IF d = c THEN x ELSE o.call[d]
  BY <1>1, <1>2, <1>4
<1>6. point = "user" \/ (o.k.status[c] # "FREED" => c # sh /\ o.k.pid[c] # IDLE_PID)
  BY <1>4 DEF Caller, Passes
<1>7. Calls(t.k, t.pipes, t.call, sh)
  BY <1>1, <1>3, <1>4, <1>5, <1>6 DEF Calls, BodyPoints
<1>. QED
  BY <1>1, <1>7 DEF Kept

LEMMA KeptReturn ==
    ASSUME NEW o, NEW s, NEW P, NEW S, NEW sh, Kept(o, s, P, S, sh), NEW c \in Ctx,
           NEW value \in Bytes \cup Pipes \cup {0, -1},
           NEW t, t = Return(o, c, value)
    PROVE  Kept(t, s, P, S, sh) /\ t.k = o.k /\ t.pipes = o.pipes
<1>1. 0 \in Slots
  BY Ids DEF Slots
<1>2. "user" \in Points /\ "user" \notin BodyPoints
  BY DEF Points, BodyPoints
<1>3. t = GoOnAt(o, c, "user", 0, value)
  BY DEF Return
<1>. QED
  BY <1>1, <1>2, <1>3, KeptGoOn


LEMMA Touches ==
    ASSUME NEW o, Shaped(o), o.pipes \in [Slots -> Pipe], NEW i \in Slots,
           NEW q, Alike(o.pipes[i], q), NEW D, NEW t,
           t = Of(o.k, o.sems, [o.pipes EXCEPT ![i] = q], o.next_sem_id, o.call, D)
    PROVE  Touched(o, t, i)
<1>1. /\ t.k = o.k /\ t.sems = o.sems /\ t.next_sem_id = o.next_sem_id /\ t.call = o.call
      /\ t.pipes = [o.pipes EXCEPT ![i] = q] /\ Shaped(t)
  BY DEF Of, Shaped
<1>2. q \in Pipe
  BY DEF Alike
<1>3. /\ t.pipes \in [Slots -> Pipe] /\ t.pipes[i] = q
      /\ \A j \in Slots : j # i => t.pipes[j] = o.pipes[j]
  BY <1>1, <1>2
<1>. QED
  BY <1>1, <1>3 DEF Touched

\* A byte is taken from the buffer, or put into it.
LEMMA TakenTouches ==
    ASSUME NEW o, Shaped(o), o.pipes \in [Slots -> Pipe], NEW i \in Slots,
           NEW p, p = o.pipes[i], p.count > 0, NEW d, NEW t,
           t = [o EXCEPT !.pipes[i].readIdx = Advance(p.readIdx),
                         !.pipes[i].count   = p.count - 1, !.delivered[i] = d]
    PROVE  Touched(o, t, i)
<1>. DEFINE r == Advance(p.readIdx)
            n == p.count - 1
            q1 == [p EXCEPT !.readIdx = r]
            q == [q1 EXCEPT !.count = n]
            P == o.pipes
            D == [o.delivered EXCEPT ![i] = d]
<1>1. p \in Pipe
  OBVIOUS
<1>2. r \in Index /\ n \in 0 .. PIPE_BUFFER_SIZE
  <2>1. /\ PIPE_BUFFER_SIZE \in Nat \ {0} /\ p.readIdx \in Int
        /\ p.count \in 0 .. PIPE_BUFFER_SIZE
    BY <1>1, Ids DEF Index, Pipe
  <2>2. r \in Index
    BY <2>1 DEF Advance, Index
  <2>3. n \in 0 .. PIPE_BUFFER_SIZE
    BY <2>1
  <2>. QED BY <2>2, <2>3
<1>3. Alike(p, q)
  <2>. HIDE DEF r, n
  <2>1. q1 \in Pipe /\ q \in Pipe
    BY <1>1, <1>2 DEF Pipe
  <2>. QED BY <1>1, <2>1 DEF Alike, Pipe
<1>4. t = Of(o.k, o.sems, [P EXCEPT ![i] = q], o.next_sem_id, o.call, D)
  <2>1. o = Of(o.k, o.sems, P, o.next_sem_id, o.call, o.delivered)
    BY DEF Shaped
  <2>. HIDE DEF r, n
  <2>2. t = [[[o EXCEPT !.pipes[i].readIdx = r] EXCEPT !.pipes[i].count = n]
                EXCEPT !.delivered[i] = d]
    BY DEF r, n
  <2>3. [P EXCEPT ![i].readIdx = r] = [P EXCEPT ![i] = q1]
    OBVIOUS
  <2>4. [[P EXCEPT ![i] = q1] EXCEPT ![i].count = n] = [P EXCEPT ![i] = q]
    <3>. HIDE DEF q1
    <3>. QED OBVIOUS
  <2>. HIDE DEF q, D
  <2>5. [o EXCEPT !.pipes[i].readIdx = r]
            = Of(o.k, o.sems, [P EXCEPT ![i] = q1], o.next_sem_id, o.call, o.delivered)
    <3>. HIDE DEF q1
    <3>. QED BY <2>1, <2>3 DEF Of
  <2>6. [Of(o.k, o.sems, [P EXCEPT ![i] = q1], o.next_sem_id, o.call, o.delivered)
            EXCEPT !.pipes[i].count = n]
            = Of(o.k, o.sems, [P EXCEPT ![i] = q], o.next_sem_id, o.call, o.delivered)
    BY <2>4 DEF Of
  <2>7. [Of(o.k, o.sems, [P EXCEPT ![i] = q], o.next_sem_id, o.call, o.delivered)
            EXCEPT !.delivered[i] = d]
            = Of(o.k, o.sems, [P EXCEPT ![i] = q], o.next_sem_id, o.call, D)
    BY DEF Of, D
  <2>. QED BY <2>2, <2>5, <2>6, <2>7
<1>. HIDE DEF q, D
<1>. QED
  BY <1>3, <1>4, Touches

LEMMA PutTouches ==
    ASSUME NEW o, Shaped(o), o.pipes \in [Slots -> Pipe], NEW i \in Slots,
           NEW p, p = o.pipes[i], p.count < PIPE_BUFFER_SIZE, NEW byte \in Bytes, NEW t,
           t = [o EXCEPT !.pipes[i].buffer[p.writeIdx] = byte,
                         !.pipes[i].writeIdx = Advance(p.writeIdx),
                         !.pipes[i].count    = p.count + 1]
    PROVE  Touched(o, t, i)
<1>. DEFINE r == Advance(p.writeIdx)
            n == p.count + 1
            b == [p.buffer EXCEPT ![p.writeIdx] = byte]
            q1 == [p EXCEPT !.buffer = b]
            q2 == [q1 EXCEPT !.writeIdx = r]
            q == [q2 EXCEPT !.count = n]
            P == o.pipes
<1>1. p \in Pipe
  OBVIOUS
<1>2. r \in Index /\ n \in 0 .. PIPE_BUFFER_SIZE
  <2>1. /\ PIPE_BUFFER_SIZE \in Nat \ {0} /\ p.writeIdx \in Int
        /\ p.count \in 0 .. PIPE_BUFFER_SIZE
    BY <1>1, Ids DEF Index, Pipe
  <2>2. r \in Index
    BY <2>1 DEF Advance, Index
  <2>3. n \in 0 .. PIPE_BUFFER_SIZE
    BY <2>1
  <2>. QED BY <2>2, <2>3
<1>3. b \in [Index -> Bytes \cup {0}]
  BY <1>1 DEF Pipe
<1>4. Alike(p, q)
  <2>. HIDE DEF r, n, b
  <2>1. q1 \in Pipe /\ q2 \in Pipe /\ q \in Pipe
    BY <1>1, <1>2, <1>3 DEF Pipe
  <2>. QED BY <1>1, <2>1 DEF Alike, Pipe
<1>5. t = Of(o.k, o.sems, [P EXCEPT ![i] = q], o.next_sem_id, o.call, o.delivered)
  <2>1. o = Of(o.k, o.sems, P, o.next_sem_id, o.call, o.delivered)
    BY DEF Shaped
  <2>. HIDE DEF r, n
  <2>2. t = [[[o EXCEPT !.pipes[i].buffer[p.writeIdx] = byte]
                EXCEPT !.pipes[i].writeIdx = r] EXCEPT !.pipes[i].count = n]
    BY DEF r, n
  <2>3. [P EXCEPT ![i].buffer[p.writeIdx] = byte] = [P EXCEPT ![i] = q1]
    OBVIOUS
  <2>. HIDE DEF b
  <2>4. [[P EXCEPT ![i] = q1] EXCEPT ![i].writeIdx = r] = [P EXCEPT ![i] = q2]
    <3>. HIDE DEF q1
    <3>. QED OBVIOUS
  <2>5. [[P EXCEPT ![i] = q2] EXCEPT ![i].count = n] = [P EXCEPT ![i] = q]
    <3>. HIDE DEF q2
    <3>. QED OBVIOUS
  <2>. HIDE DEF q1, q2, q
  <2>6. [o EXCEPT !.pipes[i].buffer[p.writeIdx] = byte]
            = Of(o.k, o.sems, [P EXCEPT ![i] = q1], o.next_sem_id, o.call, o.delivered)
    BY <2>1, <2>3 DEF Of
  <2>7. [Of(o.k, o.sems, [P EXCEPT ![i] = q1], o.next_sem_id, o.call, o.delivered)
            EXCEPT !.pipes[i].writeIdx = r]
            = Of(o.k, o.sems, [P EXCEPT ![i] = q2], o.next_sem_id, o.call, o.delivered)
    BY <2>4 DEF Of
  <2>8. [Of(o.k, o.sems, [P EXCEPT ![i] = q2], o.next_sem_id, o.call, o.delivered)
            EXCEPT !.pipes[i].count = n]
            = Of(o.k, o.sems, [P EXCEPT ![i] = q], o.next_sem_id, o.call, o.delivered)
    BY <2>5 DEF Of
  <2>. QED BY <2>2, <2>6, <2>7, <2>8
<1>. HIDE DEF q
<1>. QED
  BY <1>4, <1>5, Touches


\* The mutex is given back, and somebody is told of the byte or of the place.
LEMMA LeaveKept ==
    ASSUME NEW o, NEW s, NEW P, NEW sh, NEW i \in Slots,
           Kept(o, s, P, Holding(o.pipes, i), sh),
           NEW id \in {o.pipes[i].semReaders, o.pipes[i].semWriters},
           NEW t, t = SemPostOn(SemPostOn(o, o.pipes[i].mutex), id)
    PROVE  Kept(t, s, P, {}, sh)
<1>. DEFINE u == SemPostOn(o, o.pipes[i].mutex)
<1>1. Kept(u, s, P, {}, sh) /\ SameRest(o, u)
  BY KeptUnlock
<1>2. t = SemPostOn(u, id)
  OBVIOUS
<1>. HIDE DEF u
<1>3. Tidy(u.sems, u.pipes, u.next_sem_id, {}) /\ u.pipes = o.pipes
  BY <1>1 DEF Kept, SameRest
<1>4. Foreign(u.pipes, id)
  BY <1>3, IdsForeign
<1>. QED
  BY <1>1, <1>2, <1>4, KeptPost

LEMMA ReadBodyKept ==
    ASSUME NEW o, NEW s, NEW P, NEW sh, NEW i \in Slots,
           Kept(o, s, P, Holding(o.pipes, i), sh),
           NEW c, Caller(s, c, sh), NEW t, t = ReadBody(o, c, i)
    PROVE  Kept(t, s, P, {}, sh)
<1>. DEFINE p == o.pipes[i]
            u == SemPostOn(o, p.mutex)
<1>0. /\ Shaped(o) /\ o.pipes \in [Slots -> Pipe] /\ p \in Pipe /\ c \in Ctx
  BY DEF Kept, Tidy, Caller
<1>1. CASE p.count > 0
  <2>. DEFINE d == [byte |-> p.buffer[p.readIdx], flip |-> ~ o.delivered[i].flip]
              r == Advance(p.readIdx)
              n == p.count - 1
              v == [o EXCEPT !.pipes[i].readIdx = r, !.pipes[i].count = n, !.delivered[i] = d]
              byte == p.buffer[p.readIdx]
  <2>1. t = Return(LeaveRead(v, p), c, byte)
    <3>1. [o EXCEPT !.pipes[i].readIdx = Advance(@), !.pipes[i].count = @ - 1,
                    !.delivered[i]     = [byte |-> p.buffer[p.readIdx], flip |-> ~ @.flip]]
            = v
      <4>. DEFINE x == [o EXCEPT !.pipes[i].readIdx = r]
                  y == [x EXCEPT !.pipes[i].count = n]
      <4>0. x = Of(o.k, o.sems, [o.pipes EXCEPT ![i].readIdx = r], o.next_sem_id, o.call, o.delivered)
        <5>1. o = Of(o.k, o.sems, o.pipes, o.next_sem_id, o.call, o.delivered)
          BY <1>0 DEF Shaped
        <5>. HIDE DEF r
        <5>. QED BY <5>1 DEF Of
      <4>1. [o EXCEPT !.pipes[i].readIdx = Advance(@)] = x
        OBVIOUS
      <4>2. x.pipes[i].count = p.count /\ x.delivered = o.delivered
        <5>. HIDE DEF r, x
        <5>1. x.pipes = [o.pipes EXCEPT ![i].readIdx = r] /\ x.delivered = o.delivered
          BY <4>0 DEF Of
        <5>. QED BY <1>0, <5>1 DEF Pipe
      <4>. HIDE DEF r, x
      <4>3. [x EXCEPT !.pipes[i].count = @ - 1] = y
        BY <4>2
      <4>4. y.delivered = o.delivered
        <5>. HIDE DEF n
        <5>. QED BY <4>0 DEF Of
      <4>. HIDE DEF n, y
      <4>5. [y EXCEPT !.delivered[i] = [byte |-> p.buffer[p.readIdx], flip |-> ~ @.flip]]
                = [y EXCEPT !.delivered[i] = d]
        BY <4>4
      <4>. HIDE DEF d
      <4>6. [o EXCEPT !.pipes[i].readIdx = Advance(@), !.pipes[i].count = @ - 1,
                      !.delivered[i]     = [byte |-> p.buffer[p.readIdx], flip |-> ~ @.flip]]
                = [[[o EXCEPT !.pipes[i].readIdx = Advance(@)] EXCEPT !.pipes[i].count = @ - 1]
                    EXCEPT !.delivered[i] = [byte |-> p.buffer[p.readIdx], flip |-> ~ @.flip]]
        OBVIOUS
      <4>7. v = [y EXCEPT !.delivered[i] = d]
        BY DEF x, y
      <4>. HIDE DEF v
      <4>. QED BY <4>1, <4>3, <4>5, <4>6, <4>7
    <3>. HIDE DEF v
    <3>. QED BY <1>1, <3>1 DEF ReadBody
  <2>2. Touched(o, v, i)
    <3>. HIDE DEF d, v
    <3>1. v = [o EXCEPT !.pipes[i].readIdx = Advance(p.readIdx),
                        !.pipes[i].count   = p.count - 1, !.delivered[i] = d]
      BY DEF v
    <3>. QED BY <1>0, <1>1, <3>1, TakenTouches
  <2>3. byte \in Bytes \cup Pipes \cup {0, -1}
    BY <1>0 DEF Pipe
  <2>. HIDE DEF v, d, byte
  <2>4. Kept(v, s, P, Holding(o.pipes, i), sh) /\ (Usable(v.pipes[i]) <=> Usable(o.pipes[i]))
    BY <2>2, KeptTouch
  <2>5. Kept(v, s, P, Holding(v.pipes, i), sh)
    BY <2>4 DEF Holding
  <2>6. v.pipes[i].mutex = p.mutex /\ v.pipes[i].semWriters = p.semWriters
    BY <2>2 DEF Touched, Alike
  <2>7. LeaveRead(v, p) = SemPostOn(SemPostOn(v, v.pipes[i].mutex), v.pipes[i].semWriters)
    BY <2>6 DEF LeaveRead
  <2>8. Kept(LeaveRead(v, p), s, P, {}, sh)
    BY <2>5, <2>7, LeaveKept
  <2>. QED BY <1>0, <2>1, <2>3, <2>8, KeptReturn
<1>2. CASE ~ (p.count > 0)
  <2>1. Kept(u, s, P, {}, sh)
    BY KeptUnlock
  <2>2. CASE p.writers = 0
    <3>1. t = Return(u, c, EOF)
      BY <1>2, <2>2 DEF ReadBody
    <3>2. EOF \in Bytes \cup Pipes \cup {0, -1}
      BY DEF EOF
    <3>. HIDE DEF u
    <3>. QED BY <1>0, <2>1, <3>1, <3>2, KeptReturn
  <2>3. CASE p.writers # 0
    <3>1. t = GoOnAt(u, c, "readAgain", i, 0)
      BY <1>2, <2>3 DEF ReadBody
    <3>2. "readAgain" \in Points /\ "readAgain" \notin BodyPoints
      BY DEF Points, BodyPoints
    <3>3. 0 \in Bytes \cup Pipes \cup {0, -1}
      OBVIOUS
    <3>. HIDE DEF u
    <3>. QED BY <1>0, <2>1, <3>1, <3>2, <3>3, KeptGoOn
  <2>. QED BY <2>2, <2>3
<1>. QED
  BY <1>1, <1>2


\* A call takes the mutex of its pipe, or blocks in a pipe that cannot be used.
LEMMA LockKept ==
    ASSUME NEW o, NEW s, NEW P, NEW sh, Kept(o, s, P, {}, sh), NEW i \in Slots,
           NEW c, Caller(s, c, sh), Self(o) = c,
           NEW w, w = SemWaitOn(o, o.pipes[i].mutex)
    PROVE  /\ Kept(w, s, P, Holding(w.pipes, i), sh)
           /\ Self(w) # c => ~ Usable(w.pipes[i]) /\ Kept(w, s, P, {}, sh)
<1>1. o.k.currentPid \in Targets
  BY CallerPid DEF Self
<1>2. /\ Kept(w, s, P, Holding(o.pipes, i), sh) /\ w.pipes = o.pipes
      /\ Usable(o.pipes[i]) => w.k = o.k
  BY <1>1, KeptLock DEF SameRest
<1>3. Self(w) # c => ~ Usable(o.pipes[i])
  BY <1>2 DEF Self
<1>. QED
  BY <1>2, <1>3 DEF Holding

LEMMA PointsKept ==
    /\ 0 \in Bytes \cup Pipes \cup {0, -1} /\ EOF \in Bytes \cup Pipes \cup {0, -1}
    /\ BodyPoints \subseteq Points
    /\ {"readMutex", "writeMutex", "readAgain", "exitKill", "user"} \subseteq Points \ BodyPoints
BY DEF EOF, Points, BodyPoints

LEMMA ReadMutexKept ==
    ASSUME NEW o, NEW s, NEW P, NEW sh, Kept(o, s, P, {}, sh), NEW i \in Slots,
           NEW c, Caller(s, c, sh), Self(o) = c, NEW t, t = ReadMutex(o, c, i)
    PROVE  Kept(t, s, P, {}, sh)
<1>. DEFINE w == SemWaitOn(o, o.pipes[i].mutex)
<1>1. /\ Kept(w, s, P, Holding(w.pipes, i), sh)
      /\ Self(w) # c => ~ Usable(w.pipes[i]) /\ Kept(w, s, P, {}, sh)
  BY LockKept
<1>2. t = IF Self(w) = c THEN ReadBody(w, c, i) ELSE GoOnAt(w, c, "readBody", i, 0)
  BY DEF ReadMutex
<1>. HIDE DEF w
<1>3. CASE Self(w) = c
  BY <1>1, <1>2, <1>3, ReadBodyKept
<1>4. CASE Self(w) # c
  <2>1. "readBody" \in Points /\ c \in Ctx
    BY DEF Points, Caller
  <2>2. t = GoOnAt(w, c, "readBody", i, 0) /\ Kept(w, s, P, {}, sh) /\ ~ Usable(w.pipes[i])
    BY <1>1, <1>2, <1>4
  <2>. QED BY <2>1, <2>2, PointsKept, KeptGoOn
<1>. QED
  BY <1>3, <1>4

\* sem_wait on one of the two other semaphores of the pipe.
LEMMA TokenKept ==
    ASSUME NEW o, NEW s, NEW P, NEW sh, Kept(o, s, P, {}, sh), NEW i \in Slots,
           NEW c, Caller(s, c, sh), Self(o) = c,
           NEW id \in {o.pipes[i].semReaders, o.pipes[i].semWriters},
           NEW w, w = SemWaitOn(o, id)
    PROVE  Kept(w, s, P, {}, sh)
<1>1. o.k.currentPid \in Targets
  BY CallerPid DEF Self
<1>2. Foreign(o.pipes, id)
  <2>1. Tidy(o.sems, o.pipes, o.next_sem_id, {})
    BY DEF Kept
  <2>. QED BY <2>1, IdsForeign
<1>. QED
  BY <1>1, <1>2, KeptWait

LEMMA ReadLoopKept ==
    ASSUME NEW o, NEW s, NEW P, NEW sh, Kept(o, s, P, {}, sh), NEW i \in Slots,
           NEW c, Caller(s, c, sh), Self(o) = c, NEW t, t = ReadLoop(o, c, i)
    PROVE  Kept(t, s, P, {}, sh)
<1>. DEFINE w == SemWaitOn(o, o.pipes[i].semReaders)
<1>1. Kept(w, s, P, {}, sh) /\ c \in Ctx
  BY TokenKept DEF Caller
<1>2. t = IF Self(w) = c THEN ReadMutex(w, c, i) ELSE GoOnAt(w, c, "readMutex", i, 0)
  BY DEF ReadLoop
<1>. HIDE DEF w
<1>3. CASE Self(w) = c
  BY <1>1, <1>2, <1>3, ReadMutexKept
<1>4. CASE Self(w) # c
  BY <1>1, <1>2, <1>4, PointsKept, KeptGoOn
<1>. QED
  BY <1>3, <1>4

LEMMA ReadPipeKept ==
    ASSUME NEW o, NEW s, NEW P, NEW sh, Kept(o, s, P, {}, sh), NEW fd,
           NEW c, Caller(s, c, sh), Self(o) = c, NEW t, t = ReadPipe(o, c, fd)
    PROVE  Kept(t, s, P, {}, sh)
<1>1. CASE IsOpen(o, fd)
  <2>1. fd - 3 \in Slots /\ t = ReadLoop(o, c, fd - 3)
    BY <1>1 DEF IsOpen, ReadPipe
  <2>. QED BY <2>1, ReadLoopKept
<1>2. CASE ~ IsOpen(o, fd)
  <2>1. t = Return(o, c, EOF) /\ c \in Ctx
    BY <1>2 DEF ReadPipe, Caller
  <2>. QED BY <2>1, PointsKept, KeptReturn
<1>. QED
  BY <1>1, <1>2

LEMMA WriteBodyKept ==
    ASSUME NEW o, NEW s, NEW P, NEW sh, NEW i \in Slots,
           Kept(o, s, P, Holding(o.pipes, i), sh), NEW byte \in Bytes,
           NEW c, Caller(s, c, sh), NEW t, t = WriteBody(o, c, i, byte)
    PROVE  Kept(t, s, P, {}, sh)
<1>. DEFINE p == o.pipes[i]
            v == IF p.count < PIPE_BUFFER_SIZE
                 THEN [o EXCEPT !.pipes[i].buffer[p.writeIdx] = byte,
                                !.pipes[i].writeIdx = Advance(@),
                                !.pipes[i].count    = @ + 1]
                 ELSE o
<1>0. /\ Shaped(o) /\ o.pipes \in [Slots -> Pipe] /\ p \in Pipe /\ c \in Ctx
  BY DEF Kept, Tidy, Caller
<1>1. t = Return(LeaveWrite(v, p), c, 0)
  BY DEF WriteBody
<1>2. /\ Kept(v, s, P, Holding(v.pipes, i), sh)
      /\ v.pipes[i].mutex = p.mutex /\ v.pipes[i].semReaders = p.semReaders
  <2>1. CASE p.count < PIPE_BUFFER_SIZE
    <3>1. v = [o EXCEPT !.pipes[i].buffer[p.writeIdx] = byte,
                        !.pipes[i].writeIdx = Advance(p.writeIdx),
                        !.pipes[i].count    = p.count + 1]
      <4>. DEFINE Q == [o.pipes EXCEPT ![i].buffer[p.writeIdx] = byte]
                  x == [o EXCEPT !.pipes[i].buffer[p.writeIdx] = byte]
                  r == Advance(p.writeIdx)
                  y == [x EXCEPT !.pipes[i].writeIdx = r]
                  n == p.count + 1
      <4>1. o = Of(o.k, o.sems, o.pipes, o.next_sem_id, o.call, o.delivered)
        BY <1>0 DEF Shaped
      <4>2. x = Of(o.k, o.sems, Q, o.next_sem_id, o.call, o.delivered)
        BY <4>1 DEF Of
      <4>3. /\ Q[i].writeIdx = p.writeIdx /\ Q[i].count = p.count /\ i \in DOMAIN Q
            /\ "count" \in DOMAIN Q[i]
        BY <1>0 DEF Pipe
      <4>. HIDE DEF Q, r, x
      <4>4. y = Of(o.k, o.sems, [Q EXCEPT ![i].writeIdx = r], o.next_sem_id, o.call, o.delivered)
        BY <4>2 DEF Of
      <4>5. [Q EXCEPT ![i].writeIdx = r][i].count = p.count
        BY <4>3
      <4>. HIDE DEF y
      <4>6. x.pipes[i].writeIdx = p.writeIdx /\ y.pipes[i].count = p.count
        BY <4>2, <4>3, <4>4, <4>5 DEF Of
      <4>7. [x EXCEPT !.pipes[i].writeIdx = Advance(@)] = y
        BY <4>6 DEF r, y
      <4>8. [y EXCEPT !.pipes[i].count = @ + 1] = [y EXCEPT !.pipes[i].count = n]
        BY <4>6
      <4>9. v = [[[o EXCEPT !.pipes[i].buffer[p.writeIdx] = byte]
                    EXCEPT !.pipes[i].writeIdx = Advance(@)] EXCEPT !.pipes[i].count = @ + 1]
        <5>1. v = [o EXCEPT !.pipes[i].buffer[p.writeIdx] = byte,
                            !.pipes[i].writeIdx = Advance(@),
                            !.pipes[i].count    = @ + 1]
          BY <2>1, ZenonT(30)
        <5>. HIDE DEF v, p
        <5>2. [o EXCEPT !.pipes[i].buffer[p.writeIdx] = byte,
                        !.pipes[i].writeIdx = Advance(@),
                        !.pipes[i].count    = @ + 1]
                = [[[o EXCEPT !.pipes[i].buffer[p.writeIdx] = byte]
                      EXCEPT !.pipes[i].writeIdx = Advance(@)] EXCEPT !.pipes[i].count = @ + 1]
          BY ZenonT(60)
        <5>. QED BY <5>1, <5>2, ZenonT(60)
      <4>. HIDE DEF v, n
      <4>10. v = [y EXCEPT !.pipes[i].count = n]
        BY <4>7, <4>8, <4>9 DEF x
      <4>. QED BY <4>10 DEF x, y, r, n
    <3>. HIDE DEF v
    <3>2. Touched(o, v, i)
      BY <1>0, <2>1, <3>1, PutTouches
    <3>3. Kept(v, s, P, Holding(o.pipes, i), sh) /\ (Usable(v.pipes[i]) <=> Usable(o.pipes[i]))
      BY <3>2, KeptTouch
    <3>. QED BY <3>2, <3>3 DEF Touched, Alike, Holding
  <2>2. CASE ~ (p.count < PIPE_BUFFER_SIZE)
    <3>1. v = o
      BY <2>2
    <3>. HIDE DEF v
    <3>. QED BY <3>1
  <2>. QED BY <2>1, <2>2
<1>. HIDE DEF v
<1>3. LeaveWrite(v, p) = SemPostOn(SemPostOn(v, v.pipes[i].mutex), v.pipes[i].semReaders)
  BY <1>2 DEF LeaveWrite
<1>4. Kept(LeaveWrite(v, p), s, P, {}, sh)
  BY <1>2, <1>3, LeaveKept
<1>. QED
  BY <1>0, <1>1, <1>4, PointsKept, KeptReturn

LEMMA WriteMutexKept ==
    ASSUME NEW o, NEW s, NEW P, NEW sh, Kept(o, s, P, {}, sh), NEW i \in Slots,
           NEW byte \in Bytes, NEW c, Caller(s, c, sh), Self(o) = c,
           NEW t, t = WriteMutex(o, c, i, byte)
    PROVE  Kept(t, s, P, {}, sh)
<1>. DEFINE w == SemWaitOn(o, o.pipes[i].mutex)
<1>1. /\ Kept(w, s, P, Holding(w.pipes, i), sh)
      /\ Self(w) # c => ~ Usable(w.pipes[i]) /\ Kept(w, s, P, {}, sh)
  BY LockKept
<1>2. t = IF Self(w) = c THEN WriteBody(w, c, i, byte) ELSE GoOnAt(w, c, "writeBody", i, byte)
  BY DEF WriteMutex
<1>. HIDE DEF w
<1>3. CASE Self(w) = c
  BY <1>1, <1>2, <1>3, WriteBodyKept
<1>4. CASE Self(w) # c
  <2>1. "writeBody" \in Points /\ c \in Ctx /\ byte \in Bytes \cup Pipes \cup {0, -1}
    BY DEF Points, Caller
  <2>2. t = GoOnAt(w, c, "writeBody", i, byte) /\ Kept(w, s, P, {}, sh) /\ ~ Usable(w.pipes[i])
    BY <1>1, <1>2, <1>4
  <2>. QED BY <2>1, <2>2, KeptGoOn
<1>. QED
  BY <1>3, <1>4

LEMMA WritePipeKept ==
    ASSUME NEW o, NEW s, NEW P, NEW sh, Kept(o, s, P, {}, sh), NEW fd, NEW byte \in Bytes,
           NEW c, Caller(s, c, sh), Self(o) = c, NEW t, t = WritePipe(o, c, fd, byte)
    PROVE  Kept(t, s, P, {}, sh)
<1>. DEFINE i == fd - 3
            w == SemWaitOn(o, o.pipes[i].semWriters)
<1>0. c \in Ctx
  BY DEF Caller
<1>1. CASE ~ IsOpen(o, fd)
  <2>1. t = Return(o, c, 0)
    BY <1>1 DEF WritePipe
  <2>. QED BY <1>0, <2>1, PointsKept, KeptReturn
<1>2. CASE IsOpen(o, fd)
  <2>1. i \in Slots
    BY <1>2 DEF IsOpen
  <2>2. t = IF Self(w) = c THEN WriteMutex(w, c, i, byte)
            ELSE GoOnAt(w, c, "writeMutex", i, byte)
    BY <1>2 DEF WritePipe
  <2>. HIDE DEF i
  <2>3. Kept(w, s, P, {}, sh)
    BY <2>1, TokenKept
  <2>. HIDE DEF w
  <2>4. CASE Self(w) = c
    BY <2>1, <2>2, <2>3, <2>4, WriteMutexKept
  <2>5. CASE Self(w) # c
    <3>1. byte \in Bytes \cup Pipes \cup {0, -1}
      OBVIOUS
    <3>. QED BY <1>0, <2>1, <2>2, <2>3, <2>5, <3>1, PointsKept, KeptGoOn
  <2>. QED BY <2>4, <2>5
<1>. QED
  BY <1>1, <1>2


(***************************************************************************)
(* Closing.  The posts to the readers are a fold, which is solved by a     *)
(* function (Posts) of the sets of posts that are done already.            *)
(***************************************************************************)
Posts(g, o, id, m) ==
    g = [T \in SUBSET (1 .. m) |->
            IF T = {} THEN o ELSE SemPostOn(g[T \ {Max(T)}], id)]

LEMMA PostsExists ==
    ASSUME NEW o, NEW id
    PROVE  \A m \in Nat : \E g : Posts(g, o, id, m)
<1>. DEFINE S == {m \in Nat : \E g : Posts(g, o, id, m)}
<1>1. 0 \in S
  <2>. DEFINE g == [T \in SUBSET (1 .. 0) |-> o]
  <2>1. \A T \in SUBSET (1 .. 0) : T = {}
    OBVIOUS
  <2>2. g = [T \in SUBSET (1 .. 0) |->
                IF T = {} THEN o ELSE SemPostOn(g[T \ {Max(T)}], id)]
    BY <2>1
  <2>3. Posts(g, o, id, 0)
    BY <2>2 DEF Posts
  <2>. QED BY <2>3
<1>2. ASSUME NEW m \in Nat, m \in S PROVE m + 1 \in S
  <2>1. PICK g : Posts(g, o, id, m)
    BY <1>2
  <2>. DEFINE old == SUBSET (1 .. m)
              new == SUBSET (1 .. m + 1)
              h == [T \in new |-> IF m + 1 \in T THEN SemPostOn(g[T \ {m + 1}], id) ELSE g[T]]
  <2>2. \A T \in old : T \in new /\ m + 1 \notin T
    OBVIOUS
  <2>3. \A T \in old : h[T] = g[T]
    BY <2>2
  <2>4. \A T \in old : g[T] = IF T = {} THEN o ELSE SemPostOn(g[T \ {Max(T)}], id)
    BY <2>1 DEF Posts
  <2>5. ASSUME NEW T \in new
        PROVE  h[T] = IF T = {} THEN o ELSE SemPostOn(h[T \ {Max(T)}], id)
    <3>1. CASE m + 1 \in T
      <4>1. Max(T) = m + 1 /\ T \ {m + 1} \in old
        BY <3>1, LastPlace
      <4>2. h[T \ {m + 1}] = g[T \ {m + 1}]
        BY <2>3, <4>1
      <4>3. h[T] = SemPostOn(g[T \ {m + 1}], id)
        BY <3>1
      <4>. HIDE DEF h
      <4>. QED BY <3>1, <4>1, <4>2, <4>3
    <3>2. CASE m + 1 \notin T
      <4>1. T \in old /\ T \ {Max(T)} \in old
        BY <3>2, FewerPlaces
      <4>2. h[T] = g[T] /\ h[T \ {Max(T)}] = g[T \ {Max(T)}]
        BY <2>3, <4>1
      <4>. HIDE DEF h
      <4>. QED BY <2>4, <4>1, <4>2
    <3>. QED BY <3>1, <3>2
  <2>6. h = [T \in new |-> IF T = {} THEN o ELSE SemPostOn(h[T \ {Max(T)}], id)]
    <3>1. h = [T \in new |-> h[T]]
      OBVIOUS
    <3>. HIDE DEF h
    <3>. QED BY <2>5, <3>1
  <2>7. Posts(h, o, id, m + 1)
    <3>. HIDE DEF h
    <3>. QED BY <2>6 DEF Posts
  <2>. QED BY <2>7
<1>. HIDE DEF S
<1>3. \A m \in Nat : m \in S
  BY <1>1, <1>2, InductionForSet
<1>. QED
  BY <1>3 DEF S

LEMMA SignalKept ==
    ASSUME NEW o, NEW s, NEW P, NEW S, NEW sh, Kept(o, s, P, S, sh), NEW i \in Slots,
           NEW t, t = SignalReaders(o, o.pipes[i].semReaders)
    PROVE  Kept(t, s, P, S, sh) /\ SameRest(o, t) /\ Self(t) = Self(o)
<1>. DEFINE n == PIPE_BUFFER_SIZE
            id == o.pipes[i].semReaders
            q == [j \in 1 .. n |-> j]
            g == CHOOSE h : Posts(h, o, id, n)
            Fine(u) == Kept(u, s, P, S, sh) /\ SameRest(o, u) /\ Self(u) = Self(o)
            M == {m \in Nat : m <= n => Fine(g[1 .. m])}
<1>1. n \in Nat /\ DOMAIN q = 1 .. n
  BY Ids
<1>2. t = g[1 .. n]
  BY <1>1 DEF SignalReaders, FoldLeft, MapThenFoldSet, Posts
<1>3. Posts(g, o, id, n)
  BY <1>1, PostsExists
<1>4. ASSUME NEW u, Fine(u) PROVE Fine(SemPostOn(u, id))
  <2>1. Tidy(u.sems, u.pipes, u.next_sem_id, S) /\ u.pipes[i].semReaders = id
    BY <1>4 DEF Kept, SameRest
  <2>2. Foreign(u.pipes, id)
    BY <2>1, IdsForeign
  <2>. DEFINE w == SemPostOn(u, id)
  <2>3. Kept(w, s, P, S, sh) /\ SameRest(u, w) /\ Self(w) = Self(u)
    BY <1>4, <2>2, KeptPost
  <2>. HIDE DEF w
  <2>. QED BY <1>4, <2>3 DEF SameRest, w
<1>5. Fine(o)
  BY DEF SameRest
<1>. HIDE DEF g, n, id, Fine
<1>6. \A T \in SUBSET (1 .. n) :
        g[T] = IF T = {} THEN o ELSE SemPostOn(g[T \ {Max(T)}], id)
  BY <1>3 DEF Posts
<1>7. 0 \in M
  <2>1. 1 .. 0 = {} /\ {} \in SUBSET (1 .. n)
    OBVIOUS
  <2>. QED BY <1>5, <1>6, <2>1
<1>8. ASSUME NEW m \in Nat, m \in M PROVE m + 1 \in M
  <2>. SUFFICES ASSUME m + 1 <= n PROVE Fine(g[1 .. m + 1])
    OBVIOUS
  <2>1. m <= n /\ Fine(g[1 .. m])
    BY <1>1, <1>8
  <2>2. (1 .. m + 1) \in SUBSET (1 .. n) /\ (1 .. m + 1) # {} /\ m + 1 \in (1 .. m + 1)
    <3>1. \A j \in 1 .. m + 1 : j \in 1 .. n
      BY <1>1
    <3>2. m + 1 \in (1 .. m + 1)
      OBVIOUS
    <3>. QED BY <3>1, <3>2
  <2>3. Max(1 .. m + 1) = m + 1
    BY <2>2, LastPlace
  <2>4. (1 .. m + 1) \ {m + 1} = 1 .. m
    OBVIOUS
  <2>5. g[1 .. m + 1] = SemPostOn(g[1 .. m], id)
    BY <1>6, <2>2, <2>3, <2>4
  <2>. QED BY <1>4, <2>1, <2>5
<1>. HIDE DEF M
<1>9. n \in M
  BY <1>1, <1>7, <1>8, InductionForSet
<1>. QED
  BY <1>1, <1>2, <1>9 DEF M, Fine

Destroyed(m, id) ==
    IF id \in SemIds /\ m[id].active THEN [m EXCEPT ![id] = Inactive] ELSE m

LEMMA DestroyFields ==
    ASSUME NEW o, Shaped(o), NEW id, NEW t, t = SemDestroyOn(o, id)
    PROVE  Shaped(t) /\ SameRest(o, t) /\ t.k = o.k /\ t.sems = Destroyed(o.sems, id)
<1>1. CASE id \in SemIds /\ o.sems[id].active
  <2>1. t = [o EXCEPT !.sems[id] = Inactive]
    BY <1>1 DEF SemDestroyOn, SemDestroy
  <2>2. t = Of(o.k, [o.sems EXCEPT ![id] = Inactive], o.pipes, o.next_sem_id, o.call, o.delivered)
    BY <2>1 DEF Shaped, Of
  <2>. QED BY <1>1, <2>2 DEF Shaped, Of, SameRest, Destroyed
<1>2. CASE ~ (id \in SemIds /\ o.sems[id].active)
  <2>1. t = o
    BY <1>2 DEF SemDestroyOn, SemDestroy
  <2>. QED BY <1>2, <2>1 DEF SameRest, Destroyed
<1>. QED
  BY <1>1, <1>2

LEMMA TidyDestroyed ==
    ASSUME NEW m, NEW P, NEW n, NEW S, Tidy(m, P, n, S), NEW id, Foreign(P, id)
    PROVE  Tidy(Destroyed(m, id), P, n, S)
<1>1. CASE id \in SemIds /\ m[id].active
  <2>. DEFINE sem == Inactive
              w == [m EXCEPT ![id] = sem]
  <2>1. sem \in Semaphore /\ ~ sem.active /\ SHELL_PID \notin ToSet(sem.waitQueue)
    BY DEF Inactive, Semaphore, ToSet
  <2>2. Destroyed(m, id) = w
    BY <1>1 DEF Destroyed
  <2>. HIDE DEF sem
  <2>3. Tidy(w, P, n, S)
    BY <1>1, <2>1, TidyElsewhere
  <2>. QED BY <2>2, <2>3
<1>2. CASE ~ (id \in SemIds /\ m[id].active)
  BY <1>2 DEF Destroyed
<1>. QED
  BY <1>1, <1>2

\* A slot is closed whose mutex nobody holds any more.
Shut(m, P, Q, n, i) ==
    /\ Tidy(m, Q, n, {}) /\ ~ Usable(Q[i]) /\ ~ Q[i].isOpen
    /\ \A j \in Slots : Usable(Q[j]) => Usable(P[j]) /\ Q[j] = P[j]
    /\ \A j \in Slots : j # i => Q[j] = P[j]
    /\ Foreign(Q, P[i].semReaders) /\ Foreign(Q, P[i].semWriters)
    /\ Foreign(Q, P[i].mutex)

LEMMA TidyClosed ==
    ASSUME NEW m, NEW P, NEW n, Tidy(m, P, n, {}), NEW i \in Slots,
           NEW q \in Pipe, ~ q.isOpen, q.semReaders = -1, q.semWriters = -1,
           q.mutex = P[i].mutex, NEW Q, Q = [P EXCEPT ![i] = q]
    PROVE  Shut(m, P, Q, n, i)
<1>1. P \in [Slots -> Pipe] /\ n \in Nat /\ P[i] \in Pipe /\ P[i].mutex < n
  BY DEF Tidy
<1>2. \A j \in Slots : Q[j] = IF j = i THEN q ELSE P[j]
  BY <1>1
<1>3. Q \in [Slots -> Pipe]
  BY <1>1
<1>4. ~ Usable(Q[i]) /\ \A j \in Slots : Usable(Q[j]) => j # i /\ Usable(P[j]) /\ Q[j] = P[j]
  BY <1>2 DEF Usable
<1>5. \A j \in Slots : Q[j].semReaders < n /\ Q[j].semWriters < n /\ Q[j].mutex < n
  <2>1. -1 < n
    BY <1>1
  <2>. QED BY <1>1, <1>2, <2>1 DEF Tidy
<1>6. \A j \in Slots : Usable(P[j]) /\ j # i =>
            P[j].mutex \notin {P[i].semReaders, P[i].semWriters, P[i].mutex, -1}
  <2>1. -1 \notin SemIds
    BY Ids
  <2>. QED BY <2>1 DEF Tidy, Usable
<1>7. /\ Foreign(Q, P[i].semReaders) /\ Foreign(Q, P[i].semWriters)
      /\ Foreign(Q, P[i].mutex)
  BY <1>4, <1>6 DEF Foreign
<1>8. Tidy(m, Q, n, {})
  <2>1. \A j \in Slots : Usable(Q[j]) =>
            /\ Q[j].writers = 1
            /\ m[Q[j].mutex].active /\ m[Q[j].mutex].waitQueue = << >>
            /\ m[Q[j].mutex].counter = 1
            /\ Q[j].mutex # Q[j].semReaders /\ Q[j].mutex # Q[j].semWriters
    BY <1>4 DEF Tidy
  <2>2. \A j \in Slots : Usable(Q[j]) => \A l \in Slots \ {j} :
            Q[j].mutex \notin {Q[l].semReaders, Q[l].semWriters, Q[l].mutex}
    <3>. SUFFICES ASSUME NEW j \in Slots, Usable(Q[j]), NEW l \in Slots \ {j}
                  PROVE  Q[j].mutex \notin {Q[l].semReaders, Q[l].semWriters, Q[l].mutex}
      OBVIOUS
    <3>1. CASE l = i
      BY <1>2, <1>4, <1>6, <3>1
    <3>2. CASE l # i
      BY <1>2, <1>4, <3>2 DEF Tidy
    <3>. QED BY <3>1, <3>2
  <2>. QED BY <1>3, <1>5, <2>1, <2>2 DEF Tidy
<1>. QED
  BY <1>2, <1>4, <1>7, <1>8 DEF Shut


LEMMA CloseBodyKept ==
    ASSUME NEW o, NEW s, NEW P, NEW sh, NEW i \in Slots,
           Kept(o, s, P, Holding(o.pipes, i), sh), NEW t, t = CloseBody(o, i)
    PROVE  /\ Kept(t, s, P, {}, sh)
           /\ \A j \in Slots : Usable(t.pipes[j]) => j # i
<1>. DEFINE p == o.pipes[i]
            u == SignalReaders(o, p.semReaders)
            v == SemPostOn(u, p.mutex)
            d1 == SemDestroyOn(v, p.semReaders)
            d2 == SemDestroyOn(d1, p.semWriters)
            d3 == SemDestroyOn(d2, p.mutex)
            q == [ClosedPipe EXCEPT !.buffer = p.buffer, !.mutex = p.mutex]
            Q == [o.pipes EXCEPT ![i] = q]
<1>0. /\ o.pipes \in [Slots -> Pipe] /\ p \in Pipe /\ p.writers \in {0, 1}
      /\ Usable(p) => p.writers = 1
  BY DEF Kept, Tidy, Pipe
<1>1. CASE p.writers = 0
  <2>1. t = SemPostOn(o, p.mutex)
    BY <1>1 DEF CloseBody
  <2>2. Kept(t, s, P, {}, sh) /\ t.pipes = o.pipes
    BY <2>1, KeptUnlock DEF SameRest
  <2>. QED BY <1>0, <1>1, <2>2
<1>2. CASE p.writers = 1
  <2>1. t = [d3 EXCEPT !.pipes[i] = q]
    <3>1. p.writers # 0 /\ ~ (p.writers > 1)
      BY <1>2
    <3>. QED BY <3>1 DEF CloseBody
  <2>2. Kept(u, s, P, Holding(o.pipes, i), sh) /\ SameRest(o, u)
    BY SignalKept
  <2>. HIDE DEF u
  <2>3. u.pipes[i].mutex = p.mutex /\ Kept(u, s, P, Holding(u.pipes, i), sh) /\ u.pipes = o.pipes
    BY <2>2 DEF SameRest, Holding
  <2>4. Kept(v, s, P, {}, sh) /\ SameRest(u, v)
    BY <2>3, KeptUnlock
  <2>. HIDE DEF v
  <2>5. Shaped(v) /\ v.pipes = o.pipes /\ Tidy(v.sems, o.pipes, v.next_sem_id, {})
    BY <2>3, <2>4 DEF SameRest, Kept
  <2>6. /\ Shaped(d1) /\ SameRest(v, d1) /\ d1.k = v.k
        /\ d1.sems = Destroyed(v.sems, p.semReaders)
    BY <2>5, DestroyFields
  <2>. HIDE DEF d1
  <2>7. /\ Shaped(d2) /\ SameRest(d1, d2) /\ d2.k = d1.k
        /\ d2.sems = Destroyed(d1.sems, p.semWriters)
    BY <2>6, DestroyFields
  <2>. HIDE DEF d2
  <2>8. /\ Shaped(d3) /\ SameRest(d2, d3) /\ d3.k = d2.k
        /\ d3.sems = Destroyed(d2.sems, p.mutex)
    BY <2>7, DestroyFields
  <2>. HIDE DEF d3
  <2>9. /\ d3.k = v.k /\ d3.pipes = o.pipes /\ d3.call = v.call
        /\ d3.next_sem_id = v.next_sem_id
    BY <2>5, <2>6, <2>7, <2>8 DEF SameRest
  <2>10. /\ Shaped(t) /\ t.k = v.k /\ t.sems = d3.sems /\ t.pipes = Q
         /\ t.call = v.call /\ t.next_sem_id = v.next_sem_id
    <3>1. d3 = Of(v.k, d3.sems, o.pipes, v.next_sem_id, v.call, d3.delivered)
      BY <2>8, <2>9 DEF Shaped
    <3>. HIDE DEF q
    <3>2. t = Of(v.k, d3.sems, Q, v.next_sem_id, v.call, d3.delivered)
      BY <2>1, <3>1 DEF Of
    <3>. HIDE DEF Q
    <3>. QED BY <3>2 DEF Of, Shaped
  <2>11. /\ q \in Pipe /\ ~ q.isOpen /\ q.semReaders = -1 /\ q.semWriters = -1
         /\ q.mutex = p.mutex
    <3>1. p.buffer \in [Index -> Bytes \cup {0}] /\ p.mutex \in Int
      BY <1>0 DEF Pipe
    <3>2. ClosedPipe \in Pipe
      <4>1. 0 \in Index /\ 0 \in 0 .. PIPE_BUFFER_SIZE
        BY Ids DEF Index
      <4>. QED BY <4>1 DEF ClosedPipe, Pipe
    <3>3. q \in Pipe
      BY <3>1, <3>2 DEF Pipe
    <3>. QED BY <3>3 DEF ClosedPipe
  <2>. HIDE DEF q
  <2>12. /\ Tidy(v.sems, Q, v.next_sem_id, {}) /\ ~ Usable(Q[i])
         /\ \A j \in Slots : Usable(Q[j]) => Usable(o.pipes[j]) /\ Q[j] = o.pipes[j]
         /\ \A j \in Slots : j # i => Q[j] = o.pipes[j]
         /\ ~ Q[i].isOpen
         /\ Foreign(Q, p.semReaders) /\ Foreign(Q, p.semWriters) /\ Foreign(Q, p.mutex)
    <3>1. Q = [o.pipes EXCEPT ![i] = q]
      OBVIOUS
    <3>. HIDE DEF Q
    <3>2. Shut(v.sems, o.pipes, Q, v.next_sem_id, i)
      BY <2>5, <2>11, <3>1, TidyClosed
    <3>. QED BY <3>2 DEF Shut
  <2>. HIDE DEF Q
  <2>13. Tidy(t.sems, Q, t.next_sem_id, {})
    <3>1. Tidy(d1.sems, Q, v.next_sem_id, {})
      BY <2>6, <2>12, TidyDestroyed
    <3>2. Tidy(d2.sems, Q, v.next_sem_id, {})
      BY <2>7, <2>12, <3>1, TidyDestroyed
    <3>3. Tidy(d3.sems, Q, v.next_sem_id, {})
      BY <2>8, <2>12, <3>2, TidyDestroyed
    <3>. QED BY <2>10, <3>3
  <2>14. Calls(t.k, Q, t.call, sh)
    <3>1. Calls(v.k, o.pipes, v.call, sh) /\ \A c \in Ctx : v.call[c].slot \in Slots
      BY <2>4, <2>5 DEF Kept, Calls, Call
    <3>. QED BY <2>10, <2>12, <3>1 DEF Calls
  <2>15. Fades(P, Q)
    <3>1. Fades(P, o.pipes)
      BY DEF Kept
    <3>. QED BY <2>12, <3>1 DEF Fades
  <2>16. Inv(v.k) /\ IsShell(s, sh) /\ Passes(s, v.k, sh)
    BY <2>4 DEF Kept
  <2>. QED BY <2>10, <2>12, <2>13, <2>14, <2>15, <2>16 DEF Kept
<1>. QED
  BY <1>0, <1>1, <1>2

\* The scheduler goes on at the end of a call.
LEMMA KeptScheduler ==
    ASSUME NEW o, NEW s, NEW P, NEW S, NEW sh, Kept(o, s, P, S, sh),
           NEW u, Inv(u), Passes(o.k, u, sh), NEW t, t = [o EXCEPT !.k = u]
    PROVE  Kept(t, s, P, S, sh)
<1>1. t = Of(u, o.sems, o.pipes, o.next_sem_id, o.call, o.delivered)
  <2>1. o = Of(o.k, o.sems, o.pipes, o.next_sem_id, o.call, o.delivered)
    BY DEF Kept, Shaped
  <2>. QED BY <2>1 DEF Of
<1>2. Shaped(t) /\ SameRest(o, t) /\ t.k = u /\ t.sems = o.sems
  BY <1>1 DEF Of, Shaped, SameRest
<1>3. Tidy(t.sems, o.pipes, o.next_sem_id, S)
  BY <1>2 DEF Kept
<1>. QED
  BY <1>2, <1>3, SemaphoresKept

LEMMA YieldBeforeExitKept ==
    ASSUME NEW o, NEW s, NEW P, NEW sh, Kept(o, s, P, {}, sh),
           NEW c, Caller(s, c, sh), NEW t, t = YieldBeforeExit(o, c)
    PROVE  Kept(t, s, P, {}, sh)
<1>. DEFINE u == GoOnAt(o, c, "exitKill", 0, 0)
<1>1. Kept(u, s, P, {}, sh)
  <2>1. c \in Ctx /\ 0 \in Slots
    BY Ids DEF Caller, Slots
  <2>. QED BY <2>1, PointsKept, KeptGoOn
<1>2. t = [u EXCEPT !.k = Yield(u.k)]
  BY DEF YieldBeforeExit
<1>. HIDE DEF u
<1>3. Inv(Yield(u.k)) /\ Passes(u.k, Yield(u.k), sh)
  BY <1>1, KeptShell, InvIsMid, YieldPasses DEF Kept
<1>. QED
  BY <1>1, <1>2, <1>3, KeptScheduler

LEMMA ExitKillsKept ==
    ASSUME NEW o, NEW s, NEW P, NEW sh, Kept(o, s, P, {}, sh),
           NEW c, Caller(s, c, sh), Self(o) = c, NEW t \in ExitKills(o, c)
    PROVE  Kept(t, s, P, {}, sh)
<1>1. /\ o.k.currentPid \in Targets /\ o.k.currentProcess = c /\ c # NULL
      /\ Inv(o.k) /\ IsShell(o.k, sh) /\ sh \in Ctx
  BY CallerPid, KeptShell, SchedulerAssumption DEF Self, Kept, Caller
<1>2. o.k.pid[c] \in Targets
  BY <1>1 DEF Inv, Cpu
<1>3. PICK u \in KillProcess(o.k, o.k.pid[c]) : t = [o EXCEPT !.k = Yield(u)]
  BY DEF ExitKills
<1>4. Inv(u) /\ Passes(o.k, u, sh)
  BY <1>1, <1>2, <1>3, KillProcessPasses
<1>5. Inv(Yield(u)) /\ Passes(u, Yield(u), sh)
  BY <1>1, <1>4, InvIsMid, YieldPasses
<1>6. Passes(o.k, Yield(u), sh)
  BY <1>1, <1>4, <1>5, PassesComposes
<1>. QED
  BY <1>3, <1>5, <1>6, KeptScheduler

LEMMA ExitKept ==
    ASSUME NEW o, NEW s, NEW P, NEW sh, Kept(o, s, P, {}, sh),
           NEW c, Caller(s, c, sh), Self(o) = c, NEW t \in Exit(o, c)
    PROVE  Kept(t, s, P, {}, sh)
<1>. DEFINE fd == o.k.fdOut[c]
            i == fd - 3
            w == SemWaitOn(o, o.pipes[i].mutex)
<1>1. CASE fd < 3
  <2>1. t \in ExitKills(o, c)
    BY <1>1 DEF Exit
  <2>. QED BY <2>1, ExitKillsKept
<1>2. CASE ~ (fd < 3) /\ ~ IsOpen(o, fd)
  <2>1. t = YieldBeforeExit(o, c)
    BY <1>2 DEF Exit
  <2>. QED BY <2>1, YieldBeforeExitKept
<1>3. CASE ~ (fd < 3) /\ IsOpen(o, fd)
  <2>1. i \in Slots
    BY <1>3 DEF IsOpen
  <2>2. t = IF Self(w) = c THEN YieldBeforeExit(CloseBody(w, i), c)
            ELSE GoOnAt(w, c, "exitCloseBody", i, 0)
    BY <1>3 DEF Exit
  <2>. HIDE DEF i
  <2>3. /\ Kept(w, s, P, Holding(w.pipes, i), sh)
        /\ Self(w) # c => ~ Usable(w.pipes[i]) /\ Kept(w, s, P, {}, sh)
    BY <2>1, LockKept
  <2>. HIDE DEF w
  <2>4. CASE Self(w) = c
    <3>. DEFINE u == CloseBody(w, i)
    <3>1. Kept(u, s, P, {}, sh)
      BY <2>1, <2>3, CloseBodyKept
    <3>2. t = YieldBeforeExit(u, c)
      BY <2>2, <2>4
    <3>. HIDE DEF u
    <3>. QED BY <3>1, <3>2, YieldBeforeExitKept
  <2>5. CASE Self(w) # c
    <3>1. "exitCloseBody" \in Points /\ c \in Ctx
      BY DEF Points, Caller
    <3>2. t = GoOnAt(w, c, "exitCloseBody", i, 0) /\ Kept(w, s, P, {}, sh) /\ ~ Usable(w.pipes[i])
      BY <2>2, <2>3, <2>5
    <3>. QED BY <2>1, <3>1, <3>2, PointsKept, KeptGoOn
  <2>. QED BY <2>4, <2>5
<1>. QED
  BY <1>1, <1>2, <1>3

LEMMA ResumeKept ==
    ASSUME NEW o, NEW s, NEW P, NEW sh, Kept(o, s, P, {}, sh),
           NEW c, Caller(s, c, sh), Self(o) = c, o.call[c].at # "user",
           NEW t \in Resume(o, c)
    PROVE  Kept(t, s, P, {}, sh)
<1>. DEFINE at == o.call[c].at
            i == o.call[c].slot
            b == o.call[c].value
<1>1. /\ at \in Points \ {"user"} /\ i \in Slots /\ c \in Ctx
      /\ at \in BodyPoints => ~ Usable(o.pipes[i])
      /\ at \in {"writeMutex", "writeBody"} => b \in Bytes
  BY DEF Kept, Calls, Call, Caller
<1>2. at \in BodyPoints => Kept(o, s, P, Holding(o.pipes, i), sh)
  BY <1>1 DEF Holding
<1>. HIDE DEF at, i, b
<1>3. CASE at = "readMutex"
  <2>1. t = ReadMutex(o, c, i)
    BY <1>3 DEF Resume, at, i
  <2>. QED BY <1>1, <2>1, ReadMutexKept
<1>4. CASE at = "readBody"
  <2>1. t = ReadBody(o, c, i)
    BY <1>4 DEF Resume, at, i
  <2>2. Kept(o, s, P, Holding(o.pipes, i), sh)
    BY <1>2, <1>4 DEF BodyPoints
  <2>. QED BY <1>1, <2>1, <2>2, ReadBodyKept
<1>5. CASE at = "readAgain"
  <2>1. t = ReadLoop(o, c, i)
    BY <1>5 DEF Resume, at, i
  <2>. QED BY <1>1, <2>1, ReadLoopKept
<1>6. CASE at = "writeMutex"
  <2>1. t = WriteMutex(o, c, i, b)
    BY <1>6 DEF Resume, at, i, b
  <2>. QED BY <1>1, <1>6, <2>1, WriteMutexKept
<1>7. CASE at = "writeBody"
  <2>1. t = WriteBody(o, c, i, b)
    BY <1>7 DEF Resume, at, i, b
  <2>2. Kept(o, s, P, Holding(o.pipes, i), sh)
    BY <1>2, <1>7 DEF BodyPoints
  <2>. QED BY <1>1, <1>7, <2>1, <2>2, WriteBodyKept
<1>8. CASE at = "closeBody"
  <2>. DEFINE u == CloseBody(o, i)
  <2>1. t = Return(u, c, 0)
    BY <1>8 DEF Resume, at, i
  <2>2. Kept(o, s, P, Holding(o.pipes, i), sh)
    BY <1>2, <1>8 DEF BodyPoints
  <2>3. Kept(u, s, P, {}, sh)
    BY <1>1, <2>2, CloseBodyKept
  <2>. HIDE DEF u
  <2>. QED BY <1>1, <2>1, <2>3, PointsKept, KeptReturn
<1>9. CASE at = "exitCloseBody"
  <2>. DEFINE u == CloseBody(o, i)
  <2>1. t = YieldBeforeExit(u, c)
    BY <1>9 DEF Resume, at, i
  <2>2. Kept(o, s, P, Holding(o.pipes, i), sh)
    BY <1>2, <1>9 DEF BodyPoints
  <2>3. Kept(u, s, P, {}, sh)
    BY <1>1, <2>2, CloseBodyKept
  <2>. HIDE DEF u
  <2>. QED BY <2>1, <2>3, YieldBeforeExitKept
<1>10. CASE at = "exitKill"
  <2>1. t \in ExitKills(o, c)
    BY <1>10 DEF Resume, at
  <2>. QED BY <2>1, ExitKillsKept
<1>. QED
  BY <1>1, <1>3, <1>4, <1>5, <1>6, <1>7, <1>8, <1>9, <1>10 DEF Points


-----------------------------------------------------------------------------
(***************************************************************************)
(* The steps in which the shell does nothing.                              *)
(***************************************************************************)
Labels == ShellPoints \cup {"none", "write", "read"}

\* The line after such a step: a process that the shell waits for cannot have
\* died without waking it.
LEMMA FamilyKept ==
    ASSUME NEW s, Inv(s), NEW t, NEW at, NEW bt, NEW p, NEW sh, IsShell(s, sh),
           Family(s, at, p, sh), Passes(s, t, sh), bt[sh] = at[sh],
           \A c \in Ctx \ {sh} : bt[c] \in {"none", "write", "read"}
    PROVE  Family(t, bt, p, sh)
<1>. DEFINE label == at[sh]
<1>0. /\ sh \in Ctx /\ label \in ShellPoints
      /\ p \in [1 .. 2 -> (Pids \ {SHELL_PID}) \cup {NO_PROCESS}]
  BY DEF IsShell, Family
<1>1. ASSUME NEW c \in Ctx \ {sh}, LiveIn(t, c)
      PROVE  /\ t.pid[c] # IDLE_PID => Expected(label, p, t.pid[c])
             /\ Target(label, p, t.pid[c]) <=> Awaits(t, sh, c)
             /\ Awaits(t, sh, c) => t.status[sh] = "BLOCKED"
  <2>1. /\ LiveIn(s, c) /\ t.waitingList[c] = s.waitingList[c] /\ t.pid[c] = s.pid[c]
    BY <1>1 DEF Passes, LiveIn, Live
  <2>2. /\ s.pid[c] # IDLE_PID => Expected(label, p, s.pid[c])
        /\ Target(label, p, s.pid[c]) <=> Awaits(s, sh, c)
        /\ Awaits(s, sh, c) => s.status[sh] = "BLOCKED"
    BY <2>1 DEF Family
  <2>3. Awaits(t, sh, c) <=> Awaits(s, sh, c)
    BY <2>1 DEF Awaits
  <2>4. Awaits(s, sh, c) => t.status[sh] = "BLOCKED"
    <3>. SUFFICES ASSUME Awaits(s, sh, c), t.status[sh] # "BLOCKED" PROVE FALSE
      OBVIOUS
    <3>1. PICK d \in Ctx : LiveIn(s, d) /\ ~ LiveIn(t, d) /\ Awaits(s, sh, d)
      BY <2>2 DEF Passes, Freed, Awaits
    <3>2. d # sh
      BY <3>1 DEF Passes, IsShell
    <3>3. Target(label, p, s.pid[d]) /\ Target(label, p, s.pid[c])
      BY <2>2, <3>1, <3>2 DEF Family
    <3>4. s.pid[d] = s.pid[c]
      BY <3>3 DEF Target
    <3>. QED BY <1>1, <2>1, <3>1, <3>4, PidsDiffer DEF LiveIn
  <2>. QED BY <2>1, <2>2, <2>3, <2>4
<1>2. bt[sh] = label
  OBVIOUS
<1>. HIDE DEF label
<1>. QED
  BY <1>0, <1>1, <1>2 DEF Family

LEMMA FitsKept ==
    ASSUME NEW P, NEW Q, Fades(P, Q), NEW at, NEW bt, NEW fd, NEW sh, Fits(P, at, fd, sh),
           bt[sh] = at[sh]
    PROVE  Fits(Q, bt, fd, sh)
<1>1. \A i \in Slots : Usable(Q[i]) => Usable(P[i])
  BY DEF Fades, Usable
<1>2. CASE at[sh] = "prompt"
  BY <1>1, <1>2 DEF Fits
<1>3. CASE at[sh] # "prompt"
  BY <1>1, <1>3 DEF Fits, Fades
<1>. QED
  BY <1>2, <1>3

LEMMA FollowsCalls ==
    ASSUME NEW s, NEW P, NEW C, NEW sh, Calls(s, P, C, sh), NEW B,
           B = [c \in Ctx |-> IF s.status[c] = "FREED" THEN InProgram ELSE C[c]]
    PROVE  Calls(s, P, B, sh) /\ \A c \in Ctx : s.status[c] = "FREED" => B[c] = InProgram
<1>1. InProgram \in Call /\ InProgram.at = "user"
  <2>1. 0 \in Slots
    BY Ids DEF Slots
  <2>. QED BY <2>1 DEF InProgram, Call, Points
<1>2. C \in [Ctx -> Call]
  BY DEF Calls
<1>3. B \in [Ctx -> Call]
  BY <1>1, <1>2
<1>4. \A c \in Ctx : B[c] = IF s.status[c] = "FREED" THEN InProgram ELSE C[c]
  OBVIOUS
<1>. QED
  BY <1>1, <1>3, <1>4 DEF Calls, BodyPoints

\* What is to be shown of a step that leaves the state o behind.
LEMMA OverFollows ==
    ASSUME NEW sh, NEW o, Follows(o), Inv(o.k), IsShell(o.k, sh),
           Tidy(o.sems, o.pipes, o.next_sem_id, {}), Calls(o.k, o.pipes, o.call, sh),
           pc' \in [Ctx -> Labels], line' \in Grounds \X Grounds,
           Family(o.k, pc', pids', sh), Fits(o.pipes, pc', pipe_fd', sh)
    PROVE  OverInv'
<1>1. /\ k' = o.k /\ sems' = o.sems /\ pipes' = o.pipes /\ next_sem_id' = o.next_sem_id
      /\ call' = [c \in Ctx |-> IF o.k.status[c] = "FREED" THEN InProgram ELSE o.call[c]]
  BY DEF Follows
<1>2. /\ Calls(k', pipes', call', sh)
      /\ \A c \in Ctx : k'.status[c] = "FREED" => call'[c] = InProgram
  BY <1>1, FollowsCalls
<1>3. sh \in Ctx
  BY DEF IsShell
<1>4. Over(sh)'
  BY <1>1, <1>2 DEF Over, Labels
<1>. QED
  BY <1>3, <1>4 DEF OverInv

LEMMA HereKept ==
    ASSUME NEW sh, Over(sh)
    PROVE  /\ Kept(Here, k, pipes, {}, sh) /\ Self(Here) = k.currentProcess
           /\ Here.call = call /\ Here.pipes = pipes /\ Here.k = k
<1>1. /\ Shaped(Here) /\ Here.k = k /\ Here.sems = sems /\ Here.pipes = pipes
      /\ Here.next_sem_id = next_sem_id /\ Here.call = call
  BY DEF Here, Shaped, Of
<1>2. Passes(k, k, sh) /\ Fades(pipes, pipes)
  BY PassesUnchanged DEF Over, IsShell, Fades
<1>. QED
  BY <1>1, <1>2 DEF Kept, Over, Self

LEMMA QuietOver ==
    ASSUME NEW sh, Over(sh), NEW o, Kept(o, k, pipes, {}, sh), Follows(o),
           UNCHANGED shellVars, pc' \in [Ctx -> Labels], pc'[sh] = pc[sh],
           \A c \in Ctx \ {sh} : pc'[c] \in {"none", "write", "read"}
    PROVE  OverInv'
<1>1. /\ Inv(k) /\ IsShell(k, sh) /\ Family(k, pc, pids, sh) /\ line \in Grounds \X Grounds
      /\ Fits(pipes, pc, pipe_fd, sh)
  BY DEF Over
<1>2. /\ Inv(o.k) /\ Passes(k, o.k, sh) /\ Tidy(o.sems, o.pipes, o.next_sem_id, {})
      /\ Calls(o.k, o.pipes, o.call, sh) /\ Fades(pipes, o.pipes)
  BY DEF Kept
<1>3. IsShell(o.k, sh)
  BY KeptShell
<1>4. pids' = pids /\ pipe_fd' = pipe_fd /\ line' = line
  BY DEF shellVars
<1>5. Family(o.k, pc', pids', sh)
  <2>1. Family(o.k, pc', pids, sh)
    BY <1>1, <1>2, FamilyKept
  <2>. QED BY <1>4, <2>1
<1>6. Fits(o.pipes, pc', pipe_fd', sh)
  <2>1. Fits(o.pipes, pc', pipe_fd, sh)
    BY <1>1, <1>2, FitsKept
  <2>. QED BY <1>4, <2>1
<1>. QED
  BY <1>1, <1>2, <1>3, <1>4, <1>5, <1>6, OverFollows

\* The process that makes a call.
LEMMA CallerHere ==
    ASSUME NEW sh, Over(sh), NEW c \in Ctx, c # sh, c = k.currentProcess,
           k.pid[c] # IDLE_PID
    PROVE  Caller(k, c, sh)
<1>1. c # NULL
  BY SchedulerAssumption
<1>2. k.status[c] \in {"RUNNING", "TERMINATED"}
  BY <1>1 DEF Over, Inv, Cpu
<1>. QED
  BY <1>2 DEF Caller

\* A program that is not the shell makes a call or goes on with one.
LEMMA ProgramOver ==
    ASSUME NEW sh, Over(sh), ProgramRuns, pc[Me] \in {"write", "read"}
    PROVE  Me \in Ctx /\ Caller(k, Me, sh) /\ Self(Here) = Me
<1>1. Me \in Ctx /\ Me = k.currentProcess /\ k.pid[Me] # IDLE_PID
  BY DEF Over, Inv, Common, Kernel, ProgramRuns, UserRuns, Me
<1>2. Me # sh
  BY DEF Over, Family, ShellPoints
<1>. QED
  BY <1>1, <1>2, CallerHere, HereKept

\* Nothing but the kernel changes.
LEMMA QuietLabels ==
    ASSUME NEW sh, Over(sh), pc' = pc
    PROVE  /\ pc' \in [Ctx -> Labels] /\ pc'[sh] = pc[sh]
           /\ \A c \in Ctx \ {sh} : pc'[c] \in {"none", "write", "read"}
BY DEF Over, Labels, Family

LEMMA WriterOver ==
    ASSUME NEW sh, Over(sh), WriterWrites
    PROVE  OverInv'
<1>1. PICK byte \in Bytes : Follows(WritePipe(Here, Me, k.fdOut[Me], byte))
  BY DEF WriterWrites
<1>2. Me \in Ctx /\ Caller(k, Me, sh) /\ Self(Here) = Me
  BY ProgramOver DEF WriterWrites, Running
<1>. DEFINE o == WritePipe(Here, Me, k.fdOut[Me], byte)
<1>3. Kept(Here, k, pipes, {}, sh)
  BY HereKept
<1>4. Kept(o, k, pipes, {}, sh)
  BY <1>2, <1>3, WritePipeKept
<1>5. pc' = pc /\ UNCHANGED shellVars
  BY DEF WriterWrites
<1>. HIDE DEF o
<1>. QED
  BY <1>1, <1>4, <1>5, QuietLabels, QuietOver DEF o

LEMMA ReaderOver ==
    ASSUME NEW sh, Over(sh), ReaderReads
    PROVE  OverInv'
<1>. DEFINE o == ReadPipe(Here, Me, k.fdIn[Me])
<1>1. Follows(o) /\ pc' = pc /\ UNCHANGED shellVars
  BY DEF ReaderReads
<1>2. Me \in Ctx /\ Caller(k, Me, sh) /\ Self(Here) = Me
  BY ProgramOver DEF ReaderReads, Running
<1>3. Kept(Here, k, pipes, {}, sh)
  BY HereKept
<1>4. Kept(o, k, pipes, {}, sh)
  BY <1>2, <1>3, ReadPipeKept
<1>. HIDE DEF o
<1>. QED
  BY <1>1, <1>4, QuietLabels, QuietOver

LEMMA ExitOver ==
    ASSUME NEW sh, Over(sh), ProgramExits
    PROVE  OverInv'
<1>1. PICK o \in Exit(Here, Me) : Follows(o)
  BY DEF ProgramExits
<1>2. Me \in Ctx /\ Caller(k, Me, sh) /\ Self(Here) = Me
  BY ProgramOver DEF ProgramExits, Running
<1>3. Kept(Here, k, pipes, {}, sh)
  BY HereKept
<1>4. Kept(o, k, pipes, {}, sh)
  BY <1>1, <1>2, <1>3, ExitKept
<1>5. pc' = [pc EXCEPT ![Me] = "none"] /\ UNCHANGED shellVars
  BY DEF ProgramExits, Goto
<1>6. /\ pc' \in [Ctx -> Labels] /\ pc'[sh] = pc[sh]
      /\ \A c \in Ctx \ {sh} : pc'[c] \in {"none", "write", "read"}
  <2>1. Me # sh
    BY <1>2 DEF Caller
  <2>. QED BY <1>2, <1>5, <2>1 DEF Over, Labels, Family, IsShell
<1>. QED
  BY <1>1, <1>4, <1>5, <1>6, QuietOver

LEMMA KernelOver ==
    ASSUME NEW sh, Over(sh), KernelStep
    PROVE  OverInv'
<1>1. PICK o \in Resume(Here, k.currentProcess) : Follows(o)
  BY DEF KernelStep, ResumeCall
<1>2. PICK c \in Ctx : c = k.currentProcess /\ call[c].at # "user"
  BY DEF KernelStep, ResumeCall, InterruptsOn
<1>3. c # NULL /\ k.status[c] # "FREED"
  BY <1>2, SchedulerAssumption DEF Over, Inv, Cpu
<1>4. c # sh /\ k.pid[c] # IDLE_PID
  BY <1>2, <1>3 DEF Over, Calls
<1>5. Caller(k, c, sh)
  BY <1>3, <1>4 DEF Caller
<1>6. Kept(Here, k, pipes, {}, sh) /\ Self(Here) = c /\ Here.call[c].at # "user"
  BY <1>2, HereKept
<1>7. Kept(o, k, pipes, {}, sh)
  BY <1>1, <1>2, <1>5, <1>6, ResumeKept
<1>8. pc' = pc /\ UNCHANGED shellVars
  BY DEF KernelStep
<1>. QED
  BY <1>1, <1>7, <1>8, QuietLabels, QuietOver

LEMMA SwitchOver ==
    ASSUME NEW sh, Over(sh), NEW u, Inv(u), Passes(k, u, sh),
           Follows([Here EXCEPT !.k = u]), pc' = pc, UNCHANGED shellVars
    PROVE  OverInv'
<1>. DEFINE o == [Here EXCEPT !.k = u]
<1>1. Kept(Here, k, pipes, {}, sh) /\ Here.k = k
  BY HereKept
<1>2. Kept(o, k, pipes, {}, sh)
  BY <1>1, KeptScheduler
<1>. HIDE DEF o
<1>3. Follows(o)
  BY DEF o
<1>. QED
  BY <1>2, <1>3, QuietLabels, QuietOver

LEMMA TickOver ==
    ASSUME NEW sh, Over(sh), Tick
    PROVE  OverInv'
<1>1. Follows([Here EXCEPT !.k = Schedule(@)]) /\ pc' = pc /\ UNCHANGED shellVars
  BY DEF Tick, PipeTick
<1>2. Here.k = k /\ Inv(k) /\ sh \in Ctx
  BY HereKept DEF Over, IsShell
<1>3. [Here EXCEPT !.k = Schedule(@)] = [Here EXCEPT !.k = Schedule(k)]
  BY <1>2
<1>4. Inv(Schedule(k)) /\ Passes(k, Schedule(k), sh)
  BY <1>2, SchedulePasses
<1>. QED
  BY <1>1, <1>3, <1>4, SwitchOver

LEMMA CtrlCOver ==
    ASSUME NEW sh, Over(sh), CtrlCPressed
    PROVE  OverInv'
<1>1. PICK t \in KillForegroundProcess(k) : Follows([Here EXCEPT !.k = t])
  BY DEF CtrlCPressed, PipeCtrlC
<1>2. Inv(t) /\ Passes(k, t, sh)
  BY <1>1, ForegroundPasses DEF Over
<1>3. pc' = pc /\ UNCHANGED shellVars
  BY DEF CtrlCPressed
<1>. QED
  BY <1>1, <1>2, <1>3, SwitchOver

-----------------------------------------------------------------------------
(***************************************************************************)
(* The steps of the shell.                                                 *)
(***************************************************************************)

\* While the shell runs it has waited for nobody who lives.
LEMMA ShellRuns ==
    ASSUME NEW sh, Over(sh), ProgramRuns, pc[Me] \in ShellPoints
    PROVE  /\ Me = sh /\ sh \in Ctx /\ sh = k.currentProcess
           /\ k.status[sh] = "RUNNING" /\ k.pid[sh] = SHELL_PID /\ k.currentPid = SHELL_PID
           /\ \A c \in Ctx \ {sh} : LiveIn(k, c) =>
                ~ Awaits(k, sh, c) /\ ~ Target(pc[sh], pids, k.pid[c])
           /\ Undead(k)
<1>1. Me \in Ctx /\ Me = k.currentProcess
  BY DEF Over, Inv, Common, Kernel, ProgramRuns, UserRuns, Me
<1>2. Me = sh
  BY <1>1 DEF Over, Family, ShellPoints
<1>3. Inv(k) /\ k.status[sh] \in Live /\ k.pid[sh] = SHELL_PID
  BY DEF Over, IsShell, LiveIn
<1>4. Undead(k) /\ k.status[sh] = "RUNNING" /\ k.currentPid = k.pid[sh]
  BY <1>1, <1>2, <1>3, RunningAlone
<1>5. \A c \in Ctx \ {sh} : LiveIn(k, c) => ~ Awaits(k, sh, c)
  BY <1>4 DEF Over, Family
<1>6. \A c \in Ctx \ {sh} : LiveIn(k, c) => ~ Target(pc[sh], pids, k.pid[c])
  BY <1>5 DEF Over, Family
<1>. QED
  BY <1>1, <1>2, <1>3, <1>4, <1>5, <1>6

\* The line after the shell has started, or failed to start, its n-th process.
StartPoints == {<< "start1", "start2", 1 >>, << "start2", "wait1", 2 >>}

LEMMA FamilyStarted ==
    ASSUME NEW s, NEW t, NEW at, NEW bt, NEW p, NEW q, NEW sh, s.status[sh] = "RUNNING",
           Family(s, at, p, sh), NEW n, << at[sh], bt[sh], n >> \in StartPoints,
           q \in [1 .. 2 -> (Pids \ {SHELL_PID}) \cup {NO_PROCESS}],
           \A i \in 1 .. 2 : i # n => q[i] = p[i],
           \A c \in Ctx \ {sh} : bt[c] \in {"none", "write", "read"},
           \A c \in Ctx \ {sh} : LiveIn(t, c) =>
                \/ LiveIn(s, c) /\ t.pid[c] = s.pid[c] /\ t.waitingList[c] = s.waitingList[c]
                \/ t.waitingList[c] = << >> /\ q[n] \in {0, t.pid[c]}
    PROVE  Family(t, bt, q, sh)
<1>1. \/ at[sh] = "start1" /\ bt[sh] = "start2" /\ n = 1
      \/ at[sh] = "start2" /\ bt[sh] = "wait1" /\ n = 2
  BY DEF StartPoints
<1>2. bt[sh] \in ShellPoints /\ \A pid : ~ Target(bt[sh], q, pid)
  BY <1>1 DEF ShellPoints, Target
<1>3. ASSUME NEW c \in Ctx \ {sh}, LiveIn(t, c)
      PROVE  /\ t.pid[c] # IDLE_PID => Expected(bt[sh], q, t.pid[c])
             /\ ~ Awaits(t, sh, c)
  <2>1. CASE LiveIn(s, c) /\ t.pid[c] = s.pid[c] /\ t.waitingList[c] = s.waitingList[c]
    <3>1. /\ s.pid[c] # IDLE_PID => Expected(at[sh], p, s.pid[c])
          /\ ~ Awaits(s, sh, c)
      BY <2>1 DEF Family
    <3>2. ASSUME Expected(at[sh], p, s.pid[c])
          PROVE  Expected(bt[sh], q, s.pid[c])
      <4>1. CASE at[sh] = "start1"
        BY <3>2, <4>1 DEF Expected
      <4>2. CASE at[sh] = "start2" /\ bt[sh] = "wait1" /\ n = 2
        <5>1. p[1] \in {0, s.pid[c]}
          BY <3>2, <4>2 DEF Expected
        <5>2. q[1] = p[1]
          BY <4>2
        <5>. QED BY <4>2, <5>1, <5>2 DEF Expected
      <4>. QED BY <1>1, <4>1, <4>2
    <3>. QED BY <2>1, <3>1, <3>2 DEF Awaits
  <2>2. CASE t.waitingList[c] = << >> /\ q[n] \in {0, t.pid[c]}
    <3>1. Expected(bt[sh], q, t.pid[c])
      BY <1>1, <2>2 DEF Expected
    <3>2. ~ Awaits(t, sh, c)
      BY <2>2 DEF Awaits, ToSet
    <3>. QED BY <3>1, <3>2
  <2>. QED BY <1>3, <2>1, <2>2
<1>. QED
  BY <1>2, <1>3 DEF Family

LEMMA StartOver ==
    ASSUME NEW sh, Over(sh), NEW label, Running(label), NEW n, NEW next,
           << label, next, n >> \in StartPoints, NEW fds \in FdPairs,
           NEW program \in {"write", "read"}, Starts(n, fds, program, next),
           line' = line, pipe_fd' = pipe_fd
    PROVE  OverInv'
<1>0. /\ label \in ShellPoints /\ next \in ShellPoints /\ next # "prompt" /\ label # "prompt"
      /\ n \in 1 .. 2
  BY DEF StartPoints, ShellPoints
<1>1. /\ ProgramRuns /\ pc[Me] = label /\ Me = sh /\ pc[sh] = label /\ sh \in Ctx
      /\ k.status[sh] = "RUNNING" /\ k.pid[sh] = SHELL_PID
  <2>1. ProgramRuns /\ pc[Me] = label
    BY DEF Running
  <2>. QED BY <1>0, <2>1, ShellRuns
<1>2. /\ Inv(k) /\ IsShell(k, sh) /\ pc \in [Ctx -> Labels] /\ Family(k, pc, pids, sh)
      /\ line \in Grounds \X Grounds /\ Tidy(sems, pipes, next_sem_id, {})
      /\ Calls(k, pipes, call, sh) /\ \A c \in Ctx : k.status[c] = "FREED" => call[c] = InProgram
      /\ Fits(pipes, pc, pipe_fd, sh)
  BY DEF Over, Labels
<1>3. pids \in [1 .. 2 -> (Pids \ {SHELL_PID}) \cup {NO_PROCESS}]
  BY <1>2 DEF Family
<1>4. /\ Here.k = k /\ Here.sems = sems /\ Here.pipes = pipes /\ Here.call = call
      /\ Here.next_sem_id = next_sem_id
  BY DEF Here
<1>5. CASE /\ pids' = [pids EXCEPT ![n] = Reported(n, NO_PROCESS)]
           /\ Goto(next)
           /\ UNCHANGED << pipeVars, left >>
  <2>1. Reported(n, NO_PROCESS) \in (Pids \ {SHELL_PID}) \cup {NO_PROCESS}
    <3>1. 0 \in Pids /\ 0 # SHELL_PID
      BY SchedulerAssumption DEF Pids, SHELL_PID
    <3>. QED BY <3>1 DEF Reported
  <2>2. /\ pids' \in [1 .. 2 -> (Pids \ {SHELL_PID}) \cup {NO_PROCESS}]
        /\ \A i \in 1 .. 2 : i # n => pids'[i] = pids[i]
    BY <1>0, <1>3, <1>5, <2>1
  <2>3. pc' = [pc EXCEPT ![sh] = next]
    BY <1>1, <1>5 DEF Goto
  <2>4. /\ pc' \in [Ctx -> Labels] /\ pc'[sh] = next
        /\ \A c \in Ctx \ {sh} : pc'[c] \in {"none", "write", "read"}
    BY <1>0, <1>1, <1>2, <2>3 DEF Labels, Family
  <2>5. Family(k, pc', pids', sh)
    <3>1. << pc[sh], pc'[sh], n >> \in StartPoints
      BY <1>1, <2>4
    <3>. QED BY <1>1, <1>2, <2>2, <2>4, <3>1, FamilyStarted
  <2>6. Fits(pipes, pc', pipe_fd', sh)
    BY <1>0, <1>1, <1>2, <2>4 DEF Fits
  <2>7. Over(sh)'
    BY <1>2, <1>5, <2>4, <2>5, <2>6 DEF Over, Labels, pipeVars
  <2>. QED BY <1>1, <2>7 DEF OverInv
<1>6. ASSUME NEW c \in Ctx, NEW pid \in Pids, k.status[c] = "FREED", IsMinFreePid(k, pid),
             Follows([Here EXCEPT !.k = CreateProcess(@, c, pid,
                [priority |-> 1, ground |-> line[n], fds |-> fds])]),
             pids' = [pids EXCEPT ![n] = Reported(n, pid)],
             pc' = [pc EXCEPT ![Me] = next, ![c] = program]
      PROVE  OverInv'
  <2>. DEFINE new == [priority |-> 1, ground |-> line[n], fds |-> fds]
              u == CreateProcess(k, c, pid, new)
              o == [Here EXCEPT !.k = u]
  <2>1. new \in AnyProgram
    <3>1. line[n] \in Grounds /\ 1 \in Priorities
      BY <1>0, <1>2, SchedulerAssumption DEF Priorities, MIN_PRIORITY
    <3>. QED BY <3>1 DEF AnyProgram
  <2>2. /\ Follows(o) /\ o.k = u /\ o.sems = sems /\ o.pipes = pipes /\ o.call = call
        /\ o.next_sem_id = next_sem_id
    BY <1>4, <1>6 DEF Here
  <2>. HIDE DEF o, new
  <2>3. /\ Inv(u) /\ u.status[c] = "READY" /\ u.pid[c] = pid /\ pid # IDLE_PID
        /\ \A d \in Ctx : d # c => u.status[d] = k.status[d] /\ u.pid[d] = k.pid[d]
    BY <1>2, <1>6, <2>1, ProcessCreated
  <2>4. u.waitingList[c] = << >> /\ \A d \in Ctx : d # c => u.waitingList[d] = k.waitingList[d]
    <3>1. k \in Kernel
      BY <1>2 DEF Inv, Common
    <3>. QED BY <1>6, <3>1, CreateWaitingList
  <2>. HIDE DEF u
  <2>5. c # sh /\ ToSet(u.waitingList[c]) = {} /\ LiveIn(u, sh) /\ LiveIn(u, c)
    BY <1>1, <1>6, <2>3, <2>4 DEF LiveIn, Live, ToSet
  <2>6. IsShell(u, sh)
    BY <1>2, <2>3, <2>4, <2>5 DEF IsShell, LiveIn
  <2>7. pid # SHELL_PID
    BY <1>1, <2>3, <2>5, <2>6, PidsDiffer DEF LiveIn, IsShell
  <2>8. Calls(u, pipes, call, sh)
    BY <1>2, <1>6, <2>3 DEF Calls, InProgram
  <2>9. /\ pc' \in [Ctx -> Labels] /\ pc'[sh] = next
        /\ \A d \in Ctx \ {sh} : pc'[d] \in {"none", "write", "read"}
    BY <1>0, <1>1, <1>2, <1>6, <2>5 DEF Labels, Family
  <2>10. /\ Reported(n, pid) \in (Pids \ {SHELL_PID}) \cup {NO_PROCESS}
         /\ Reported(n, pid) \in {0, pid}
    <3>1. 0 \in Pids /\ 0 # SHELL_PID
      BY SchedulerAssumption DEF Pids, SHELL_PID
    <3>. QED BY <2>7, <3>1 DEF Reported
  <2>11. /\ pids' \in [1 .. 2 -> (Pids \ {SHELL_PID}) \cup {NO_PROCESS}]
         /\ \A i \in 1 .. 2 : i # n => pids'[i] = pids[i]
         /\ pids'[n] \in {0, pid}
    BY <1>0, <1>3, <1>6, <2>10
  <2>12. Family(u, pc', pids', sh)
    <3>1. << pc[sh], pc'[sh], n >> \in StartPoints
      BY <1>1, <2>9
    <3>2. \A d \in Ctx \ {sh} : LiveIn(u, d) =>
            \/ LiveIn(k, d) /\ u.pid[d] = k.pid[d] /\ u.waitingList[d] = k.waitingList[d]
            \/ u.waitingList[d] = << >> /\ pids'[n] \in {0, u.pid[d]}
      BY <2>3, <2>4, <2>11 DEF LiveIn
    <3>. QED BY <1>1, <1>2, <2>9, <2>11, <3>1, <3>2, FamilyStarted
  <2>13. Fits(pipes, pc', pipe_fd', sh)
    BY <1>0, <1>1, <1>2, <2>9 DEF Fits
  <2>. QED
    BY <1>2, <2>2, <2>3, <2>6, <2>8, <2>9, <2>12, <2>13, OverFollows
<1>. QED
  BY <1>5, <1>6 DEF Starts

\* Nobody who lives, idle among them, has a pid the shell has waited for.
LEMMA WaitedIsGone ==
    ASSUME NEW s, Inv(s), NEW sh, IsShell(s, sh), s.status[sh] = "RUNNING", NEW at, NEW p,
           Family(s, at, p, sh)
    PROVE  /\ at[sh] = "wait2" =>
                p[1] # 0 /\ \A c \in Ctx \ {sh} : LiveIn(s, c) => s.pid[c] # p[1]
           /\ at[sh] = "close" =>
                p[2] # 0 /\ \A c \in Ctx \ {sh} : LiveIn(s, c) => s.pid[c] # p[2]
<1>1. PICK idle \in Ctx : s.pid[idle] = IDLE_PID /\ s.status[idle] \in {"READY", "RUNNING"}
  BY DEF Inv, Common, Survivors
<1>2. idle # sh /\ LiveIn(s, idle) /\ s.pid[idle] = 0
  BY <1>1 DEF IsShell, IDLE_PID, SHELL_PID, LiveIn, Live
<1>3. \A c \in Ctx \ {sh} : LiveIn(s, c) => ~ Target(at[sh], p, s.pid[c])
  BY DEF Family
<1>. QED
  BY <1>2, <1>3 DEF Target

\* The line after the shell has begun to wait for its n-th process.
WaitPoints == {<< "wait1", "wait2", 1 >>, << "wait2", "close", 2 >>}

LEMMA FamilyWaits ==
    ASSUME NEW s, Inv(s), NEW t, NEW at, NEW bt, NEW p, NEW sh, IsShell(s, sh),
           s.status[sh] = "RUNNING", Family(s, at, p, sh),
           NEW n, << at[sh], bt[sh], n >> \in WaitPoints,
           \A c \in Ctx \ {sh} : bt[c] \in {"none", "write", "read"},
           \A c \in Ctx \ {sh} : LiveIn(t, c) =>
                /\ LiveIn(s, c) /\ t.pid[c] = s.pid[c]
                /\ Awaits(t, sh, c) <=> p[n] = s.pid[c]
                /\ Awaits(t, sh, c) => t.status[sh] = "BLOCKED"
    PROVE  Family(t, bt, p, sh)
<1>1. \/ at[sh] = "wait1" /\ bt[sh] = "wait2" /\ n = 1
      \/ at[sh] = "wait2" /\ bt[sh] = "close" /\ n = 2
  BY DEF WaitPoints
<1>2. bt[sh] \in ShellPoints /\ \A pid : Target(bt[sh], p, pid) <=> p[n] = pid
  BY <1>1 DEF ShellPoints, Target
<1>3. ASSUME NEW c \in Ctx \ {sh}, LiveIn(t, c), t.pid[c] # IDLE_PID
      PROVE  Expected(bt[sh], p, t.pid[c])
  <2>1. LiveIn(s, c) /\ t.pid[c] = s.pid[c] /\ Expected(at[sh], p, s.pid[c])
    BY <1>3 DEF Family
  <2>2. p[1] \in {0, s.pid[c]} \/ p[2] \in {0, s.pid[c]}
    BY <1>1, <2>1 DEF Expected
  <2>3. CASE at[sh] = "wait1"
    BY <1>1, <2>1, <2>2, <2>3 DEF Expected
  <2>4. CASE at[sh] = "wait2"
    <3>1. p[1] # 0 /\ p[1] # s.pid[c]
      BY <2>1, <2>4, WaitedIsGone
    <3>. QED BY <1>1, <2>1, <2>2, <2>4, <3>1 DEF Expected
  <2>. QED BY <1>1, <2>3, <2>4
<1>. QED
  BY <1>2, <1>3 DEF Family

\* Only the shell, which is in no call, has waited.
LEMMA WaitOver ==
    ASSUME NEW sh, Over(sh), NEW label, Running(label), NEW n, NEW next,
           << label, next, n >> \in WaitPoints, WaitsFor(n, next)
    PROVE  OverInv'
<1>0. /\ label \in ShellPoints /\ next \in ShellPoints /\ next # "prompt" /\ label # "prompt"
      /\ n \in 1 .. 2
  BY DEF WaitPoints, ShellPoints
<1>1. /\ ProgramRuns /\ pc[Me] = label /\ Me = sh /\ pc[sh] = label /\ sh \in Ctx
      /\ k.status[sh] = "RUNNING" /\ k.pid[sh] = SHELL_PID /\ sh = k.currentProcess
      /\ k.currentPid = SHELL_PID
      /\ \A c \in Ctx \ {sh} : LiveIn(k, c) => ~ Awaits(k, sh, c)
  <2>1. ProgramRuns /\ pc[Me] = label
    BY DEF Running
  <2>. QED BY <1>0, <2>1, ShellRuns
<1>2. /\ Inv(k) /\ IsShell(k, sh) /\ pc \in [Ctx -> Labels] /\ Family(k, pc, pids, sh)
      /\ line \in Grounds \X Grounds /\ Tidy(sems, pipes, next_sem_id, {})
      /\ Calls(k, pipes, call, sh) /\ Fits(pipes, pc, pipe_fd, sh)
  BY DEF Over, Labels
<1>3. /\ Here.k = k /\ Here.sems = sems /\ Here.pipes = pipes /\ Here.call = call
      /\ Here.next_sem_id = next_sem_id
  BY DEF Here
<1>. DEFINE p == pids[n]
            t == WaitProcess(k, p)
            o == [Here EXCEPT !.k = t]
            cat == FindProcess(k, p)
<1>4. /\ Follows(o) /\ o.k = t /\ o.sems = sems /\ o.pipes = pipes /\ o.call = call
      /\ o.next_sem_id = next_sem_id
  BY <1>3 DEF WaitsFor, Here
<1>. HIDE DEF o
<1>5. /\ pc' \in [Ctx -> Labels] /\ pc'[sh] = next
      /\ \A c \in Ctx \ {sh} : pc'[c] \in {"none", "write", "read"}
  <2>1. pc' = [pc EXCEPT ![sh] = next]
    BY <1>1 DEF WaitsFor, Goto
  <2>. QED BY <1>0, <1>1, <1>2, <2>1 DEF Labels, Family
<1>6. pids' = pids /\ line' = line /\ pipe_fd' = pipe_fd
  BY DEF WaitsFor, shellVars
<1>7. Fits(pipes, pc', pipe_fd', sh)
  BY <1>0, <1>1, <1>2, <1>5, <1>6 DEF Fits
<1>8. << pc[sh], pc'[sh], n >> \in WaitPoints
  BY <1>1, <1>5
<1>9. SUFFICES /\ Inv(t) /\ IsShell(t, sh)
               /\ \A c \in Ctx : t.status[c] # "FREED" =>
                        k.status[c] # "FREED" /\ t.pid[c] = k.pid[c]
               /\ \A c \in Ctx \ {sh} : LiveIn(t, c) =>
                        /\ LiveIn(k, c) /\ t.pid[c] = k.pid[c]
                        /\ Awaits(t, sh, c) <=> p = k.pid[c]
                        /\ Awaits(t, sh, c) => t.status[sh] = "BLOCKED"
  <2>. HIDE DEF t, p, cat
  <2>1. Calls(t, pipes, call, sh)
    BY <1>2, <1>9 DEF Calls
  <2>2. Family(t, pc', pids', sh)
    <3>1. Family(t, pc', pids, sh)
      BY <1>1, <1>2, <1>5, <1>8, <1>9, FamilyWaits DEF p
    <3>. QED BY <1>6, <3>1
  <2>3. line' \in Grounds \X Grounds
    BY <1>2, <1>6
  <2>. QED
    BY <1>2, <1>4, <1>5, <1>7, <1>9, <2>1, <2>2, <2>3, OverFollows
<1>10. k \in Kernel /\ p # SHELL_PID
  <2>1. NO_PROCESS # SHELL_PID
    BY DEF NO_PROCESS, SHELL_PID
  <2>. QED BY <1>0, <1>2, <2>1 DEF Inv, Common, Family
<1>11. CASE cat = NULL
  <2>1. t = k
    BY <1>11 DEF WaitProcess
  <2>2. \A c \in Ctx : LiveIn(k, c) => k.pid[c] # p
    <3>1. \A c \in ToSet(k.processList) : k.pid[c] # p
      BY <1>10, <1>11, FindProcessProperty
    <3>. QED BY <1>2, <3>1 DEF Inv, Common, Lists, LiveIn
  <2>. HIDE DEF t
  <2>. QED BY <1>1, <1>2, <2>1, <2>2
<1>12. CASE cat # NULL
  <2>1. cat \in Ctx /\ cat \in ToSet(k.processList) /\ k.pid[cat] = p
    BY <1>10, <1>12, FindProcessProperty
  <2>. HIDE DEF cat
  <2>2. LiveIn(k, cat) /\ k.status[cat] \in Live /\ cat # sh
    BY <1>1, <1>2, <1>10, <2>1 DEF Inv, Common, Lists, LiveIn
  <2>3. Unawaited(k, cat)
    <3>1. ~ Awaits(k, sh, cat) /\ \A w \in ToSet(k.waitingList[cat]) : w = sh
      BY <1>1, <1>2, <2>1, <2>2 DEF IsShell
    <3>. QED BY <3>1 DEF Awaits, Unawaited
  <2>. DEFINE u == [k EXCEPT !.waitingList[cat] = Append(@, sh)]
  <2>4. Registers(k, cat, sh, u)
    BY DEF Registers
  <2>. HIDE DEF u
  <2>5. FindProcess(k, k.currentPid) = sh /\ k.currentPid # k.pid[cat]
    BY <1>1, <1>2, <1>10, <2>1, RunningAlone DEF IsShell, LiveIn
  <2>6. /\ WaitProcess(k, k.pid[cat]) = BlockProcess(u, u.currentPid)
        /\ Inv(u) /\ u.currentProcess = k.currentProcess
        /\ u.pid = k.pid /\ u.status = k.status
        /\ \A w : w \in ToSet(u.waitingList[cat]) <=> w = sh
        /\ \A d \in Ctx : d # cat => u.waitingList[d] = k.waitingList[d]
    BY <1>1, <1>2, <2>1, <2>2, <2>3, <2>4, <2>5, WaitForm
  <2>7. t = BlockProcess(u, u.currentPid)
    BY <2>1, <2>6
  <2>. HIDE DEF t, p
  <2>8. u.status[sh] \in Live /\ u.pid[sh] # IDLE_PID /\ sh = u.currentProcess
    BY <1>1, <2>6 DEF Live, IDLE_PID, SHELL_PID
  <2>9. /\ Inv(t) /\ t.status[sh] = "BLOCKED" /\ SameProcess(u, t, sh)
        /\ \A d \in Ctx \ {sh} : Stays(u, t, d)
    BY <1>1, <2>6, <2>7, <2>8, CallerTurns
  <2>10. \A d \in Ctx \ {sh} :
            /\ LiveIn(t, d) <=> LiveIn(k, d)
            /\ t.status[d] # "FREED" => t.pid[d] = k.pid[d] /\ t.waitingList[d] = u.waitingList[d]
            /\ t.status[d] # "FREED" => k.status[d] # "FREED"
    <3>1. ASSUME NEW d \in Ctx \ {sh}
          PROVE  /\ LiveIn(t, d) <=> LiveIn(k, d)
                 /\ t.status[d] # "FREED" =>
                        t.pid[d] = k.pid[d] /\ t.waitingList[d] = u.waitingList[d]
                 /\ t.status[d] # "FREED" => k.status[d] # "FREED"
      <4>1. Stays(u, t, d)
        BY <2>9
      <4>2. t.status[d] \in {"READY", "RUNNING", "BLOCKED", "TERMINATED", "FREED"}
        BY <2>9, StatusType
      <4>. QED BY <2>6, <4>1, <4>2 DEF Stays, SameProcess, LiveIn, Live
    <3>. QED BY <3>1
  <2>11. /\ t.pid[sh] = SHELL_PID /\ LiveIn(t, sh) /\ t.status[sh] # "FREED"
         /\ k.status[sh] # "FREED" /\ t.waitingList[sh] = k.waitingList[sh]
    BY <1>1, <2>2, <2>6, <2>9 DEF SameProcess, LiveIn, Live
  <2>12. \A d \in Ctx : LiveIn(t, d) => t.status[d] # "FREED"
    BY DEF LiveIn, Live
  <2>13. \A d \in Ctx \ {sh} : LiveIn(t, d) => (Awaits(t, sh, d) <=> p = k.pid[d])
    <3>1. ASSUME NEW d \in Ctx \ {sh}, LiveIn(t, d)
          PROVE  Awaits(t, sh, d) <=> p = k.pid[d]
      <4>1. LiveIn(k, d) /\ t.waitingList[d] = u.waitingList[d]
        BY <2>10, <2>12, <3>1
      <4>2. CASE d = cat
        BY <2>1, <2>6, <4>1, <4>2 DEF Awaits
      <4>3. CASE d # cat
        <5>1. ~ Awaits(t, sh, d)
          BY <1>1, <2>6, <4>1, <4>3 DEF Awaits
        <5>2. k.pid[d] # k.pid[cat]
          BY <1>2, <2>1, <2>2, <4>1, <4>3, PidsDiffer DEF LiveIn
        <5>. QED BY <2>1, <5>1, <5>2
      <4>. QED BY <4>2, <4>3
    <3>. QED BY <3>1
  <2>14. IsShell(t, sh)
    <3>1. ASSUME NEW d \in Ctx, LiveIn(t, d), NEW w \in ToSet(t.waitingList[d])
          PROVE  w = sh
      <4>1. CASE d = cat
        BY <2>2, <2>6, <2>10, <2>12, <3>1, <4>1
      <4>2. CASE d # cat
        <5>1. t.waitingList[d] = k.waitingList[d] /\ LiveIn(k, d)
          BY <1>2, <2>6, <2>10, <2>11, <2>12, <3>1, <4>2 DEF IsShell
        <5>. QED BY <1>2, <3>1, <5>1 DEF IsShell
      <4>. QED BY <4>1, <4>2
    <3>. QED BY <1>1, <2>11, <3>1 DEF IsShell
  <2>. QED
    BY <1>1, <2>9, <2>10, <2>11, <2>12, <2>13, <2>14
<1>. QED
  BY <1>11, <1>12

\* The mutex is free, and the close ends at once.
LEMMA CloseOver ==
    ASSUME NEW sh, Over(sh), ShellClosesPipe
    PROVE  OverInv'
<1>1. /\ ProgramRuns /\ Me = sh /\ pc[sh] = "close" /\ sh \in Ctx /\ k.status[sh] = "RUNNING"
      /\ sh = k.currentProcess
      /\ \A c \in Ctx \ {sh} : LiveIn(k, c) => ~ Awaits(k, sh, c)
  <2>1. ProgramRuns /\ pc[Me] = "close" /\ "close" \in ShellPoints
    BY DEF Running, ShellClosesPipe, ShellPoints
  <2>. QED BY <2>1, ShellRuns
<1>2. /\ Inv(k) /\ IsShell(k, sh) /\ pc \in [Ctx -> Labels] /\ Family(k, pc, pids, sh)
      /\ line \in Grounds \X Grounds /\ Fits(pipes, pc, pipe_fd, sh)
  BY DEF Over, Labels
<1>3. Kept(Here, k, pipes, {}, sh) /\ Self(Here) = sh /\ Here.pipes = pipes /\ Here.k = k
  BY <1>1, HereKept
<1>. DEFINE o == ClosePipe(Here, Me, pipe_fd)
            i == pipe_fd - 3
            w == SemWaitOn(Here, Here.pipes[i].mutex)
            u == CloseBody(w, i)
<1>4. Follows(o) /\ UNCHANGED shellVars /\ pc' = [pc EXCEPT ![sh] = "prompt"]
  BY <1>1 DEF ShellClosesPipe, Goto
<1>5. /\ \A j \in Slots : Usable(pipes[j]) => pipe_fd = j + 3
      /\ \A j \in Slots : pipes[j].isOpen /\ pipe_fd = j + 3 => Usable(pipes[j])
  BY <1>1, <1>2 DEF Fits
<1>6. Kept(o, k, pipes, {}, sh) /\ \A j \in Slots : ~ Usable(o.pipes[j])
  <2>1. CASE ~ IsOpen(Here, pipe_fd)
    <3>1. o = Return(Here, sh, 0)
      BY <1>1, <2>1 DEF ClosePipe
    <3>. HIDE DEF o
    <3>2. Kept(o, k, pipes, {}, sh) /\ o.pipes = pipes
      BY <1>1, <1>3, <3>1, PointsKept, KeptReturn
    <3>3. ASSUME NEW j \in Slots, Usable(pipes[j])
          PROVE  FALSE
      <4>1. pipe_fd = j + 3 /\ j \in Int
        BY <1>5, <3>3, Ids DEF Slots
      <4>2. pipe_fd - 3 = j
        BY <4>1
      <4>. QED BY <1>3, <2>1, <3>3, <4>2 DEF IsOpen, Usable
    <3>. QED BY <3>2, <3>3
  <2>2. CASE IsOpen(Here, pipe_fd)
    <3>1. i \in Slots /\ pipes[i].isOpen
      BY <1>3, <2>2 DEF IsOpen
    <3>2. pipe_fd = i + 3
      <4>1. pipe_fd \in Pipes
        BY <1>1, <1>2 DEF Fits
      <4>2. pipe_fd \in Int
        BY <4>1, SchedulerAssumption
      <4>. QED BY <4>2
    <3>3. o = IF Self(w) = sh THEN Return(u, sh, 0) ELSE GoOnAt(w, sh, "closeBody", i, 0)
      BY <1>1, <2>2 DEF ClosePipe
    <3>. HIDE DEF i, u
    <3>4. Usable(Here.pipes[i])
      BY <1>3, <1>5, <3>1, <3>2
    <3>5. /\ Kept(w, k, pipes, Holding(Here.pipes, i), sh) /\ SameRest(Here, w)
          /\ w.k = Here.k
      BY <1>3, <3>1, <3>4, KeptLock
    <3>. HIDE DEF w
    <3>6. Self(w) = sh /\ Kept(w, k, pipes, Holding(w.pipes, i), sh)
      BY <1>3, <3>5 DEF Self, SameRest
    <3>7. Kept(u, k, pipes, {}, sh) /\ \A j \in Slots : Usable(u.pipes[j]) => j # i
      BY <3>1, <3>6, CloseBodyKept DEF u
    <3>8. o = Return(u, sh, 0)
      BY <3>3, <3>6
    <3>. HIDE DEF o
    <3>9. Kept(o, k, pipes, {}, sh) /\ o.pipes = u.pipes
      BY <1>1, <3>7, <3>8, PointsKept, KeptReturn
    <3>10. ASSUME NEW j \in Slots, Usable(u.pipes[j])
           PROVE  FALSE
      <4>1. Usable(pipes[j]) /\ j # i
        BY <3>7, <3>10 DEF Kept, Fades, Usable
      <4>2. pipe_fd = j + 3 /\ j \in Int /\ i \in Int
        BY <1>5, <3>1, <4>1, Ids DEF Slots
      <4>. QED BY <3>2, <4>1, <4>2
    <3>. QED BY <3>9, <3>10
  <2>. QED BY <2>1, <2>2
<1>. HIDE DEF o
<1>7. /\ Inv(o.k) /\ Passes(k, o.k, sh) /\ Tidy(o.sems, o.pipes, o.next_sem_id, {})
      /\ Calls(o.k, o.pipes, o.call, sh) /\ IsShell(o.k, sh)
  BY <1>6, KeptShell DEF Kept
<1>8. /\ pc' \in [Ctx -> Labels] /\ pc'[sh] = "prompt"
      /\ \A c \in Ctx \ {sh} : pc'[c] \in {"none", "write", "read"}
  BY <1>1, <1>2, <1>4 DEF Labels, ShellPoints, Family
<1>9. ASSUME NEW c \in Ctx \ {sh}, LiveIn(o.k, c)
      PROVE  o.k.pid[c] = IDLE_PID /\ ~ Awaits(o.k, sh, c)
  <2>1. LiveIn(k, c) /\ o.k.waitingList[c] = k.waitingList[c] /\ o.k.pid[c] = k.pid[c]
    BY <1>7, <1>9 DEF Passes, LiveIn, Live
  <2>2. pids[2] # 0 /\ k.pid[c] # pids[2]
    BY <1>1, <1>2, <2>1, WaitedIsGone
  <2>3. k.pid[c] # IDLE_PID => pids[2] \in {0, k.pid[c]}
    BY <1>1, <1>2, <2>1 DEF Family, Expected
  <2>4. ~ Awaits(o.k, sh, c)
    BY <1>1, <2>1 DEF Awaits
  <2>. QED BY <2>1, <2>2, <2>3, <2>4
<1>10. Family(o.k, pc', pids', sh)
  <2>1. pids' \in [1 .. 2 -> (Pids \ {SHELL_PID}) \cup {NO_PROCESS}]
    BY <1>2, <1>4 DEF Family, shellVars
  <2>2. \A pid : ~ Target("prompt", pids', pid)
    BY DEF Target
  <2>. QED BY <1>8, <1>9, <2>1, <2>2 DEF Family, ShellPoints
<1>11. Fits(o.pipes, pc', pipe_fd', sh)
  BY <1>6, <1>8 DEF Fits
<1>12. line' \in Grounds \X Grounds
  BY <1>2, <1>4 DEF shellVars
<1>. QED
  BY <1>4, <1>7, <1>8, <1>10, <1>11, <1>12, OverFollows

-----------------------------------------------------------------------------
(***************************************************************************)
(* createPipe.                                                             *)
(***************************************************************************)

\* m with new semaphores for a pipe.
Grown(w, m, n) ==
    /\ w \in [SemIds -> Semaphore]
    /\ \A j \in SemIds : j < n \/ j >= n + 3 => w[j] = m[j]
    /\ \A j \in SemIds : w[j].waitQueue \in {m[j].waitQueue, << >>}

\* As many as there were identifiers for, the mutex last.
Issued(w, m, n) == Grown(w, m, n) /\ (n + 2 \in SemIds => w[n + 2] = Fresh(1))

\* What createPipe leaves behind when it finds a slot.
Piped(s, w, P, n, C, D, slot, c) ==
    Return(Of(s, w, [P EXCEPT ![slot] = NewPipe(n)], n + 3, C, D), c,
           IF n + 2 \in SemIds THEN slot + 3 ELSE -1)

LEMMA IssuedOne ==
    ASSUME NEW m, NEW n \in Nat, NEW w, Grown(w, m, n),
           NEW id \in SemIds, n <= id, id < n + 3, NEW value \in Nat,
           NEW v, v = [w EXCEPT ![id] = Fresh(value)]
    PROVE  Grown(v, m, n) /\ v[id] = Fresh(value)
<1>0. /\ w \in [SemIds -> Semaphore]
      /\ \A j \in SemIds : j < n \/ j >= n + 3 => w[j] = m[j]
      /\ \A j \in SemIds : w[j].waitQueue \in {m[j].waitQueue, << >>}
  BY DEF Grown
<1>1. Fresh(value) \in Semaphore /\ Fresh(value).waitQueue = << >>
  BY DEF Fresh, Semaphore
<1>2. \A j \in SemIds : v[j] = IF j = id THEN Fresh(value) ELSE w[j]
  BY <1>0
<1>3. ASSUME NEW j \in SemIds, j < n \/ j >= n + 3
      PROVE  j # id
  <2>1. j \in Nat /\ id \in Nat
    BY Ids
  <2>. QED BY <1>3, <2>1
<1>4. v \in [SemIds -> Semaphore]
  BY <1>0, <1>1
<1>5. \A j \in SemIds : j < n \/ j >= n + 3 => v[j] = m[j]
  BY <1>0, <1>2, <1>3
<1>6. \A j \in SemIds : v[j].waitQueue \in {m[j].waitQueue, << >>}
  BY <1>0, <1>1, <1>2
<1>. QED
  BY <1>2, <1>4, <1>5, <1>6 DEF Grown

LEMMA PipeMade ==
    ASSUME NEW s, NEW m \in [SemIds -> Semaphore], NEW P \in [Slots -> Pipe],
           NEW n \in Nat, n >= FIRST_SEM, Unused(m, n), NEW C, NEW D, NEW c \in Ctx,
           NEW t, t = CreatePipe(Of(s, m, P, n, C, D), c)
    PROVE  \/ t = Return(Of(s, m, P, n, C, D), c, -1)
           \/ \E slot \in Slots : \E w :
                /\ ~ P[slot].isOpen /\ slot + 3 \in Pipes /\ Issued(w, m, n)
                /\ t = Piped(s, w, P, n, C, D, slot, c)
<1>. DEFINE o == Of(s, m, P, n, C, D)
            free == {i \in Slots : ~ P[i].isOpen}
            slot == Min(free)
            Q == [P EXCEPT ![slot] = NewPipe(n)]
            O(w) == Of(s, w, Q, n + 3, C, D)
            m2 == [m EXCEPT ![n] = Fresh(0)]
            m3 == [m2 EXCEPT ![n + 1] = Fresh(PIPE_BUFFER_SIZE)]
            m4 == [m3 EXCEPT ![n + 2] = Fresh(1)]
<1>0. PIPE_BUFFER_SIZE \in Nat /\ 0 \in Nat /\ 1 \in Nat
  BY Ids
<1>1. CASE free = {}
  <2>1. CreatePipe(o, c) = Return(o, c, -1)
    BY <1>1 DEF CreatePipe, Of
  <2>. QED BY <2>1
<1>2. CASE free # {}
  <2>1. slot \in Slots /\ ~ P[slot].isOpen
    <3>1. free \in SUBSET Nat
      BY DEF Slots
    <3>2. slot \in free
      BY <1>2, <3>1, MinProperty
    <3>. QED BY <3>2
  <2>2. slot + 3 \in Pipes
    <3>1. slot \in Nat /\ slot <= MAX_PIPES - 1 /\ MAX_PIPES \in Nat
      BY <2>1, Ids DEF Slots
    <3>. HIDE DEF slot
    <3>. QED BY <3>1, PipesAssumption
  <2>3. [o EXCEPT !.next_sem_id = n + 3, !.pipes[slot] = NewPipe(n)] = O(m)
    <3>. HIDE DEF slot
    <3>1. [o EXCEPT !.next_sem_id = n + 3] = Of(s, m, P, n + 3, C, D)
      BY DEF Of
    <3>2. [Of(s, m, P, n + 3, C, D) EXCEPT !.pipes[slot] = NewPipe(n)] = O(m)
      BY DEF Of
    <3>3. [o EXCEPT !.next_sem_id = n + 3, !.pipes[slot] = NewPipe(n)]
            = [[o EXCEPT !.next_sem_id = n + 3] EXCEPT !.pipes[slot] = NewPipe(n)]
      <4>. HIDE DEF o
      <4>. QED OBVIOUS
    <3>. QED BY <3>1, <3>2, <3>3
  <2>4. CreatePipe(o, c) =
            IF ~ CanMake(O(m), n) THEN Return(O(m), c, -1)
            ELSE IF ~ CanMake(SemCreate(O(m), n, 0), n + 1)
            THEN Return(SemCreate(O(m), n, 0), c, -1)
            ELSE IF ~ CanMake(SemCreate(SemCreate(O(m), n, 0), n + 1, PIPE_BUFFER_SIZE), n + 2)
            THEN Return(SemCreate(SemCreate(O(m), n, 0), n + 1, PIPE_BUFFER_SIZE), c, -1)
            ELSE Return(SemCreate(SemCreate(SemCreate(O(m), n, 0), n + 1, PIPE_BUFFER_SIZE),
                                  n + 2, 1), c, slot + 3)
    <3>1. o.next_sem_id = n /\ o.pipes = P
      BY DEF Of
    <3>. HIDE DEF o, O
    <3>. QED BY <1>2, <2>3, <3>1 DEF CreatePipe, NewPipe
  <2>. HIDE DEF slot
  <2>5. \A w, id : CanMake(O(w), id) <=> id \in SemIds /\ ~ w[id].active
    BY DEF CanMake, Of
  <2>6. \A w, id, value : ~ w[id].active =>
            SemCreate(O(w), id, value) = O([w EXCEPT ![id] = Fresh(value)])
    BY DEF SemCreate, Of, Fresh
  <2>7. /\ n \in SemIds => ~ m[n].active
        /\ n + 1 \in SemIds => ~ m2[n + 1].active /\ n \in SemIds
        /\ n + 2 \in SemIds => ~ m3[n + 2].active /\ n + 1 \in SemIds
    <3>1. \A id \in SemIds : id >= n => ~ m[id].active
      BY DEF Unused
    <3>2. /\ n + 2 \in SemIds => n + 1 \in SemIds
          /\ n + 1 \in SemIds => n \in SemIds
      BY Ids
    <3>3. n + 1 \in SemIds => m2[n + 1] = m[n + 1]
      OBVIOUS
    <3>4. n + 2 \in SemIds => m3[n + 2] = m[n + 2]
      OBVIOUS
    <3>. HIDE DEF m2, m3
    <3>. QED BY <3>1, <3>2, <3>3, <3>4
  <2>8. \A w : Return(O(w), c, IF n + 2 \in SemIds THEN slot + 3 ELSE -1)
                    = Piped(s, w, P, n, C, D, slot, c)
    BY DEF Piped
  <2>9. SUFFICES \E w : Issued(w, m, n) /\ CreatePipe(o, c) =
                            Return(O(w), c, IF n + 2 \in SemIds THEN slot + 3 ELSE -1)
    <3>. HIDE DEF O
    <3>. QED BY <2>1, <2>2, <2>8, <2>9 DEF o
  <2>10. Grown(m, m, n)
    BY DEF Grown
  <2>11. n \in SemIds => Grown(m2, m, n)
    <3>1. m2 = [m EXCEPT ![n] = Fresh(0)]
      OBVIOUS
    <3>2. n <= n /\ n < n + 3
      OBVIOUS
    <3>. HIDE DEF m2
    <3>3. ASSUME n \in SemIds
          PROVE  Grown(m2, m, n)
      BY <1>0, <2>10, <3>1, <3>2, <3>3, IssuedOne
    <3>. QED BY <3>3
  <2>12. n + 1 \in SemIds => Grown(m3, m, n)
    <3>1. m3 = [m2 EXCEPT ![n + 1] = Fresh(PIPE_BUFFER_SIZE)]
      OBVIOUS
    <3>2. n <= n + 1 /\ n + 1 < n + 3
      OBVIOUS
    <3>. HIDE DEF m2, m3
    <3>3. ASSUME n + 1 \in SemIds
          PROVE  Grown(m3, m, n)
      BY <1>0, <2>7, <2>11, <3>1, <3>2, <3>3, IssuedOne
    <3>. QED BY <3>3
  <2>13. n + 2 \in SemIds => Grown(m4, m, n) /\ m4[n + 2] = Fresh(1)
    <3>1. m4 = [m3 EXCEPT ![n + 2] = Fresh(1)]
      OBVIOUS
    <3>2. n <= n + 2 /\ n + 2 < n + 3
      OBVIOUS
    <3>. HIDE DEF m2, m3, m4
    <3>3. ASSUME n + 2 \in SemIds
          PROVE  Grown(m4, m, n) /\ m4[n + 2] = Fresh(1)
      <4>1. Grown(m4, m, n)
        BY <1>0, <2>7, <2>12, <3>1, <3>2, <3>3, IssuedOne
      <4>2. m4[n + 2] = Fresh(1)
        BY <2>7, <2>12, <3>1, <3>3 DEF Grown
      <4>. QED BY <4>1, <4>2
    <3>. QED BY <3>3
  <2>17. CASE n \notin SemIds
    <3>0. n + 2 \notin SemIds
      BY <2>7, <2>17
    <3>1. CreatePipe(o, c) = Return(O(m), c, -1)
      <4>. HIDE DEF o, O
      <4>. QED BY <2>4, <2>5, <2>17
    <3>. HIDE DEF o, O
    <3>. QED BY <2>10, <3>0, <3>1 DEF Issued
  <2>18. CASE n \in SemIds /\ n + 1 \notin SemIds
    <3>0. n + 2 \notin SemIds
      BY <2>7, <2>18
    <3>1. CreatePipe(o, c) = Return(O(m2), c, -1)
      <4>. HIDE DEF o, O
      <4>1. SemCreate(O(m), n, 0) = O(m2)
        BY <2>6, <2>7, <2>18 DEF m2
      <4>. HIDE DEF m2
      <4>. QED BY <2>4, <2>5, <2>7, <2>18, <4>1
    <3>. HIDE DEF o, O, m2
    <3>. QED BY <2>11, <2>18, <3>0, <3>1 DEF Issued
  <2>19. CASE n + 1 \in SemIds /\ n + 2 \notin SemIds
    <3>1. CreatePipe(o, c) = Return(O(m3), c, -1)
      <4>. HIDE DEF o, O
      <4>1. SemCreate(O(m), n, 0) = O(m2)
        BY <2>6, <2>7, <2>19 DEF m2
      <4>2. SemCreate(O(m2), n + 1, PIPE_BUFFER_SIZE) = O(m3)
        BY <2>6, <2>7, <2>19 DEF m3
      <4>. HIDE DEF m2, m3
      <4>. QED BY <2>4, <2>5, <2>7, <2>19, <4>1, <4>2
    <3>. HIDE DEF o, O, m2, m3
    <3>. QED BY <2>12, <2>19, <3>1 DEF Issued
  <2>20. CASE n + 2 \in SemIds
    <3>1. CreatePipe(o, c) = Return(O(m4), c, slot + 3)
      <4>. HIDE DEF o, O
      <4>1. SemCreate(O(m), n, 0) = O(m2)
        BY <2>6, <2>7, <2>20 DEF m2
      <4>2. SemCreate(O(m2), n + 1, PIPE_BUFFER_SIZE) = O(m3)
        BY <2>6, <2>7, <2>20 DEF m3
      <4>3. SemCreate(O(m3), n + 2, 1) = O(m4)
        BY <2>6, <2>7, <2>20 DEF m4
      <4>. HIDE DEF m2, m3, m4
      <4>. QED BY <2>4, <2>5, <2>7, <2>20, <4>1, <4>2, <4>3
    <3>. HIDE DEF o, O, m2, m3, m4
    <3>. QED BY <2>13, <2>20, <3>1 DEF Issued
  <2>. QED BY <2>7, <2>17, <2>18, <2>19, <2>20
<1>. QED
  BY <1>1, <1>2

\* At the prompt the new pipe, if it can be used, is the only one.
LEMMA TidyAdded ==
    ASSUME NEW m, NEW P, NEW n, Tidy(m, P, n, {}), \A i \in Slots : ~ Usable(P[i]),
           NEW slot \in Slots, NEW w, Issued(w, m, n),
           NEW Q, Q = [P EXCEPT ![slot] = NewPipe(n)]
    PROVE  /\ Tidy(w, Q, n + 3, {})
           /\ \A i \in Slots : Usable(Q[i]) => i = slot
           /\ Usable(Q[slot]) <=> n + 2 \in SemIds
           /\ Q[slot].isOpen
<1>. DEFINE q == NewPipe(n)
<1>1. /\ m \in [SemIds -> Semaphore] /\ P \in [Slots -> Pipe] /\ n \in Nat /\ n >= FIRST_SEM
      /\ Unused(m, n) /\ FIRST_SEM \in Nat
      /\ \A id \in SemIds : SHELL_PID \notin ToSet(m[id].waitQueue)
      /\ \A i \in Slots : P[i].semReaders < n /\ P[i].semWriters < n /\ P[i].mutex < n
  BY Ids DEF Tidy
<1>2. /\ q \in Pipe /\ q.isOpen = TRUE /\ q.semReaders = n /\ q.semWriters = n + 1
      /\ q.mutex = n + 2 /\ q.writers = 1
  BY <1>1, NewPipeFields
<1>. HIDE DEF q
<1>3. Q = [P EXCEPT ![slot] = q]
  BY DEF q
<1>4. Q \in [Slots -> Pipe] /\ \A j \in Slots : Q[j] = IF j = slot THEN q ELSE P[j]
  BY <1>1, <1>2, <1>3
<1>5. \A i \in Slots : Usable(Q[i]) => i = slot
  BY <1>4
<1>6. Usable(q) <=> n + 2 \in SemIds
  BY <1>2 DEF Usable
<1>7. /\ w \in [SemIds -> Semaphore]
      /\ \A j \in SemIds : j < n \/ j >= n + 3 => w[j] = m[j]
      /\ \A j \in SemIds : w[j].waitQueue \in {m[j].waitQueue, << >>}
      /\ n + 2 \in SemIds => w[n + 2] = Fresh(1)
  BY DEF Issued, Grown
<1>8. Unused(w, n + 3) /\ n + 3 \in Nat /\ n + 3 >= FIRST_SEM
  <2>1. ASSUME NEW id \in SemIds, id >= n + 3
        PROVE  ~ w[id].active
    <3>1. id \in Nat
      BY Ids
    <3>2. id >= n
      BY <1>1, <2>1, <3>1
    <3>. QED BY <1>1, <1>7, <2>1, <3>2 DEF Unused
  <2>. QED BY <1>1, <2>1 DEF Unused
<1>9. \A id \in SemIds : SHELL_PID \notin ToSet(w[id].waitQueue)
  <2>1. ToSet(<< >>) = {}
    BY DEF ToSet
  <2>. QED BY <1>1, <1>7, <2>1
<1>10. ASSUME NEW i \in Slots
       PROVE  Q[i].semReaders < n + 3 /\ Q[i].semWriters < n + 3 /\ Q[i].mutex < n + 3
  <2>1. CASE i = slot
    BY <1>1, <1>2, <1>4, <2>1
  <2>2. CASE i # slot
    <3>1. P[i].semReaders \in Int /\ P[i].semWriters \in Int /\ P[i].mutex \in Int
      BY <1>1 DEF Pipe
    <3>. QED BY <1>1, <1>4, <2>2, <3>1
  <2>. QED BY <2>1, <2>2
<1>11. ASSUME NEW i \in Slots, Usable(Q[i])
       PROVE  /\ Q[i].writers = 1
              /\ w[Q[i].mutex].active /\ w[Q[i].mutex].waitQueue = << >>
              /\ w[Q[i].mutex].counter = IF i \in {} THEN 0 ELSE 1
              /\ Q[i].mutex # Q[i].semReaders /\ Q[i].mutex # Q[i].semWriters
              /\ \A j \in Slots \ {i} :
                    Q[i].mutex \notin {Q[j].semReaders, Q[j].semWriters, Q[j].mutex}
  <2>1. i = slot /\ Q[i] = q
    BY <1>4, <1>5, <1>11
  <2>2. n + 2 \in SemIds
    BY <1>6, <1>11, <2>1
  <2>3. w[q.mutex].active /\ w[q.mutex].waitQueue = << >> /\ w[q.mutex].counter = 1
    BY <1>2, <1>7, <2>2 DEF Fresh
  <2>4. q.mutex # q.semReaders /\ q.mutex # q.semWriters
    BY <1>1, <1>2
  <2>5. ASSUME NEW j \in Slots \ {i}
        PROVE  q.mutex \notin {Q[j].semReaders, Q[j].semWriters, Q[j].mutex}
    <3>1. Q[j] = P[j]
      BY <1>4, <2>1
    <3>2. P[j].semReaders \in Int /\ P[j].semWriters \in Int /\ P[j].mutex \in Int
      BY <1>1 DEF Pipe
    <3>. QED BY <1>1, <1>2, <3>1, <3>2
  <2>. QED BY <1>2, <2>1, <2>3, <2>4, <2>5
<1>12. Tidy(w, Q, n + 3, {})
  BY <1>4, <1>7, <1>8, <1>9, <1>10, <1>11 DEF Tidy
<1>13. (Usable(Q[slot]) <=> n + 2 \in SemIds) /\ Q[slot].isOpen
  BY <1>2, <1>4, <1>6
<1>. QED
  BY <1>5, <1>12, <1>13

\* Nobody is in a call while the shell is at its prompt.
LEMMA AllInProgram ==
    ASSUME NEW sh, Over(sh), ProgramRuns, pc[Me] = "prompt"
    PROVE  \A c \in Ctx : call[c].at = "user"
<1>1. Me = sh /\ pc[sh] = "prompt" /\ Undead(k)
  <2>1. pc[Me] \in ShellPoints
    BY DEF ShellPoints
  <2>. QED BY <2>1, ShellRuns
<1>2. SUFFICES ASSUME NEW c \in Ctx, call[c].at # "user"
               PROVE  FALSE
  OBVIOUS
<1>3. k.status[c] # "FREED"
  BY <1>2 DEF Over, InProgram
<1>4. c # sh /\ k.pid[c] # IDLE_PID
  BY <1>2, <1>3 DEF Over, Calls
<1>5. LiveIn(k, c)
  <2>1. k.status[c] \in {"READY", "RUNNING", "BLOCKED", "TERMINATED", "FREED"}
    BY StatusType DEF Over
  <2>. QED BY <1>1, <1>3, <2>1 DEF LiveIn, Live, Undead
<1>6. Expected("prompt", pids, k.pid[c])
  BY <1>1, <1>4, <1>5 DEF Over, Family
<1>. QED
  BY <1>6 DEF Expected

Returned(t, s, w, P, n, c, value, sh) ==
    /\ t.k = s /\ t.sems = w /\ t.pipes = P /\ t.next_sem_id = n
    /\ t.call[c].value = value /\ Calls(s, P, t.call, sh)

LEMMA ReturnCalls ==
    ASSUME NEW s, NEW P, NEW C, NEW sh, C \in [Ctx -> Call], \A c \in Ctx : C[c].at = "user",
           NEW c \in Ctx, NEW value \in Bytes \cup Pipes \cup {0, -1},
           NEW w, NEW n, NEW D, NEW t, t = Return(Of(s, w, P, n, C, D), c, value)
    PROVE  Returned(t, s, w, P, n, c, value, sh)
<1>. DEFINE new == [at |-> "user", slot |-> 0, value |-> value]
            B == [C EXCEPT ![c] = new]
<1>1. t = Of(s, w, P, n, B, D)
  BY DEF Return, GoOnAt, Of
<1>2. new \in Call /\ new.at = "user" /\ new.value = value
  <2>1. 0 \in Slots
    BY Ids DEF Slots
  <2>. QED BY <2>1 DEF Call, Points
<1>. HIDE DEF new
<1>3. B \in [Ctx -> Call] /\ \A d \in Ctx : B[d] = IF d = c THEN new ELSE C[d]
  BY <1>2
<1>. HIDE DEF B
<1>4. \A d \in Ctx : B[d].at = "user"
  BY <1>2, <1>3
<1>5. Calls(s, P, B, sh)
  BY <1>3, <1>4 DEF Calls, BodyPoints
<1>6. B[c].value = value
  BY <1>2, <1>3
<1>. QED
  BY <1>1, <1>5, <1>6 DEF Of, Returned

LEMMA CreateOver ==
    ASSUME NEW sh, Over(sh), ShellCreatesPipe
    PROVE  OverInv'
<1>. DEFINE o == CreatePipe(Here, Me)
            fd == call'[Me].value
            n == next_sem_id
<1>1. ProgramRuns /\ pc[Me] = "prompt" /\ Follows(o) /\ pids' = pids
  BY DEF ShellCreatesPipe, Running
<1>2. /\ Me = sh /\ pc[sh] = "prompt" /\ sh \in Ctx /\ k.status[sh] = "RUNNING"
      /\ \A c \in Ctx : call[c].at = "user"
  <2>1. pc[Me] \in ShellPoints
    BY <1>1 DEF ShellPoints
  <2>. QED BY <1>1, <2>1, ShellRuns, AllInProgram
<1>3. /\ Inv(k) /\ IsShell(k, sh) /\ pc \in [Ctx -> Labels] /\ Family(k, pc, pids, sh)
      /\ line \in Grounds \X Grounds /\ Tidy(sems, pipes, n, {}) /\ call \in [Ctx -> Call]
      /\ Fits(pipes, pc, pipe_fd, sh)
  BY DEF Over, Labels, Calls
<1>4. /\ sems \in [SemIds -> Semaphore] /\ pipes \in [Slots -> Pipe]
      /\ n \in Nat /\ n >= FIRST_SEM /\ Unused(sems, n)
  BY <1>3 DEF Tidy
<1>5. \A i \in Slots : ~ Usable(pipes[i])
  BY <1>2, <1>3 DEF Fits
<1>6. o = CreatePipe(Of(k, sems, pipes, n, call, delivered), sh)
  BY <1>2 DEF Here, Of
<1>. HIDE DEF o
<1>7. IF fd < 0 THEN UNCHANGED << pc, pipe_fd, line >>
      ELSE Goto("start1") /\ pipe_fd' = fd /\ line' \in Grounds12
  BY DEF ShellCreatesPipe
<1>8. o.k = k => fd = o.call[sh].value
  BY <1>1, <1>2 DEF Follows
<1>. HIDE DEF fd
<1>9. CASE o = Return(Of(k, sems, pipes, n, call, delivered), sh, -1)
  <2>1. /\ o.k = k /\ o.sems = sems /\ o.pipes = pipes /\ o.next_sem_id = n
        /\ o.call[sh].value = -1 /\ Calls(k, pipes, o.call, sh)
    <3>1. -1 \in Bytes \cup Pipes \cup {0, -1}
      OBVIOUS
    <3>2. Returned(o, k, sems, pipes, n, sh, -1, sh)
      BY <1>2, <1>3, <1>9, <3>1, ReturnCalls
    <3>. QED BY <3>2 DEF Returned
  <2>2. UNCHANGED << pc, pipe_fd, line >>
    BY <1>7, <1>8, <2>1
  <2>. QED BY <1>1, <1>3, <2>1, <2>2, OverFollows
<1>10. ASSUME NEW slot \in Slots, NEW w, ~ pipes[slot].isOpen, slot + 3 \in Pipes,
              Issued(w, sems, n), o = Piped(k, w, pipes, n, call, delivered, slot, sh)
       PROVE  OverInv'
  <2>. DEFINE Q == [pipes EXCEPT ![slot] = NewPipe(n)]
              value == IF n + 2 \in SemIds THEN slot + 3 ELSE -1
  <2>1. /\ Tidy(w, Q, n + 3, {})
        /\ \A i \in Slots : Usable(Q[i]) => i = slot
        /\ Usable(Q[slot]) <=> n + 2 \in SemIds
        /\ Q[slot].isOpen
    BY <1>3, <1>5, <1>10, TidyAdded
  <2>2. value \in Bytes \cup Pipes \cup {0, -1}
    BY <1>10
  <2>3. o = Return(Of(k, w, Q, n + 3, call, delivered), sh, value)
    BY <1>10 DEF Piped
  <2>. HIDE DEF Q, value
  <2>4. /\ o.k = k /\ o.sems = w /\ o.pipes = Q /\ o.next_sem_id = n + 3
        /\ o.call[sh].value = value /\ Calls(k, Q, o.call, sh)
    <3>1. Returned(o, k, w, Q, n + 3, sh, value, sh)
      BY <1>2, <1>3, <2>2, <2>3, ReturnCalls
    <3>. QED BY <3>1 DEF Returned
  <2>5. fd = value
    BY <1>8, <2>4
  <2>6. slot \in Int /\ slot + 3 >= 0 /\ ~ (slot + 3 < 0) /\ -1 < 0
    BY Ids DEF Slots
  <2>7. CASE n + 2 \notin SemIds
    <3>1. value < 0
      BY <2>6, <2>7 DEF value
    <3>2. UNCHANGED << pc, pipe_fd, line >>
      BY <1>7, <2>5, <3>1
    <3>3. Fits(Q, pc', pipe_fd', sh)
      BY <1>2, <2>1, <2>7, <3>2 DEF Fits
    <3>. QED BY <1>1, <1>3, <2>1, <2>4, <3>2, <3>3, OverFollows
  <2>8. CASE n + 2 \in SemIds
    <3>1. value = slot + 3 /\ ~ (value < 0)
      BY <2>6, <2>8 DEF value
    <3>2. Goto("start1") /\ pipe_fd' = slot + 3 /\ line' \in Grounds12
      BY <1>7, <2>5, <3>1
    <3>3. line' \in Grounds \X Grounds
      BY <3>2, PipelineAssumption
    <3>4. /\ pc' \in [Ctx -> Labels] /\ pc'[sh] = "start1"
          /\ \A c \in Ctx \ {sh} : pc'[c] \in {"none", "write", "read"}
      <4>1. pc' = [pc EXCEPT ![sh] = "start1"]
        BY <1>2, <3>2 DEF Goto
      <4>. QED BY <1>2, <1>3, <4>1 DEF Labels, ShellPoints, Family
    <3>5. Fits(Q, pc', pipe_fd', sh)
      <4>1. \A i \in Slots : i \in Int
        BY Ids DEF Slots
      <4>2. \A i \in Slots : slot + 3 = i + 3 => i = slot
        BY <2>6, <4>1
      <4>. QED BY <1>10, <2>1, <2>8, <3>2, <3>4, <4>2 DEF Fits
    <3>6. Family(k, pc', pids', sh)
      <4>1. \A pid : ~ Target("prompt", pids, pid) /\ ~ Target("start1", pids, pid)
        BY DEF Target
      <4>2. \A pid : ~ Expected("prompt", pids, pid)
        BY DEF Expected
      <4>. QED BY <1>1, <1>2, <1>3, <3>4, <4>1, <4>2 DEF Family, ShellPoints
    <3>. QED BY <1>1, <1>3, <2>1, <2>4, <3>3, <3>4, <3>5, <3>6, OverFollows
  <2>. QED BY <2>7, <2>8
<1>11. \/ o = Return(Of(k, sems, pipes, n, call, delivered), sh, -1)
       \/ \E slot \in Slots : \E w :
            /\ ~ pipes[slot].isOpen /\ slot + 3 \in Pipes /\ Issued(w, sems, n)
            /\ o = Piped(k, w, pipes, n, call, delivered, slot, sh)
  BY <1>2, <1>4, <1>6, PipeMade
<1>. QED
  BY <1>9, <1>10, <1>11

-----------------------------------------------------------------------------
(***************************************************************************)
(* The theorem.                                                            *)
(***************************************************************************)
LEMMA OverStep ==
    ASSUME OverInv, [PipelineNext]_pipelineVars
    PROVE  OverInv'
<1>1. PICK sh \in Ctx : Over(sh)
  BY DEF OverInv
<1>2. CASE ShellCreatesPipe
  BY <1>1, <1>2, CreateOver
<1>3. pipe_fd \in Pipes \/ pc[sh] = "prompt"
  BY <1>1 DEF Over, Fits
<1>4. CASE ShellStarts1
  <2>1. Running("start1") /\ Starts(1, << STDIN, pipe_fd >>, "write", "start2")
    BY <1>4 DEF ShellStarts1
  <2>2. line' = line /\ pipe_fd' = pipe_fd
    BY <1>4 DEF ShellStarts1
  <2>3. ProgramRuns /\ pc[Me] = "start1"
    BY <2>1 DEF Running
  <2>4. << STDIN, pipe_fd >> \in FdPairs
    BY <1>1, <1>3, <2>3, ShellRuns DEF ShellPoints, FdPairs
  <2>5. << "start1", "start2", 1 >> \in StartPoints /\ "write" \in {"write", "read"}
    BY DEF StartPoints
  <2>. QED BY <1>1, <2>1, <2>2, <2>4, <2>5, StartOver
<1>5. CASE ShellStarts2
  <2>1. Running("start2") /\ Starts(2, << pipe_fd, STDOUT >>, "read", "wait1")
    BY <1>5 DEF ShellStarts2
  <2>2. line' = line /\ pipe_fd' = pipe_fd
    BY <1>5 DEF ShellStarts2
  <2>3. ProgramRuns /\ pc[Me] = "start2"
    BY <2>1 DEF Running
  <2>4. << pipe_fd, STDOUT >> \in FdPairs
    BY <1>1, <1>3, <2>3, ShellRuns DEF ShellPoints, FdPairs
  <2>5. << "start2", "wait1", 2 >> \in StartPoints /\ "read" \in {"write", "read"}
    BY DEF StartPoints
  <2>. QED BY <1>1, <2>1, <2>2, <2>4, <2>5, StartOver
<1>6. CASE ShellWaits1
  <2>1. << "wait1", "wait2", 1 >> \in WaitPoints
    BY DEF WaitPoints
  <2>. QED BY <1>1, <1>6, <2>1, WaitOver DEF ShellWaits1
<1>7. CASE ShellWaits2
  <2>1. << "wait2", "close", 2 >> \in WaitPoints
    BY DEF WaitPoints
  <2>. QED BY <1>1, <1>7, <2>1, WaitOver DEF ShellWaits2
<1>8. CASE ShellClosesPipe
  BY <1>1, <1>8, CloseOver
<1>9. CASE WriterWrites
  BY <1>1, <1>9, WriterOver
<1>10. CASE ReaderReads
  BY <1>1, <1>10, ReaderOver
<1>11. CASE ProgramExits
  BY <1>1, <1>11, ExitOver
<1>12. CASE KernelStep
  BY <1>1, <1>12, KernelOver
<1>13. CASE Tick
  BY <1>1, <1>13, TickOver
<1>14. CASE CtrlCPressed
  BY <1>1, <1>14, CtrlCOver
<1>15. CASE UNCHANGED pipelineVars
  <2>1. Over(sh)'
    BY <1>1, <1>15 DEF Over, pipelineVars, pipeVars, shellVars
  <2>. QED BY <2>1 DEF OverInv
<1>. QED
  BY <1>2, <1>4, <1>5, <1>6, <1>7, <1>8, <1>9, <1>10, <1>11, <1>12, <1>13, <1>14, <1>15
     DEF PipelineNext, UserStep

LEMMA OverInit ==
    ASSUME PipelineInit
    PROVE  OverInv
<1>1. /\ Init /\ sems = [id \in SemIds |-> Inactive]
      /\ pipes = [i \in Slots |-> ClosedPipe] /\ next_sem_id = FIRST_SEM
      /\ call = [c \in Ctx |-> InProgram]
  BY DEF PipelineInit, PipeInit, SemInit
<1>2. /\ pc = [c \in Ctx |-> IF k.pid[c] = SHELL_PID THEN "prompt" ELSE "none"]
      /\ line = << FOREGROUND, FOREGROUND >> /\ pids = << NO_PROCESS, NO_PROCESS >>
  BY DEF PipelineInit
<1>3. /\ Inv(k) /\ \A c \in Ctx : k.waitingList[c] = << >>
      /\ \A c \in Ctx : k.pid[c] # NO_PROCESS => k.status[c] = "READY"
      /\ \A c \in Ctx : k.status[c] # "FREED" => k.pid[c] \in {IDLE_PID, SHELL_PID}
  BY <1>1, InitInv
<1>4. PICK sh \in Ctx : k.pid[sh] = SHELL_PID /\ k.status[sh] \in Live
  BY <1>3 DEF Inv, Common, Survivors
<1>5. \A c \in Ctx : ToSet(k.waitingList[c]) = {}
  BY <1>3 DEF ToSet
<1>6. IsShell(k, sh)
  BY <1>4, <1>5 DEF IsShell, LiveIn
<1>7. \A c \in Ctx \ {sh} : k.pid[c] # SHELL_PID
  <2>1. ASSUME NEW c \in Ctx \ {sh}, k.pid[c] = SHELL_PID
        PROVE  FALSE
    <3>1. k.status[c] \in Live
      BY <1>3, <2>1 DEF SHELL_PID, NO_PROCESS, Live
    <3>. QED BY <1>3, <1>4, <2>1, <3>1, PidsDiffer
  <2>. QED BY <2>1
<1>8. /\ pc \in [Ctx -> Labels] /\ pc[sh] = "prompt"
      /\ \A c \in Ctx \ {sh} : pc[c] = "none"
  BY <1>2, <1>4, <1>7 DEF Labels, ShellPoints
<1>9. Family(k, pc, pids, sh)
  <2>1. pids \in [1 .. 2 -> (Pids \ {SHELL_PID}) \cup {NO_PROCESS}]
    BY <1>2
  <2>2. \A pid : ~ Target("prompt", pids, pid)
    BY DEF Target
  <2>3. \A c \in Ctx \ {sh} : LiveIn(k, c) => k.pid[c] = IDLE_PID /\ ~ Awaits(k, sh, c)
    BY <1>3, <1>5, <1>7 DEF LiveIn, Live, Awaits
  <2>. QED BY <1>8, <2>1, <2>2, <2>3 DEF Family, ShellPoints
<1>10. line \in Grounds \X Grounds
  BY <1>2 DEF Grounds
<1>11. /\ ClosedPipe \in Pipe /\ ClosedPipe.isOpen = FALSE /\ ClosedPipe.semReaders = -1
       /\ ClosedPipe.semWriters = -1 /\ ClosedPipe.mutex = -1
  <2>1. 0 \in Index /\ 0 \in 0 .. PIPE_BUFFER_SIZE
    BY Ids DEF Index
  <2>. QED BY <2>1 DEF ClosedPipe, Pipe
<1>12. Tidy(sems, pipes, next_sem_id, {})
  <2>1. /\ sems \in [SemIds -> Semaphore] /\ Unused(sems, next_sem_id)
        /\ \A id \in SemIds : SHELL_PID \notin ToSet(sems[id].waitQueue)
    BY <1>1 DEF Inactive, Semaphore, Unused, ToSet
  <2>2. pipes \in [Slots -> Pipe] /\ \A i \in Slots : pipes[i] = ClosedPipe
    BY <1>1, <1>11
  <2>3. next_sem_id \in Nat /\ next_sem_id >= FIRST_SEM /\ -1 < next_sem_id
    BY <1>1, Ids
  <2>. QED BY <1>11, <2>1, <2>2, <2>3 DEF Tidy, Usable
<1>13. Calls(k, pipes, call, sh)
  <2>1. InProgram \in Call /\ InProgram.at = "user"
    <3>1. 0 \in Slots
      BY Ids DEF Slots
    <3>. QED BY <3>1 DEF InProgram, Call, Points
  <2>2. call \in [Ctx -> Call] /\ \A c \in Ctx : call[c].at = "user"
    BY <1>1, <2>1
  <2>. QED BY <2>2 DEF Calls, BodyPoints
<1>14. Fits(pipes, pc, pipe_fd, sh)
  BY <1>1, <1>8, <1>11 DEF Fits, Usable
<1>15. \A c \in Ctx : k.status[c] = "FREED" => call[c] = InProgram
  BY <1>1
<1>16. Over(sh)
  BY <1>3, <1>6, <1>8, <1>9, <1>10, <1>12, <1>13, <1>14, <1>15 DEF Over, Labels
<1>. QED
  BY <1>16 DEF OverInv

LEMMA OverMeansOver ==
    ASSUME OverInv
    PROVE  PromptMeansOver
<1>1. PICK sh \in Ctx : Over(sh)
  BY DEF OverInv
<1>2. SUFFICES ASSUME AtPrompt
               PROVE  /\ \A c \in Ctx : k.status[c] \in Live => k.pid[c] \in {IDLE_PID, SHELL_PID}
                      /\ \A i \in Slots : pipes[i].isOpen => pipes[i].mutex \notin SemIds
  BY DEF PromptMeansOver
<1>3. pc[sh] = "prompt" /\ k.pid[sh] = SHELL_PID
  BY <1>1, <1>2 DEF AtPrompt, Over, IsShell, LiveIn
<1>4. ASSUME NEW c \in Ctx, k.status[c] \in Live
      PROVE  k.pid[c] \in {IDLE_PID, SHELL_PID}
  <2>1. CASE c = sh
    BY <1>3, <2>1
  <2>2. CASE c # sh
    <3>1. k.pid[c] # IDLE_PID => Expected("prompt", pids, k.pid[c])
      BY <1>1, <1>3, <1>4, <2>2 DEF Over, Family, LiveIn
    <3>2. ~ Expected("prompt", pids, k.pid[c])
      BY DEF Expected
    <3>. QED BY <3>1, <3>2
  <2>. QED BY <2>1, <2>2
<1>5. \A i \in Slots : ~ Usable(pipes[i])
  BY <1>1, <1>3 DEF Over, Fits
<1>. QED
  BY <1>4, <1>5 DEF Usable

\* When the shell prompts again both processes of its pipeline are gone, however
\* they ended, and no pipe is left that could be used: handle_piped_commands in
\* shell.c waits for the two pids it got and then closes the pipe, whose mutex
\* nobody holds.
THEOREM PromptMeansOverCorrect == PipelineSpec => []PromptMeansOver
<1>1. PipelineInit => OverInv
  BY OverInit
<1>2. OverInv /\ [PipelineNext]_pipelineVars => OverInv'
  BY OverStep
<1>3. OverInv => PromptMeansOver
  BY OverMeansOver
<1>. QED
  BY <1>1, <1>2, <1>3, PTL DEF PipelineSpec

\* Between system calls nobody holds or awaits the mutex of the pipe as long as it
\* can be used, whatever closePipe, the exits of both programs and Ctrl+C in the
\* middle of readPipe, writePipe or closePipe in pipes.c do.
THEOREM PipelineMutexCorrect == PipelineSpec => []MutexIsFree
<1>1. PipelineInit => OverInv
  BY OverInit
<1>2. OverInv /\ [PipelineNext]_pipelineVars => OverInv'
  BY OverStep
<1>3. OverInv => MutexIsFree
  <2>1. OverInv => \E sh \in Ctx : Tidy(sems, pipes, next_sem_id, {})
    BY DEF OverInv, Over
  <2>. QED BY <2>1 DEF Tidy, Usable, MutexIsFree
<1>. QED
  BY <1>1, <1>2, <1>3, PTL DEF PipelineSpec

=============================================================================
