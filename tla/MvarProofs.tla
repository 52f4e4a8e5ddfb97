------------------------------ MODULE MvarProofs ------------------------------
(***************************************************************************)
(* mvar, for any number of writers and readers: each letter is printed in  *)
(* the colour of its reader.                                               *)
(*                                                                         *)
(* The colour is protected by the print semaphore, as long as nobody else  *)
(* gives it tokens.  Its readers also block on the semaphores of the pipe, *)
(* of which this proof only says that they are others: so it assumes       *)
(* nothing of what pipes do, and World leaves open where a process is that *)
(* does not print.                                                         *)
(***************************************************************************)
EXTENDS Mvar, PipeProofs

\* After sem_wait on the print semaphore and before sem_post; those that hold
\* it have run since sem_wait, so they are not blocked in it.
Printing == {"getColor", "setColor", "putchar", "restoreColor", "post", "log"}
Holding  == {"setColor", "putchar", "restoreColor", "post"}

\* The shell, before and after it starts the manager.
ShellWaiting == {"wait", "prompt", "getchar"}
Shells       == {"start"} \cup ShellWaiting

Labels == Printing \cup Shells \cup
          {"none", "destroy", "create", "pipe", "spawn", "logWait", "exit",
           "pauseWriter", "write", "pauseReader", "read", "waitPrint"}

\* Those that print are at the print semaphore, and only those.
PrintHome(home, at_) == \A c \in Ctx : home[c] = MVAR_SEM_PRINT <=> at_[c] \in Printing

\* The print semaphore, with the processes that it let in, has one token at most.
Placed(s, m, at_) ==
    \E home : /\ Peaceful(s, m, home)
              /\ PrintHome(home, at_)
              /\ Supply(s, m, home, MVAR_SEM_PRINT) <= 1

\* Each process but idle has a program, and only the shell has the shell's.
Programmed(s, at_) ==
    \A c \in Ctx : at_[c] # "none" =>
        /\ s.status[c] # "FREED" /\ s.pid[c] # IDLE_PID
        /\ at_[c] \notin Shells => s.pid[c] # SHELL_PID

\* Before the manager starts there is the shell only, and before it has created
\* the print semaphore there are no workers.
InTurn(at_) ==
    /\ \A c \in Ctx : at_[c] = "start" => \A d \in Ctx \ {c} : at_[d] = "none"
    /\ \A c \in Ctx : at_[c] \in {"destroy", "create"} =>
            \A d \in Ctx \ {c} : at_[d] \in ShellWaiting \cup {"none"}

HoldersAwake(s, at_) == \A c \in Ctx : at_[c] \in Holding => s.status[c] # "BLOCKED"

World(s, m, at_) ==
    /\ at_ \in [Ctx -> Labels]
    /\ Placed(s, m, at_)
    /\ AtConsole(s)
    /\ Programmed(s, at_)
    /\ InTurn(at_)
    /\ HoldersAwake(s, at_)

\* The print semaphore is no pipe's and not the keyboard's.
LEMMA PrintId ==
    /\ MVAR_SEM_PRINT \in SemIds /\ MVAR_SEM_PRINT \in Int /\ MVAR_SEM_PRINT # -1
    /\ MVAR_SEM_PRINT < FIRST_SEM /\ MVAR_SEM_PRINT # KEYBOARD_SEM_ID
    /\ KEYBOARD_SEM_ID \in SemIds /\ KEYBOARD_SEM_ID \in Int
    /\ -1 \notin SemIds /\ SemIds \subseteq Int
<1>1. {KEYBOARD_SEM_ID, MVAR_SEM_PRINT} \subseteq SemIds \ (FIRST_SEM .. NUM_SEMS - 1)
  BY MvarAssumption
<1>2. MVAR_SEM_PRINT \in Nat /\ MVAR_SEM_PRINT < NUM_SEMS /\ FIRST_SEM \in Nat /\ NUM_SEMS \in Nat
  BY <1>1, Ids
<1>3. MVAR_SEM_PRINT < FIRST_SEM
  BY <1>1, <1>2
<1>. QED
  BY <1>1, <1>2, <1>3, Ids, MvarAssumption DEF KEYBOARD_SEM_ID

\* The process that runs.
LEMMA RunnerOf ==
    ASSUME NEW s, NEW m, NEW at_, World(s, m, at_)
    PROVE  /\ Inv(s) /\ Undead(s) /\ m \in [SemIds -> Semaphore]
           /\ \A c \in Ctx : c = s.currentProcess =>
                /\ s.status[c] = "RUNNING" /\ s.currentPid = s.pid[c]
                /\ at_[c] # "none" => s.pid[c] # IDLE_PID
<1>1. Inv(s) /\ Undead(s) /\ m \in [SemIds -> Semaphore] /\ Programmed(s, at_)
  BY DEF World, Placed, Peaceful, Orderly
<1>. QED
  BY <1>1, SchedulerAssumption DEF Inv, Cpu, Undead, Programmed

\* With at most one token, nobody else prints while a process does.
LEMMA AloneAwake ==
    ASSUME NEW s, NEW m, NEW at_, World(s, m, at_),
           NEW c \in Ctx, NEW d \in Ctx, at_[c] \in Printing, at_[d] \in Printing,
           s.status[c] # "BLOCKED", s.status[d] # "BLOCKED"
    PROVE  c = d
<1>1. PICK home : /\ Peaceful(s, m, home)
                  /\ PrintHome(home, at_)
                  /\ Supply(s, m, home, MVAR_SEM_PRINT) <= 1
  BY DEF World, Placed
<1>. DEFINE A == Awakened(s, home, MVAR_SEM_PRINT)
<1>2. c \in A /\ d \in A
  <2>1. \A e \in Ctx : at_[e] \in Printing => s.status[e] # "FREED"
    BY DEF World, Programmed, Printing
  <2>2. \A e \in Ctx : s.status[e] \in Statuses /\ s.status[e] # "TERMINATED"
    BY RunnerOf DEF Undead, Inv, Common, Kernel
  <2>. QED BY <1>1, <2>1, <2>2 DEF Awakened, PrintHome, Statuses, Live
<1>3. IsFiniteSet(A) /\ Cardinality(A) \in Nat
  BY AwakenedFinite
<1>4. Cardinality(A) <= 1
  <2>1. m[MVAR_SEM_PRINT].counter \in Nat
    BY RunnerOf, PrintId DEF Semaphore
  <2>. QED BY <1>1, <1>3, <2>1 DEF Supply
<1>. HIDE DEF A
<1>5. SUFFICES ASSUME c # d PROVE FALSE
  OBVIOUS
<1>6. {c} \subseteq A \ {d}
  BY <1>2, <1>5
<1>7. IsFiniteSet(A \ {d}) /\ Cardinality(A \ {d}) = Cardinality(A) - 1
  BY <1>2, <1>3, FS_RemoveElement
<1>8. Cardinality({c}) = 1
  BY FS_Singleton
<1>9. Cardinality({c}) <= Cardinality(A \ {d})
  BY <1>6, <1>7, FS_Subset
<1>. QED
  BY <1>3, <1>4, <1>7, <1>8, <1>9

-----------------------------------------------------------------------------
(***************************************************************************)
(* Steps of one process.                                                   *)
(***************************************************************************)

\* From label a a program goes on at b.
Succeeds(a, b) ==
    /\ a # "none" /\ b \in Labels \ {"none", "start", "destroy"}
    /\ b = "create" => a = "destroy"
    /\ a \in Shells <=> b \in ShellWaiting

\* c takes such a step, or none.
Advances(at_, at2, c) ==
    /\ at2 \in [Ctx -> Labels]
    /\ \A d \in Ctx : d # c => at2[d] = at_[d]
    /\ at2[c] = at_[c] \/ Succeeds(at_[c], at2[c])

LEMMA TurnKept ==
    ASSUME NEW at_, NEW at2, NEW c \in Ctx, InTurn(at_), Advances(at_, at2, c)
    PROVE  InTurn(at2)
<1>1. \A d \in Ctx : d # c => at2[d] = at_[d]
  BY DEF Advances
<1>2. CASE at2[c] = at_[c]
  <2>1. \A d \in Ctx : at2[d] = at_[d]
    BY <1>1, <1>2
  <2>. QED BY <2>1 DEF InTurn
<1>3. CASE Succeeds(at_[c], at2[c])
  <2>0. /\ at_[c] # "none" /\ at2[c] \notin {"none", "start", "destroy"}
        /\ at2[c] = "create" => at_[c] = "destroy"
        /\ at_[c] \in ShellWaiting => at2[c] \in ShellWaiting
    BY <1>3 DEF Succeeds, Shells
  <2>1. ASSUME NEW e \in Ctx, at2[e] = "start", NEW d \in Ctx \ {e} PROVE at2[d] = "none"
    <3>1. e # c /\ at_[e] = "start"
      BY <1>1, <2>0, <2>1
    <3>. QED BY <1>1, <2>0, <3>1 DEF InTurn
  <2>2. ASSUME NEW e \in Ctx, at2[e] \in {"destroy", "create"}, NEW d \in Ctx \ {e}
        PROVE  at2[d] \in ShellWaiting \cup {"none"}
    <3>1. at_[e] \in {"destroy", "create"}
      BY <1>1, <2>0, <2>2
    <3>2. \A x \in Ctx \ {e} : at_[x] \in ShellWaiting \cup {"none"}
      BY <3>1 DEF InTurn
    <3>. QED BY <1>1, <2>0, <3>2
  <2>. QED BY <2>1, <2>2 DEF InTurn
<1>. QED
  BY <1>2, <1>3 DEF Advances

\* A step in which nobody begins or ends.
LEMMA WorldKept ==
    ASSUME NEW s, NEW m, NEW at_, World(s, m, at_), NEW c \in Ctx,
           NEW t, NEW m2, NEW at2, Advances(at_, at2, c), Placed(t, m2, at2),
           SameWorld(s, t), OnlyBlocks(s, t, c), AtConsole(t),
           at2[c] \in Holding => t.status[c] # "BLOCKED"
    PROVE  World(t, m2, at2)
<1>1. at2 \in [Ctx -> Labels] /\ \A d \in Ctx : d # c => at2[d] = at_[d]
  BY DEF Advances
<1>2. InTurn(at2)
  BY TurnKept DEF World
<1>3. Programmed(t, at2)
  <2>1. at2[c] # "none" => at_[c] # "none"
    BY DEF Advances, Succeeds
  <2>2. at2[c] \notin Shells => at_[c] \notin Shells
    BY DEF Advances, Succeeds, Shells
  <2>. QED BY <1>1, <2>1, <2>2 DEF World, Programmed, SameWorld
<1>4. HoldersAwake(t, at2)
  BY <1>1 DEF World, HoldersAwake, OnlyBlocks
<1>. QED
  BY <1>1, <1>2, <1>3, <1>4 DEF World

-----------------------------------------------------------------------------
(***************************************************************************)
(* System calls on semaphores other than the print semaphore.              *)
(***************************************************************************)

\* Where a process is that does not print can be settled anew.
LEMMA SettledElsewhere ==
    ASSUME NEW s, NEW m, NEW home, Peaceful(s, m, home), NEW at_, PrintHome(home, at_),
           NEW c \in Ctx, s.status[c] # "BLOCKED", at_[c] \notin Printing
    PROVE  \E home1 : /\ Peaceful(s, m, home1) /\ PrintHome(home1, at_) /\ home1[c] = -1
                      /\ Supply(s, m, home1, MVAR_SEM_PRINT) = Supply(s, m, home, MVAR_SEM_PRINT)
<1>. DEFINE home1 == [home EXCEPT ![c] = -1]
<1>1. home \in [Ctx -> Int]
  BY DEF Peaceful, Orderly
<1>2. home1 \in [Ctx -> Int] /\ \A d \in Ctx : home1[d] = IF d = c THEN -1 ELSE home[d]
  BY <1>1
<1>. HIDE DEF home1
<1>3. Goes(home, c, -1, home1)
  BY <1>2 DEF Goes
<1>4. Peaceful(s, m, home1)
  BY <1>3, PeacefulMove
<1>5. PrintHome(home1, at_)
  BY <1>2, PrintId DEF PrintHome
<1>6. Awakened(s, home1, MVAR_SEM_PRINT) = Awakened(s, home, MVAR_SEM_PRINT)
  BY <1>2, PrintId DEF Awakened, PrintHome
<1>7. Supply(s, m, home1, MVAR_SEM_PRINT) = Supply(s, m, home, MVAR_SEM_PRINT)
  BY <1>6 DEF Supply
<1>. QED
  BY <1>2, <1>4, <1>5, <1>7

LEMMA SameLabels ==
    ASSUME NEW s, NEW m, NEW at_, World(s, m, at_), NEW c \in Ctx
    PROVE  Advances(at_, at_, c)
BY DEF Advances, World

LEMMA WaitElsewhere ==
    ASSUME NEW s, NEW m, NEW at_, World(s, m, at_), NEW c \in Ctx, c = s.currentProcess,
           at_[c] # "none", at_[c] \notin Printing, NEW id \in SemIds, id # MVAR_SEM_PRINT,
           NEW t, NEW m2, SemWait(Sys(s, m), id) = Sys(t, m2)
    PROVE  World(t, m2, at_)
<1>1. /\ Inv(s) /\ Undead(s) /\ s.status[c] = "RUNNING" /\ s.currentPid = s.pid[c]
      /\ s.pid[c] # IDLE_PID /\ id \in Int
  BY RunnerOf, PrintId
<1>2. PICK home0 : /\ Peaceful(s, m, home0)
                   /\ PrintHome(home0, at_)
                   /\ Supply(s, m, home0, MVAR_SEM_PRINT) <= 1
  BY DEF World, Placed
<1>3. s.status[c] # "BLOCKED"
  BY <1>1
<1>4. PICK home : /\ Peaceful(s, m, home) /\ PrintHome(home, at_) /\ home[c] = -1
                  /\ Supply(s, m, home, MVAR_SEM_PRINT) = Supply(s, m, home0, MVAR_SEM_PRINT)
  BY <1>2, <1>3, SettledElsewhere
<1>5. home[c] \notin SemIds
  BY <1>4, PrintId
<1>. DEFINE home2 == [home EXCEPT ![c] = id]
<1>6. home2 \in [Ctx -> Int] /\ \A d \in Ctx : home2[d] = IF d = c THEN id ELSE home[d]
  BY <1>1, <1>4 DEF Peaceful, Orderly
<1>. HIDE DEF home2
<1>7. Goes(home, c, id, home2)
  BY <1>6 DEF Goes
<1>8. Peaceful(t, m2, home2)
  BY <1>1, <1>4, <1>5, <1>7, PeacefulSemWait
<1>9. \A j \in SemIds : Supply(t, m2, home2, j) = Supply(s, m, home, j)
  BY <1>1, <1>4, <1>5, <1>7, PeacefulSemWait
<1>10. SameWorld(s, t)
  BY <1>1, <1>4, <1>5, <1>7, PeacefulSemWait
<1>11. PrintHome(home2, at_)
  BY <1>4, <1>6, PrintId DEF PrintHome
<1>12. Placed(t, m2, at_)
  <2>1. Supply(t, m2, home2, MVAR_SEM_PRINT) <= 1
    BY <1>2, <1>4, <1>9, PrintId
  <2>. QED BY <1>8, <1>11, <2>1 DEF Placed
<1>13. OnlyBlocks(s, t, c)
  BY <1>1, WaitBlocksCaller
<1>14. AtConsole(t)
  <2>1. t = s \/ t = BlockProcess(s, s.currentPid)
    BY DEF SemWait, Sys
  <2>2. AtConsole(s)
    BY DEF World
  <2>. QED BY <1>1, <2>1, <2>2, ConsoleBlock
<1>15. at_[c] \notin Holding
  BY DEF Holding, Printing
<1>. QED
  BY <1>10, <1>12, <1>13, <1>14, <1>15, SameLabels, WorldKept

LEMMA PostElsewhere ==
    ASSUME NEW s, NEW m, NEW at_, World(s, m, at_), NEW id \in SemIds, id # MVAR_SEM_PRINT,
           NEW t, NEW m2, SemPost(Sys(s, m), id) = Sys(t, m2), NEW c \in Ctx
    PROVE  World(t, m2, at_) /\ t.currentProcess = s.currentProcess
<1>1. PICK home : /\ Peaceful(s, m, home)
                  /\ PrintHome(home, at_)
                  /\ Supply(s, m, home, MVAR_SEM_PRINT) <= 1
  BY DEF World, Placed
<1>2. Orderly(s, m, home)
  BY <1>1 DEF Peaceful
<1>3. Peaceful(t, m2, home)
  BY <1>1, PeacefulSemPost
<1>4. /\ SameProcesses(s, t) /\ \A d \in Ctx : t.status[d] = "FREED" <=> s.status[d] = "FREED"
  BY <1>2, OrderlyPost
<1>5. Supply(t, m2, home, MVAR_SEM_PRINT) = Supply(s, m, home, MVAR_SEM_PRINT)
  BY <1>2, PrintId, OrderlyPost
<1>6. Placed(t, m2, at_)
  BY <1>1, <1>3, <1>5 DEF Placed
<1>7. \A d \in Ctx : t.status[d] = "BLOCKED" => s.status[d] = "BLOCKED"
  BY <1>2, PostBlocksNobody
<1>8. SameWorld(s, t) /\ OnlyBlocks(s, t, c) /\ AtConsole(t)
  BY <1>4, <1>7 DEF SameProcesses, SameWorld, OnlyBlocks, World, AtConsole
<1>9. at_[c] \in Holding => t.status[c] # "BLOCKED"
  BY <1>7 DEF World, HoldersAwake
<1>10. World(t, m2, at_)
  BY <1>6, <1>8, <1>9, SameLabels, WorldKept
<1>. QED
  BY <1>4, <1>10 DEF SameProcesses

\* A tick or a yield.
LEMMA TurnWorld ==
    ASSUME NEW s, NEW m, NEW at_, World(s, m, at_), NEW t, t = Schedule(s) \/ t = Yield(s),
           NEW c \in Ctx
    PROVE  World(t, m, at_)
<1>1. PICK home : /\ Peaceful(s, m, home)
                  /\ PrintHome(home, at_)
                  /\ Supply(s, m, home, MVAR_SEM_PRINT) <= 1
  BY DEF World, Placed
<1>2. Peaceful(t, m, home) /\ Steady(s, t)
  BY <1>1, PeacefulSchedule
<1>3. Supply(t, m, home, MVAR_SEM_PRINT) = Supply(s, m, home, MVAR_SEM_PRINT)
  BY <1>1, PrintId, PeacefulSchedule
<1>4. Placed(t, m, at_)
  BY <1>1, <1>2, <1>3 DEF Placed
<1>5. AtConsole(t)
  <2>1. Mid(s)
    BY RunnerOf, InvIsMid
  <2>. QED BY <2>1, ConsoleSchedule, ConsoleYield DEF World
<1>6. SameWorld(s, t) /\ OnlyBlocks(s, t, c)
  BY <1>2 DEF Steady, SameWorld, OnlyBlocks
<1>7. at_[c] \in Holding => t.status[c] # "BLOCKED"
  BY <1>2 DEF World, HoldersAwake, Steady
<1>. QED
  BY <1>4, <1>5, <1>6, <1>7, SameLabels, WorldKept

\* A process goes on at another label, inside or outside as it was.
LEMMA Relabelled ==
    ASSUME NEW s, NEW m, NEW at_, World(s, m, at_), NEW c \in Ctx, NEW at2,
           Advances(at_, at2, c), at_[c] \in Printing <=> at2[c] \in Printing,
           at2[c] \in Holding => s.status[c] # "BLOCKED"
    PROVE  World(s, m, at2)
<1>1. PICK home : /\ Peaceful(s, m, home)
                  /\ PrintHome(home, at_)
                  /\ Supply(s, m, home, MVAR_SEM_PRINT) <= 1
  BY DEF World, Placed
<1>2. PrintHome(home, at2)
  BY <1>1 DEF PrintHome, Advances
<1>3. Placed(s, m, at2)
  BY <1>1, <1>2 DEF Placed
<1>4. SameWorld(s, s) /\ OnlyBlocks(s, s, c) /\ AtConsole(s)
  BY DEF SameWorld, OnlyBlocks, World
<1>. QED
  BY <1>3, <1>4, WorldKept

-----------------------------------------------------------------------------
(***************************************************************************)
(* The print semaphore.                                                    *)
(***************************************************************************)

\* sem_wait: the process prints once it goes on.
LEMMA WaitPrint ==
    ASSUME NEW s, NEW m, NEW at_, World(s, m, at_), NEW c \in Ctx, c = s.currentProcess,
           at_[c] # "none", at_[c] \notin Printing,
           NEW at2, Advances(at_, at2, c), at2[c] \in Printing \ Holding,
           NEW t, NEW m2, SemWait(Sys(s, m), MVAR_SEM_PRINT) = Sys(t, m2)
    PROVE  World(t, m2, at2)
<1>. DEFINE id == MVAR_SEM_PRINT
<1>1. /\ Inv(s) /\ Undead(s) /\ s.status[c] = "RUNNING" /\ s.currentPid = s.pid[c]
      /\ s.pid[c] # IDLE_PID /\ id \in SemIds /\ id \in Int
  BY RunnerOf, PrintId
<1>2. PICK home0 : /\ Peaceful(s, m, home0)
                   /\ PrintHome(home0, at_)
                   /\ Supply(s, m, home0, id) <= 1
  BY DEF World, Placed
<1>3. s.status[c] # "BLOCKED"
  BY <1>1
<1>4. PICK home : /\ Peaceful(s, m, home) /\ PrintHome(home, at_) /\ home[c] = -1
                  /\ Supply(s, m, home, id) = Supply(s, m, home0, id)
  BY <1>2, <1>3, SettledElsewhere
<1>5. home[c] \notin SemIds
  BY <1>4, PrintId
<1>. DEFINE home2 == [home EXCEPT ![c] = id]
<1>6. home2 \in [Ctx -> Int] /\ \A d \in Ctx : home2[d] = IF d = c THEN id ELSE home[d]
  BY <1>1, <1>4 DEF Peaceful, Orderly
<1>. HIDE DEF home2
<1>7. Goes(home, c, id, home2)
  BY <1>6 DEF Goes
<1>8. Peaceful(t, m2, home2)
  BY <1>1, <1>4, <1>5, <1>7, PeacefulSemWait
<1>9. \A j \in SemIds : Supply(t, m2, home2, j) = Supply(s, m, home, j)
  BY <1>1, <1>4, <1>5, <1>7, PeacefulSemWait
<1>10. SameWorld(s, t)
  BY <1>1, <1>4, <1>5, <1>7, PeacefulSemWait
<1>11. PrintHome(home2, at2)
  BY <1>4, <1>6 DEF PrintHome, Advances
<1>12. Placed(t, m2, at2)
  <2>1. Supply(t, m2, home2, id) <= 1
    BY <1>1, <1>2, <1>4, <1>9
  <2>. QED BY <1>8, <1>11, <2>1 DEF Placed
<1>13. OnlyBlocks(s, t, c)
  BY <1>1, WaitBlocksCaller
<1>14. AtConsole(t)
  <2>1. t = s \/ t = BlockProcess(s, s.currentPid)
    BY DEF SemWait, Sys
  <2>2. AtConsole(s)
    BY DEF World
  <2>. QED BY <1>1, <2>1, <2>2, ConsoleBlock
<1>. QED
  BY <1>10, <1>12, <1>13, <1>14, WorldKept

\* sem_post: it has printed, and its token is the semaphore's again.
LEMMA PostPrint ==
    ASSUME NEW s, NEW m, NEW at_, World(s, m, at_), NEW c \in Ctx, c = s.currentProcess,
           at_[c] \in Printing, NEW at2, Advances(at_, at2, c), at2[c] \notin Printing,
           NEW t, NEW m2, SemPost(Sys(s, m), MVAR_SEM_PRINT) = Sys(t, m2)
    PROVE  World(t, m2, at2)
<1>. DEFINE id == MVAR_SEM_PRINT
<1>1. s.status[c] = "RUNNING" /\ id \in SemIds /\ id # -1 /\ -1 \notin SemIds
  BY RunnerOf, PrintId
<1>2. PICK home : Peaceful(s, m, home) /\ PrintHome(home, at_) /\ Supply(s, m, home, id) <= 1
  BY DEF World, Placed
<1>3. Orderly(s, m, home) /\ home \in [Ctx -> Int] /\ home[c] = id
  BY <1>2 DEF Peaceful, Orderly, PrintHome
<1>4. Supply(s, m, home, id) \in Int
  <2>1. m[id].counter \in Int
    BY <1>1, RunnerOf DEF Semaphore
  <2>2. Cardinality(Awakened(s, home, id)) \in Int
    BY AwakenedFinite
  <2>. QED BY <2>1, <2>2 DEF Supply
<1>. DEFINE home2 == [home EXCEPT ![c] = -1]
<1>5. home2 \in [Ctx -> Int] /\ \A d \in Ctx : home2[d] = IF d = c THEN -1 ELSE home[d]
  BY <1>3
<1>. HIDE DEF home2
<1>6. Goes(home, c, -1, home2)
  BY <1>5 DEF Goes
<1>7. Peaceful(s, m, home2)
  <2>1. s.status[c] # "BLOCKED"
    BY <1>1
  <2>. QED BY <1>2, <1>6, <2>1, PeacefulMove
<1>8. Supply(s, m, home2, id) = Supply(s, m, home, id) - 1
  <2>1. /\ c = s.currentProcess /\ home[c] = id /\ id \in SemIds
        /\ -1 \in Int /\ -1 \notin SemIds /\ Orderly(s, m, home)
    BY <1>1, <1>3
  <2>. HIDE DEF id
  <2>. QED BY <1>6, <2>1, OrderlyLeave
<1>9. Orderly(s, m, home2)
  BY <1>7 DEF Peaceful
<1>10. Peaceful(t, m2, home2)
  BY <1>1, <1>7, PeacefulSemPost
<1>11. Supply(t, m2, home2, id) = Supply(s, m, home2, id) + 1
  BY <1>1, <1>9, OrderlyPost
<1>12. SameProcesses(s, t) /\ \A d \in Ctx : t.status[d] = "FREED" <=> s.status[d] = "FREED"
  BY <1>1, <1>9, OrderlyPost
<1>13. \A d \in Ctx : t.status[d] = "BLOCKED" => s.status[d] = "BLOCKED"
  BY <1>1, <1>9, PostBlocksNobody
<1>14. SameWorld(s, t) /\ OnlyBlocks(s, t, c) /\ AtConsole(t)
  BY <1>12, <1>13 DEF SameProcesses, SameWorld, OnlyBlocks, World, AtConsole
<1>15. PrintHome(home2, at2)
  BY <1>1, <1>2, <1>5 DEF PrintHome, Advances
<1>16. Placed(t, m2, at2)
  <2>1. Supply(t, m2, home2, id) <= 1
    BY <1>2, <1>4, <1>8, <1>11
  <2>. QED BY <1>10, <1>15, <2>1 DEF Placed
<1>17. at2[c] \notin Holding
  BY DEF Holding, Printing
<1>. QED
  BY <1>14, <1>16, <1>17, WorldKept

\* sem_create and sem_destroy of the print semaphore, while nobody is at it, and
\* of any other at any time.
LEMMA ResetWorld ==
    ASSUME NEW s, NEW m, NEW at_, World(s, m, at_), NEW c \in Ctx, NEW id \in SemIds,
           NEW x \in Semaphore, x.waitQueue = << >>,
           id = MVAR_SEM_PRINT => x.counter <= 1 /\ \A d \in Ctx : at_[d] \notin Printing,
           NEW m2, m2 = m \/ m2 = [m EXCEPT ![id] = x]
    PROVE  World(s, m2, at_)
<1>1. SUFFICES ASSUME m2 = [m EXCEPT ![id] = x] PROVE World(s, m2, at_)
  OBVIOUS
<1>2. PICK home : /\ Peaceful(s, m, home)
                  /\ PrintHome(home, at_)
                  /\ Supply(s, m, home, MVAR_SEM_PRINT) <= 1
  BY DEF World, Placed
<1>3. Orderly(s, m, home) /\ WaitersApart(s, home) /\ m \in [SemIds -> Semaphore]
  BY <1>2 DEF Peaceful, Orderly
<1>4. Orderly(s, m2, home)
  <2>1. Orderly(s, [m EXCEPT ![id] = x], home)
    BY <1>3, OrderlyReset
  <2>. QED BY <1>1, <2>1
<1>5. Supply(s, m2, home, MVAR_SEM_PRINT) <= 1
  <2>1. CASE id = MVAR_SEM_PRINT
    <3>1. Awakened(s, home, id) = {}
      BY <1>2, <2>1 DEF Awakened, PrintHome
    <3>2. Cardinality(Awakened(s, home, id)) = 0
      BY <3>1, FS_EmptySet
    <3>3. m2[id].counter <= 1 /\ m2[id].counter \in Nat
      BY <1>1, <1>3, <2>1 DEF Semaphore
    <3>. QED BY <2>1, <3>2, <3>3 DEF Supply
  <2>2. CASE id # MVAR_SEM_PRINT
    <3>1. m2[MVAR_SEM_PRINT] = m[MVAR_SEM_PRINT]
      BY <1>1, <1>3, <2>2, PrintId
    <3>. QED BY <1>2, <3>1 DEF Supply
  <2>. QED BY <2>1, <2>2
<1>6. Placed(s, m2, at_)
  BY <1>2, <1>3, <1>4, <1>5 DEF Placed, Peaceful
<1>. QED
  BY <1>6 DEF World

-----------------------------------------------------------------------------
(***************************************************************************)
(* Programs that begin, wait for another and end.                          *)
(***************************************************************************)

\* createProcess by c of a program on the console; the child d begins at entry.
LEMMA SpawnWorld ==
    ASSUME NEW s, NEW m, NEW at_, World(s, m, at_), NEW c \in Ctx, c = s.currentProcess,
           NEW d \in Ctx, s.status[d] = "FREED", NEW pid \in Pids, IsMinFreePid(s, pid),
           NEW program \in AnyProgram, program.fds = << STDIN, STDOUT >>,
           NEW t, t = CreateProcess(s, d, pid, program),
           NEW entry, NEW next, NEW at2, at2 = [at_ EXCEPT ![d] = entry, ![c] = next],
           \/ at_[c] = "start" /\ entry = "destroy" /\ next = "wait"
           \/ at_[c] = "spawn" /\ entry \in {"pauseWriter", "pauseReader"} /\ next = "spawn"
    PROVE  World(t, m, at2)
<1>1. Inv(s) /\ s.status[c] = "RUNNING" /\ Programmed(s, at_) /\ InTurn(at_) /\ AtConsole(s)
      /\ at_ \in [Ctx -> Labels]
  BY RunnerOf DEF World
<1>2. d # c /\ at_[d] = "none"
  BY <1>1 DEF Programmed
<1>3. entry \in Labels /\ next \in Labels
  BY DEF Labels, Shells, ShellWaiting
<1>4. /\ at2 \in [Ctx -> Labels] /\ at2[d] = entry /\ at2[c] = next
      /\ \A e \in Ctx : e # d /\ e # c => at2[e] = at_[e]
  BY <1>1, <1>2, <1>3
<1>5. /\ t.status[d] = "READY" /\ t.pid[d] = pid /\ pid # IDLE_PID
      /\ t.fdIn[d] = STDIN /\ t.fdOut[d] = STDOUT
      /\ \A e \in Ctx : e # d =>
            /\ t.status[e] = s.status[e] /\ t.pid[e] = s.pid[e]
            /\ t.fdIn[e] = s.fdIn[e] /\ t.fdOut[e] = s.fdOut[e]
  BY <1>1, ProcessCreated
<1>6. pid # SHELL_PID
  <2>1. s \in Kernel /\ Lists(s)
    BY <1>1 DEF Inv, Common
  <2>2. \A e \in ToSet(s.processList) : s.pid[e] # pid
    BY <2>1, FindProcessProperty DEF IsMinFreePid
  <2>3. \E e \in ToSet(s.processList) : s.pid[e] = SHELL_PID
    BY <1>1, <2>1 DEF Inv, Common, Survivors, Lists, Live
  <2>. QED BY <2>2, <2>3
<1>7. PICK home0 : /\ Peaceful(s, m, home0)
                   /\ PrintHome(home0, at_)
                   /\ Supply(s, m, home0, MVAR_SEM_PRINT) <= 1
  BY DEF World, Placed
<1>8. PICK home : /\ Peaceful(s, m, home) /\ PrintHome(home, at_) /\ home[d] = -1
                  /\ Supply(s, m, home, MVAR_SEM_PRINT) = Supply(s, m, home0, MVAR_SEM_PRINT)
  <2>1. s.status[d] # "BLOCKED" /\ at_[d] \notin Printing
    BY <1>2 DEF Printing
  <2>. QED BY <1>7, <2>1, SettledElsewhere
<1>9. home[d] \notin SemIds
  BY <1>8, PrintId
<1>10. Peaceful(t, m, home)
  BY <1>8, <1>9, PeacefulCreate
<1>11. \A id \in SemIds : Supply(t, m, home, id) = Supply(s, m, home, id)
  BY <1>8, <1>9, PeacefulCreate
<1>12. PrintHome(home, at2)
  <2>1. at_[c] \notin Printing /\ next \notin Printing /\ entry \notin Printing /\ at_[d] \notin Printing
    BY <1>2 DEF Printing
  <2>. QED BY <1>4, <1>8, <2>1 DEF PrintHome
<1>13. Placed(t, m, at2)
  <2>1. Supply(t, m, home, MVAR_SEM_PRINT) <= 1
    BY <1>7, <1>8, <1>11, PrintId
  <2>. QED BY <1>10, <1>12, <2>1 DEF Placed
<1>14. AtConsole(t)
  BY <1>1, <1>5 DEF AtConsole
<1>15. Programmed(t, at2)
  <2>1. at_[c] \in Shells <=> next \in Shells
    BY DEF Shells, ShellWaiting
  <2>. QED BY <1>1, <1>2, <1>4, <1>5, <1>6, <2>1 DEF Programmed
<1>16. InTurn(at2)
  <2>1. CASE at_[c] = "start" /\ entry = "destroy" /\ next = "wait"
    <3>1. \A e \in Ctx : e # d /\ e # c => at2[e] = "none"
      BY <1>1, <1>4, <2>1 DEF InTurn
    <3>. QED BY <1>4, <2>1, <3>1 DEF InTurn, ShellWaiting
  <2>2. CASE at_[c] = "spawn" /\ entry \in {"pauseWriter", "pauseReader"} /\ next = "spawn"
    <3>1. ASSUME NEW e \in Ctx, at2[e] \in {"start", "destroy", "create"} PROVE FALSE
      <4>1. e # d /\ e # c /\ at_[e] \in {"start", "destroy", "create"}
        BY <1>4, <2>2, <3>1
      <4>. QED BY <1>1, <2>2, <4>1 DEF InTurn, ShellWaiting
    <3>. QED BY <3>1 DEF InTurn
  <2>. QED BY <2>1, <2>2
<1>17. HoldersAwake(t, at2)
  <2>1. entry \notin Holding /\ next \notin Holding
    BY DEF Holding
  <2>. QED BY <1>4, <1>5, <2>1 DEF World, HoldersAwake
<1>. QED
  BY <1>4, <1>13, <1>14, <1>15, <1>16, <1>17 DEF World

\* waitProcess.
LEMMA WaitsWorld ==
    ASSUME NEW s, NEW m, NEW at_, World(s, m, at_), NEW c \in Ctx, c = s.currentProcess,
           at_[c] # "none", at_[c] \notin Printing, NEW pid, NEW t, t = WaitProcess(s, pid)
    PROVE  World(t, m, at_)
<1>1. /\ Inv(s) /\ Undead(s) /\ s.status[c] = "RUNNING" /\ s.pid[c] # IDLE_PID
      /\ s.status[c] # "BLOCKED"
  BY RunnerOf
<1>2. PICK home0 : /\ Peaceful(s, m, home0)
                   /\ PrintHome(home0, at_)
                   /\ Supply(s, m, home0, MVAR_SEM_PRINT) <= 1
  BY DEF World, Placed
<1>3. PICK home : /\ Peaceful(s, m, home) /\ PrintHome(home, at_) /\ home[c] = -1
                  /\ Supply(s, m, home, MVAR_SEM_PRINT) = Supply(s, m, home0, MVAR_SEM_PRINT)
  BY <1>1, <1>2, SettledElsewhere
<1>4. home[c] \notin SemIds
  BY <1>3, PrintId
<1>5. Peaceful(t, m, home)
  BY <1>1, <1>3, <1>4, PeacefulWaitProcess
<1>6. \A id \in SemIds : Supply(t, m, home, id) = Supply(s, m, home, id)
  BY <1>1, <1>3, <1>4, PeacefulWaitProcess
<1>7. \A d \in Ctx : t.pid[d] = s.pid[d] /\ (t.status[d] = "FREED" <=> s.status[d] = "FREED")
  BY <1>1, <1>3, <1>4, PeacefulWaitProcess
<1>8. OnlyBlocks(s, t, c)
  BY <1>1, <1>3, <1>4, PeacefulWaitProcess
<1>9. AtConsole(t)
  BY <1>1, ConsoleWait DEF World
<1>10. Placed(t, m, at_)
  <2>1. Supply(t, m, home, MVAR_SEM_PRINT) <= 1
    BY <1>2, <1>3, <1>6, PrintId
  <2>. QED BY <1>3, <1>5, <2>1 DEF Placed
<1>11. SameWorld(s, t)
  BY <1>7 DEF SameWorld
<1>12. at_[c] \notin Holding
  BY DEF Holding, Printing
<1>. QED
  BY <1>8, <1>9, <1>10, <1>11, <1>12, SameLabels, WorldKept

\* The exit of a process that is not the shell and does not print.
LEMMA ExitWorld ==
    ASSUME NEW s, NEW m, NEW at_, World(s, m, at_), NEW c \in Ctx, c = s.currentProcess,
           at_[c] \notin Printing \cup Shells \cup {"none"},
           NEW u \in KillProcess(s, s.pid[c]), NEW t, t = Yield(u),
           NEW at2, at2 = [at_ EXCEPT ![c] = "none"]
    PROVE  World(t, m, at2)
<1>1. /\ Inv(s) /\ Undead(s) /\ s.status[c] = "RUNNING" /\ s.pid[c] # IDLE_PID
      /\ s.status[c] # "BLOCKED" /\ at_ \in [Ctx -> Labels] /\ AtConsole(s)
  BY RunnerOf DEF World
<1>2. s.pid[c] \in Targets
  <2>1. s.pid[c] # SHELL_PID
    BY DEF World, Programmed
  <2>2. s.pid[c] \in Pids
    BY <1>1 DEF Inv, Common, Identity, Live
  <2>. QED BY <1>1, <2>1, <2>2 DEF Targets
<1>3. at2 \in [Ctx -> Labels] /\ at2[c] = "none" /\ \A d \in Ctx : d # c => at2[d] = at_[d]
  BY <1>1 DEF Labels
<1>4. PICK home0 : /\ Peaceful(s, m, home0)
                   /\ PrintHome(home0, at_)
                   /\ Supply(s, m, home0, MVAR_SEM_PRINT) <= 1
  BY DEF World, Placed
<1>5. PICK home : /\ Peaceful(s, m, home) /\ PrintHome(home, at_) /\ home[c] = -1
                  /\ Supply(s, m, home, MVAR_SEM_PRINT) = Supply(s, m, home0, MVAR_SEM_PRINT)
  BY <1>1, <1>4, SettledElsewhere
<1>6. home[c] \notin SemIds
  BY <1>5, PrintId
<1>7. PipedFd(s, c) = -1
  BY <1>1, NoPeer DEF Live
<1>8. /\ Peaceful(t, m, home)
      /\ \A id \in SemIds : Supply(t, m, home, id) = Supply(s, m, home, id)
      /\ t.status[c] = "FREED"
  BY <1>2, <1>5, <1>6, <1>7, PeacefulExit
<1>9. \A d \in Ctx \ {c} : t.pid[d] = s.pid[d] /\ (t.status[d] = "FREED" <=> s.status[d] = "FREED")
  BY <1>2, <1>5, <1>6, <1>7, PeacefulExit
<1>10. OnlyBlocks(s, t, c)
  BY <1>2, <1>5, <1>6, <1>7, PeacefulExit
<1>11. AtConsole(t)
  BY <1>1, <1>2, ConsoleExit
<1>12. PrintHome(home, at2)
  <2>1. at_[c] \notin Printing /\ "none" \notin Printing
    BY DEF Printing
  <2>. QED BY <1>3, <1>5, <2>1 DEF PrintHome
<1>13. Placed(t, m, at2)
  <2>1. Supply(t, m, home, MVAR_SEM_PRINT) <= 1
    BY <1>4, <1>5, <1>8, PrintId
  <2>. QED BY <1>8, <1>12, <2>1 DEF Placed
<1>14. Programmed(t, at2)
  BY <1>3, <1>9 DEF World, Programmed
<1>15. InTurn(at2)
  <2>1. InTurn(at_)
    BY DEF World
  <2>. QED BY <1>3, <2>1 DEF InTurn
<1>16. HoldersAwake(t, at2)
  BY <1>3, <1>10 DEF World, HoldersAwake, OnlyBlocks, Holding
<1>. QED
  BY <1>3, <1>11, <1>13, <1>14, <1>15, <1>16 DEF World

-----------------------------------------------------------------------------
(***************************************************************************)
(* The pipe.  Whatever its numbers are, its semaphores are not that of the *)
(* print; and a call that blocked was made by a reader or a writer.        *)
(***************************************************************************)
Calling == {"waitPrint", "pauseWriter"}
Midway  == {"readMutex", "readBody", "readAgain", "writeMutex", "writeBody"}

OwnIds(p) ==
    /\ {"semReaders", "semWriters", "mutex"} \subseteq DOMAIN p
    /\ MVAR_SEM_PRINT \notin {p.semReaders, p.semWriters, p.mutex}

PipesApart(P, n) ==
    /\ DOMAIN P = Slots /\ n \in Nat /\ n >= FIRST_SEM
    /\ \A i \in Slots : OwnIds(P[i])

CallsApart(C, at_) ==
    /\ DOMAIN C = Ctx
    /\ \A c \in Ctx : C[c].at # "user" =>
        C[c].at \in Midway /\ C[c].slot \in Slots /\ at_[c] \in Calling

Fine(o, at_) ==
    \E s, m, P, n, C, D :
        /\ o = Of(s, m, P, n, C, D)
        /\ World(s, m, at_) /\ PipesApart(P, n) /\ CallsApart(C, at_)

LEMMA FineFields ==
    ASSUME NEW o, NEW at_, Fine(o, at_)
    PROVE  /\ o = Of(o.k, o.sems, o.pipes, o.next_sem_id, o.call, o.delivered)
           /\ World(o.k, o.sems, at_) /\ PipesApart(o.pipes, o.next_sem_id)
           /\ CallsApart(o.call, at_)
BY DEF Fine, Of

\* What a semaphore operation of the pipe leaves alone.
SamePipes(o, w) ==
    w.pipes = o.pipes /\ w.next_sem_id = o.next_sem_id /\ w.call = o.call

LEMMA FineWait ==
    ASSUME NEW o, NEW at_, Fine(o, at_), NEW c \in Ctx, c = Self(o), at_[c] \in Calling,
           NEW id, id # MVAR_SEM_PRINT
    PROVE  Fine(SemWaitOn(o, id), at_) /\ SamePipes(o, SemWaitOn(o, id))
<1>1. CASE SemWaitOn(o, id) = o
  BY <1>1 DEF SamePipes
<1>2. CASE id \in SemIds /\ SemWaitOn(o, id) = SemWait(o, id)
  <2>1. PICK s, m, P, n, C, D :
            /\ o = Of(s, m, P, n, C, D)
            /\ World(s, m, at_) /\ PipesApart(P, n) /\ CallsApart(C, at_)
    BY DEF Fine
  <2>2. PICK t, w : /\ SemWait(Sys(s, m), id) = Sys(t, w)
                    /\ \A P1, n1, C1, D1 :
                        SemWait(Of(s, m, P1, n1, C1, D1), id) = Of(t, w, P1, n1, C1, D1)
    BY WaitOnPipes
  <2>3. c = s.currentProcess /\ at_[c] # "none" /\ at_[c] \notin Printing
    BY <2>1 DEF Self, Of, Calling, Printing
  <2>4. World(t, w, at_)
    BY <1>2, <2>1, <2>2, <2>3, WaitElsewhere
  <2>5. SemWaitOn(o, id) = Of(t, w, P, n, C, D)
    BY <1>2, <2>1, <2>2
  <2>6. SamePipes(o, SemWaitOn(o, id))
    BY <2>1, <2>5 DEF SamePipes, Of
  <2>. QED BY <2>1, <2>4, <2>5, <2>6 DEF Fine
<1>. QED
  BY <1>1, <1>2 DEF SemWaitOn

LEMMA FinePost ==
    ASSUME NEW o, NEW at_, Fine(o, at_), NEW c \in Ctx, NEW id, id # MVAR_SEM_PRINT
    PROVE  /\ Fine(SemPostOn(o, id), at_) /\ SamePipes(o, SemPostOn(o, id))
           /\ Self(SemPostOn(o, id)) = Self(o)
<1>1. CASE id \notin SemIds
  BY <1>1 DEF SemPostOn, SamePipes
<1>2. CASE id \in SemIds
  <2>1. PICK s, m, P, n, C, D :
            /\ o = Of(s, m, P, n, C, D)
            /\ World(s, m, at_) /\ PipesApart(P, n) /\ CallsApart(C, at_)
    BY DEF Fine
  <2>2. PICK t, w : /\ SemPost(Sys(s, m), id) = Sys(t, w)
                    /\ \A P1, n1, C1, D1 :
                        SemPost(Of(s, m, P1, n1, C1, D1), id) = Of(t, w, P1, n1, C1, D1)
    BY PostOnPipes
  <2>3. World(t, w, at_) /\ t.currentProcess = s.currentProcess
    BY <1>2, <2>1, <2>2, PostElsewhere
  <2>4. SemPostOn(o, id) = Of(t, w, P, n, C, D)
    BY <1>2, <2>1, <2>2 DEF SemPostOn
  <2>5. SamePipes(o, SemPostOn(o, id)) /\ Self(SemPostOn(o, id)) = Self(o)
    BY <2>1, <2>3, <2>4 DEF SamePipes, Of, Self
  <2>. QED BY <2>1, <2>3, <2>4, <2>5 DEF Fine
<1>. QED
  BY <1>1, <1>2

\* The call ends, or c has to go on with it later.
LEMMA FineGoOn ==
    ASSUME NEW o, NEW at_, Fine(o, at_), NEW c \in Ctx, NEW point, NEW slot, NEW value,
           point = "user" \/ (point \in Midway /\ slot \in Slots /\ at_[c] \in Calling)
    PROVE  Fine(GoOnAt(o, c, point, slot, value), at_)
<1>1. PICK s, m, P, n, C, D :
        /\ o = Of(s, m, P, n, C, D)
        /\ World(s, m, at_) /\ PipesApart(P, n) /\ CallsApart(C, at_)
  BY DEF Fine
<1>. DEFINE B == [C EXCEPT ![c] = [at |-> point, slot |-> slot, value |-> value]]
<1>2. GoOnAt(o, c, point, slot, value) = Of(s, m, P, n, B, D)
  BY <1>1 DEF GoOnAt, Of
<1>3. CallsApart(B, at_)
  BY <1>1 DEF CallsApart
<1>. HIDE DEF B
<1>. QED
  BY <1>1, <1>2, <1>3 DEF Fine

LEMMA FineReturn ==
    ASSUME NEW o, NEW at_, Fine(o, at_), NEW c \in Ctx, NEW value
    PROVE  Fine(Return(o, c, value), at_)
BY FineGoOn DEF Return

\* A byte that is taken or put changes no identifier.
LEMMA FineField ==
    ASSUME NEW o, NEW at_, Fine(o, at_), NEW i \in Slots, NEW a, NEW j
    PROVE  /\ Fine([o EXCEPT !.pipes[i].readIdx = a], at_)
           /\ Fine([o EXCEPT !.pipes[i].writeIdx = a], at_)
           /\ Fine([o EXCEPT !.pipes[i].count = a], at_)
           /\ Fine([o EXCEPT !.pipes[i].buffer[j] = a], at_)
           /\ Fine([o EXCEPT !.delivered[i] = a], at_)
<1>1. PICK s, m, P, n, C, D :
        /\ o = Of(s, m, P, n, C, D)
        /\ World(s, m, at_) /\ PipesApart(P, n) /\ CallsApart(C, at_)
  BY DEF Fine
<1>2. DOMAIN P = Slots /\ \A h \in Slots : OwnIds(P[h])
  BY <1>1 DEF PipesApart
<1>3. ASSUME NEW Q, DOMAIN Q = Slots, \A h \in Slots : OwnIds(Q[h]), NEW E
      PROVE  Fine(Of(s, m, Q, n, C, E), at_)
  BY <1>1, <1>3 DEF Fine, PipesApart
<1>4. Fine([o EXCEPT !.pipes[i].readIdx = a], at_)
  <2>. DEFINE Q == [P EXCEPT ![i].readIdx = a]
  <2>1. [o EXCEPT !.pipes[i].readIdx = a] = Of(s, m, Q, n, C, D)
    BY <1>1 DEF Of
  <2>2. DOMAIN Q = Slots /\ \A h \in Slots : OwnIds(Q[h])
    BY <1>2 DEF OwnIds
  <2>. HIDE DEF Q
  <2>. QED BY <1>3, <2>1, <2>2
<1>5. Fine([o EXCEPT !.pipes[i].writeIdx = a], at_)
  <2>. DEFINE Q == [P EXCEPT ![i].writeIdx = a]
  <2>1. [o EXCEPT !.pipes[i].writeIdx = a] = Of(s, m, Q, n, C, D)
    BY <1>1 DEF Of
  <2>2. DOMAIN Q = Slots /\ \A h \in Slots : OwnIds(Q[h])
    BY <1>2 DEF OwnIds
  <2>. HIDE DEF Q
  <2>. QED BY <1>3, <2>1, <2>2
<1>6. Fine([o EXCEPT !.pipes[i].count = a], at_)
  <2>. DEFINE Q == [P EXCEPT ![i].count = a]
  <2>1. [o EXCEPT !.pipes[i].count = a] = Of(s, m, Q, n, C, D)
    BY <1>1 DEF Of
  <2>2. DOMAIN Q = Slots /\ \A h \in Slots : OwnIds(Q[h])
    BY <1>2 DEF OwnIds
  <2>. HIDE DEF Q
  <2>. QED BY <1>3, <2>1, <2>2
<1>7. Fine([o EXCEPT !.pipes[i].buffer[j] = a], at_)
  <2>. DEFINE Q == [P EXCEPT ![i].buffer[j] = a]
  <2>1. [o EXCEPT !.pipes[i].buffer[j] = a] = Of(s, m, Q, n, C, D)
    BY <1>1 DEF Of
  <2>2. DOMAIN Q = Slots /\ \A h \in Slots : OwnIds(Q[h])
    BY <1>2 DEF OwnIds
  <2>. HIDE DEF Q
  <2>. QED BY <1>3, <2>1, <2>2
<1>8. Fine([o EXCEPT !.delivered[i] = a], at_)
  <2>. DEFINE E == [D EXCEPT ![i] = a]
  <2>1. [o EXCEPT !.delivered[i] = a] = Of(s, m, P, n, C, E)
    BY <1>1 DEF Of
  <2>. HIDE DEF E
  <2>. QED BY <1>2, <1>3, <2>1
<1>. QED
  BY <1>4, <1>5, <1>6, <1>7, <1>8

LEMMA FineReadBody ==
    ASSUME NEW o, NEW at_, Fine(o, at_), NEW c \in Ctx, at_[c] \in Calling, NEW i \in Slots
    PROVE  Fine(ReadBody(o, c, i), at_)
<1>. DEFINE p == o.pipes[i]
            taken == [o EXCEPT !.pipes[i].readIdx = Advance(@),
                               !.pipes[i].count   = @ - 1,
                               !.delivered[i]     = [byte |-> p.buffer[p.readIdx],
                                                     flip |-> ~ @.flip]]
<1>1. PICK s, m, P, n, C, D :
        /\ o = Of(s, m, P, n, C, D)
        /\ World(s, m, at_) /\ PipesApart(P, n) /\ CallsApart(C, at_)
  BY DEF Fine
<1>2. p = P[i] /\ p.mutex # MVAR_SEM_PRINT /\ p.semWriters # MVAR_SEM_PRINT
  BY <1>1 DEF Of, PipesApart, OwnIds
<1>3. Fine(taken, at_)
  <2>. DEFINE o1 == [o EXCEPT !.pipes[i].readIdx = Advance(p.readIdx)]
              o2 == [o1 EXCEPT !.pipes[i].count = p.count - 1]
              o3 == [o2 EXCEPT !.delivered[i] = [byte |-> p.buffer[p.readIdx], flip |-> ~ o.delivered[i].flip]]
  <2>1. taken = o3
    OBVIOUS
  <2>2. Fine(o1, at_)
    BY FineField
  <2>. HIDE DEF o1
  <2>3. Fine(o2, at_)
    BY <2>2, FineField
  <2>. HIDE DEF o2
  <2>4. Fine(o3, at_)
    BY <2>3, FineField
  <2>. QED BY <2>1, <2>4
<1>. HIDE DEF taken
<1>4. Fine(Return(LeaveRead(taken, p), c, p.buffer[p.readIdx]), at_)
  <2>1. Fine(SemPostOn(taken, p.mutex), at_)
    BY <1>2, <1>3, FinePost
  <2>2. Fine(LeaveRead(taken, p), at_)
    BY <1>2, <2>1, FinePost DEF LeaveRead
  <2>. QED BY <2>2, FineReturn
<1>5. Fine(SemPostOn(o, p.mutex), at_)
  BY <1>2, FinePost
<1>6. Fine(Return(SemPostOn(o, p.mutex), c, EOF), at_)
  BY <1>5, FineReturn
<1>7. Fine(GoOnAt(SemPostOn(o, p.mutex), c, "readAgain", i, 0), at_)
  BY <1>5, FineGoOn DEF Midway
<1>. QED
  BY <1>4, <1>6, <1>7 DEF ReadBody, taken

LEMMA FineReadMutex ==
    ASSUME NEW o, NEW at_, Fine(o, at_), NEW c \in Ctx, c = Self(o), at_[c] \in Calling,
           NEW i \in Slots
    PROVE  Fine(ReadMutex(o, c, i), at_)
<1>. DEFINE w == SemWaitOn(o, o.pipes[i].mutex)
<1>1. o.pipes[i].mutex # MVAR_SEM_PRINT
  BY FineFields DEF PipesApart, OwnIds
<1>2. Fine(w, at_)
  BY <1>1, FineWait
<1>. HIDE DEF w
<1>3. Fine(ReadBody(w, c, i), at_)
  BY <1>2, FineReadBody
<1>4. Fine(GoOnAt(w, c, "readBody", i, 0), at_)
  BY <1>2, FineGoOn DEF Midway
<1>. QED
  BY <1>3, <1>4 DEF ReadMutex, w

LEMMA FineReadLoop ==
    ASSUME NEW o, NEW at_, Fine(o, at_), NEW c \in Ctx, c = Self(o), at_[c] \in Calling,
           NEW i \in Slots
    PROVE  Fine(ReadLoop(o, c, i), at_)
<1>. DEFINE w == SemWaitOn(o, o.pipes[i].semReaders)
<1>1. o.pipes[i].semReaders # MVAR_SEM_PRINT
  BY FineFields DEF PipesApart, OwnIds
<1>2. Fine(w, at_)
  BY <1>1, FineWait
<1>. HIDE DEF w
<1>3. Self(w) = c => Fine(ReadMutex(w, c, i), at_)
  BY <1>2, FineReadMutex
<1>4. Fine(GoOnAt(w, c, "readMutex", i, 0), at_)
  BY <1>2, FineGoOn DEF Midway
<1>. QED
  BY <1>3, <1>4 DEF ReadLoop, w

LEMMA FineReadPipe ==
    ASSUME NEW o, NEW at_, Fine(o, at_), NEW c \in Ctx, c = Self(o), at_[c] \in Calling, NEW fd
    PROVE  Fine(ReadPipe(o, c, fd), at_)
BY FineReadLoop, FineReturn DEF ReadPipe, IsOpen

LEMMA FineWriteBody ==
    ASSUME NEW o, NEW at_, Fine(o, at_), NEW c \in Ctx, NEW i \in Slots, NEW byte
    PROVE  Fine(WriteBody(o, c, i, byte), at_)
<1>. DEFINE p == o.pipes[i]
            put == [o EXCEPT !.pipes[i].buffer[p.writeIdx] = byte,
                             !.pipes[i].writeIdx = Advance(@),
                             !.pipes[i].count    = @ + 1]
<1>1. PICK s, m, P, n, C, D :
        /\ o = Of(s, m, P, n, C, D)
        /\ World(s, m, at_) /\ PipesApart(P, n) /\ CallsApart(C, at_)
  BY DEF Fine
<1>2. p = P[i] /\ p.mutex # MVAR_SEM_PRINT /\ p.semReaders # MVAR_SEM_PRINT
  BY <1>1 DEF Of, PipesApart, OwnIds
<1>3. Fine(put, at_)
  <2>. DEFINE o1 == [o EXCEPT !.pipes[i].buffer[p.writeIdx] = byte]
              o2 == [o1 EXCEPT !.pipes[i].writeIdx = Advance(p.writeIdx)]
              o3 == [o2 EXCEPT !.pipes[i].count = p.count + 1]
  <2>1. put = o3
    OBVIOUS
  <2>2. Fine(o1, at_)
    BY FineField
  <2>. HIDE DEF o1
  <2>3. Fine(o2, at_)
    BY <2>2, FineField
  <2>. HIDE DEF o2
  <2>4. Fine(o3, at_)
    BY <2>3, FineField
  <2>. QED BY <2>1, <2>4
<1>. HIDE DEF put
<1>4. ASSUME NEW q, Fine(q, at_) PROVE Fine(Return(LeaveWrite(q, p), c, 0), at_)
  <2>1. Fine(SemPostOn(q, p.mutex), at_)
    BY <1>2, <1>4, FinePost
  <2>2. Fine(LeaveWrite(q, p), at_)
    BY <1>2, <2>1, FinePost DEF LeaveWrite
  <2>. QED BY <2>2, FineReturn
<1>5. WriteBody(o, c, i, byte) = Return(LeaveWrite(put, p), c, 0)
      \/ WriteBody(o, c, i, byte) = Return(LeaveWrite(o, p), c, 0)
  BY DEF WriteBody, put
<1>. HIDE DEF p
<1>. QED
  BY <1>3, <1>4, <1>5

LEMMA FineWriteMutex ==
    ASSUME NEW o, NEW at_, Fine(o, at_), NEW c \in Ctx, c = Self(o), at_[c] \in Calling,
           NEW i \in Slots, NEW byte
    PROVE  Fine(WriteMutex(o, c, i, byte), at_)
<1>. DEFINE w == SemWaitOn(o, o.pipes[i].mutex)
<1>1. o.pipes[i].mutex # MVAR_SEM_PRINT
  BY FineFields DEF PipesApart, OwnIds
<1>2. Fine(w, at_)
  BY <1>1, FineWait
<1>. HIDE DEF w
<1>3. Fine(WriteBody(w, c, i, byte), at_)
  BY <1>2, FineWriteBody
<1>4. Fine(GoOnAt(w, c, "writeBody", i, byte), at_)
  BY <1>2, FineGoOn DEF Midway
<1>. QED
  BY <1>3, <1>4 DEF WriteMutex, w

LEMMA FineWritePipe ==
    ASSUME NEW o, NEW at_, Fine(o, at_), NEW c \in Ctx, c = Self(o), at_[c] \in Calling,
           NEW fd, NEW byte
    PROVE  Fine(WritePipe(o, c, fd, byte), at_)
<1>. DEFINE i == fd - 3
            w == SemWaitOn(o, o.pipes[i].semWriters)
<1>1. CASE ~ IsOpen(o, fd)
  BY <1>1, FineReturn DEF WritePipe
<1>2. CASE IsOpen(o, fd)
  <2>1. i \in Slots
    BY <1>2 DEF IsOpen
  <2>. HIDE DEF i
  <2>2. o.pipes[i].semWriters # MVAR_SEM_PRINT
    BY <2>1, FineFields DEF PipesApart, OwnIds
  <2>3. Fine(w, at_)
    BY <2>2, FineWait
  <2>. HIDE DEF w
  <2>4. Self(w) = c => Fine(WriteMutex(w, c, i, byte), at_)
    BY <2>1, <2>3, FineWriteMutex
  <2>5. Fine(GoOnAt(w, c, "writeMutex", i, byte), at_)
    BY <2>1, <2>3, FineGoOn DEF Midway
  <2>. QED BY <1>2, <2>4, <2>5 DEF WritePipe, w, i
<1>. QED
  BY <1>1, <1>2

\* The rest of a call that was blocked.
LEMMA FineResume ==
    ASSUME NEW o, NEW at_, Fine(o, at_), NEW c \in Ctx, c = Self(o), o.call[c].at # "user",
           NEW t \in Resume(o, c)
    PROVE  Fine(t, at_)
<1>1. o.call[c].at \in Midway /\ o.call[c].slot \in Slots /\ at_[c] \in Calling
  BY FineFields DEF CallsApart
<1>. DEFINE i == o.call[c].slot
            b == o.call[c].value
<1>2. t \in {ReadMutex(o, c, i), ReadBody(o, c, i), ReadLoop(o, c, i),
             WriteMutex(o, c, i, b), WriteBody(o, c, i, b)}
  BY <1>1 DEF Resume, Midway
<1>3. i \in Slots
  BY <1>1
<1>. HIDE DEF i, b
<1>. QED
  BY <1>1, <1>2, <1>3, FineReadMutex, FineReadBody, FineReadLoop, FineWriteMutex, FineWriteBody

\* The semaphores of a pipe, made one after the other.
LEMMA FineSemCreate ==
    ASSUME NEW o, NEW at_, Fine(o, at_), NEW c \in Ctx, NEW id \in SemIds, id # MVAR_SEM_PRINT,
           NEW value \in Nat
    PROVE  Fine(SemCreate(o, id, value), at_)
<1>1. PICK s, m, P, n, C, D :
        /\ o = Of(s, m, P, n, C, D)
        /\ World(s, m, at_) /\ PipesApart(P, n) /\ CallsApart(C, at_)
  BY DEF Fine
<1>. DEFINE m2 == [m EXCEPT ![id] = Fresh(value)]
<1>2. SemCreate(o, id, value) = o \/ SemCreate(o, id, value) = Of(s, m2, P, n, C, D)
  BY <1>1 DEF SemCreate, Of, Fresh
<1>3. Fresh(value) \in Semaphore /\ Fresh(value).waitQueue = << >>
  BY DEF Fresh, Semaphore
<1>4. World(s, m2, at_)
  BY <1>1, <1>3, ResetWorld
<1>. HIDE DEF m2
<1>. QED
  BY <1>1, <1>2, <1>4 DEF Fine

LEMMA FineCreatePipe ==
    ASSUME NEW o, NEW at_, Fine(o, at_), NEW c \in Ctx
    PROVE  Fine(CreatePipe(o, c), at_)
<1>. DEFINE free == {i \in Slots : ~ o.pipes[i].isOpen}
            slot == Min(free)
            id   == o.next_sem_id
            o1   == [o EXCEPT
                        !.next_sem_id = id + 3,
                        !.pipes[slot] = [ClosedPipe EXCEPT
                            !.isOpen = TRUE, !.readers = 1, !.writers = 1,
                            !.semReaders = id, !.semWriters = id + 1, !.mutex = id + 2]]
            o2   == SemCreate(o1, id, 0)
            o3   == SemCreate(o2, id + 1, PIPE_BUFFER_SIZE)
            o4   == SemCreate(o3, id + 2, 1)
<1>1. CASE free = {}
  BY <1>1, FineReturn DEF CreatePipe
<1>2. CASE free # {}
  <2>1. slot \in Slots
    <3>1. \A i \in free : i \in Nat
      BY Ids DEF Slots
    <3>2. free \subseteq Nat
      BY <3>1
    <3>. HIDE DEF free
    <3>3. Min(free) \in free
      BY <1>2, <3>2, MinProperty
    <3>. QED BY <3>3 DEF free
  <2>2. PICK s, m, P, n, C, D :
            /\ o = Of(s, m, P, n, C, D)
            /\ World(s, m, at_) /\ PipesApart(P, n) /\ CallsApart(C, at_)
    BY DEF Fine
  <2>3. id = n /\ n \in Nat /\ n >= FIRST_SEM /\ FIRST_SEM \in Nat
    BY <2>2, Ids DEF Of, PipesApart
  <2>4. \A x \in {id, id + 1, id + 2} : x # MVAR_SEM_PRINT
    BY <2>3, PrintId
  <2>. HIDE DEF slot
  <2>5. Fine(o1, at_)
    <3>. DEFINE q == NewPipe(n)
                Q == [P EXCEPT ![slot] = q]
    <3>1. o1 = Of(s, m, Q, n + 3, C, D)
      <4>1. NewPipe(id) = [ClosedPipe EXCEPT !.isOpen = TRUE, !.readers = 1, !.writers = 1,
                              !.semReaders = id, !.semWriters = id + 1, !.mutex = id + 2]
        BY DEF NewPipe
      <4>2. o1 = [[o EXCEPT !.next_sem_id = id + 3] EXCEPT !.pipes[slot] = NewPipe(id)]
        BY <4>1
      <4>. HIDE DEF o1, id
      <4>3. o1 = [[o EXCEPT !.next_sem_id = n + 3] EXCEPT !.pipes[slot] = q]
        BY <2>3, <4>2
      <4>. HIDE DEF q
      <4>. QED BY <2>2, <4>3 DEF Of
    <3>2. OwnIds(q)
      <4>1. q.semReaders = n /\ q.semWriters = n + 1 /\ q.mutex = n + 2 /\ q \in Pipe
        BY <2>3, NewPipeFields
      <4>. QED BY <2>3, <2>4, <4>1 DEF OwnIds, Pipe
    <3>. HIDE DEF q
    <3>3. DOMAIN Q = Slots /\ \A h \in Slots : OwnIds(Q[h])
      BY <2>1, <2>2, <3>2 DEF PipesApart
    <3>4. n + 3 \in Nat /\ n + 3 >= FIRST_SEM
      BY <2>3
    <3>. HIDE DEF Q
    <3>5. PipesApart(Q, n + 3)
      BY <3>3, <3>4 DEF PipesApart
    <3>. HIDE DEF o1
    <3>. QED BY <2>2, <3>1, <3>5 DEF Fine
  <2>6. CanMake(o1, id) => id \in SemIds
    BY DEF CanMake
  <2>7. CanMake(o2, id + 1) => id + 1 \in SemIds
    BY DEF CanMake
  <2>8. CanMake(o3, id + 2) => id + 2 \in SemIds
    BY DEF CanMake
  <2>9. CreatePipe(o, c) =
            IF ~ CanMake(o1, id) THEN Return(o1, c, -1)
            ELSE IF ~ CanMake(o2, id + 1) THEN Return(o2, c, -1)
            ELSE IF ~ CanMake(o3, id + 2) THEN Return(o3, c, -1)
            ELSE Return(o4, c, slot + 3)
    BY <1>2 DEF CreatePipe, slot
  <2>. HIDE DEF o1
  <2>10. CanMake(o1, id) => Fine(o2, at_)
    BY <2>4, <2>5, <2>6, FineSemCreate
  <2>. HIDE DEF o2
  <2>11. CanMake(o1, id) /\ CanMake(o2, id + 1) => Fine(o3, at_)
    BY <2>4, <2>7, <2>10, Ids, FineSemCreate
  <2>. HIDE DEF o3
  <2>12. CanMake(o1, id) /\ CanMake(o2, id + 1) /\ CanMake(o3, id + 2) => Fine(o4, at_)
    BY <2>4, <2>8, <2>11, FineSemCreate
  <2>. HIDE DEF o4, id, free
  <2>. QED BY <2>5, <2>9, <2>10, <2>11, <2>12, FineReturn
<1>. QED
  BY <1>1, <1>2

-----------------------------------------------------------------------------
(***************************************************************************)
(* Steps of a program that is not in the midst of a system call.           *)
(***************************************************************************)
InProgramAt(o, c) == o.call[c].at = "user"

\* Scheduler and semaphores move, and the process to another label; the pipes
\* stay as they are.
LEMMA FineMove ==
    ASSUME NEW o, NEW at_, Fine(o, at_), NEW c \in Ctx, InProgramAt(o, c),
           NEW at2, \A d \in Ctx : d # c => at2[d] = at_[d] \/ InProgramAt(o, d),
           NEW t, NEW w, World(t, w, at2),
           NEW u, u = Of(t, w, o.pipes, o.next_sem_id, o.call, o.delivered)
    PROVE  Fine(u, at2)
<1>1. PipesApart(o.pipes, o.next_sem_id) /\ CallsApart(o.call, at_)
  BY FineFields
<1>2. CallsApart(o.call, at2)
  BY <1>1 DEF CallsApart, InProgramAt
<1>. QED
  BY <1>1, <1>2 DEF Fine

LEMMA FineRelabelled ==
    ASSUME NEW o, NEW at_, Fine(o, at_), NEW c \in Ctx, InProgramAt(o, c),
           NEW at2, Advances(at_, at2, c), at_[c] \in Printing <=> at2[c] \in Printing,
           at2[c] \in Holding => o.k.status[c] # "BLOCKED"
    PROVE  Fine(o, at2)
<1>1. /\ o = Of(o.k, o.sems, o.pipes, o.next_sem_id, o.call, o.delivered)
      /\ World(o.k, o.sems, at_)
  BY FineFields
<1>2. World(o.k, o.sems, at2)
  BY <1>1, Relabelled
<1>3. \A d \in Ctx : d # c => at2[d] = at_[d]
  BY DEF Advances
<1>. QED
  BY <1>1, <1>2, <1>3, FineMove

\* After a system call a program that has just begun is not in the midst of one.
LEMMA FollowsFine ==
    ASSUME NEW o, NEW at2, Fine(o, at2), Follows(o)
    PROVE  Fine(Here', at2)
<1>1. /\ o = Of(o.k, o.sems, o.pipes, o.next_sem_id, o.call, o.delivered)
      /\ World(o.k, o.sems, at2) /\ PipesApart(o.pipes, o.next_sem_id)
      /\ CallsApart(o.call, at2)
  BY FineFields
<1>2. /\ k' = o.k /\ sems' = o.sems /\ pipes' = o.pipes /\ next_sem_id' = o.next_sem_id
      /\ delivered' = o.delivered
      /\ call' = [c \in Ctx |-> IF o.k.status[c] = "FREED" THEN InProgram ELSE o.call[c]]
  BY DEF Follows
<1>3. CallsApart(call', at2)
  BY <1>1, <1>2 DEF CallsApart, InProgram
<1>4. Here' = Of(k', sems', pipes', next_sem_id', call', delivered')
  BY DEF Here, Of
<1>. QED
  BY <1>1, <1>2, <1>3, <1>4 DEF Fine

\* The state of the system, as the lemmas see it.
LEMMA HereIs ==
    /\ Here = Of(k, sems, pipes, next_sem_id, call, delivered)
    /\ Here.k = k /\ Here.sems = sems /\ Here.call = call /\ Self(Here) = Me
BY DEF Here, Of, Self, Me

\* The program that runs.
LEMMA Runner ==
    ASSUME Fine(Here, pc), ProgramRuns
    PROVE  /\ Me \in Ctx /\ Me = k.currentProcess /\ k.status[Me] = "RUNNING"
           /\ k.status[Me] # "BLOCKED" /\ InProgramAt(Here, Me)
           /\ World(k, sems, pc) /\ pc \in [Ctx -> Labels]
<1>1. World(k, sems, pc)
  BY FineFields, HereIs
<1>2. Me = k.currentProcess /\ Me # NULL
  BY DEF Me, ProgramRuns, UserRuns
<1>3. Me \in Ctx
  <2>1. k.currentProcess \in Ctx \cup {NULL}
    BY <1>1, RunnerOf DEF Inv, Common, Kernel
  <2>. QED BY <1>2, <2>1
<1>4. k.status[Me] = "RUNNING"
  BY <1>1, <1>2, <1>3, RunnerOf
<1>5. InProgramAt(Here, Me)
  BY <1>2, <1>3, HereIs DEF ProgramRuns, InterruptsOn, InProgramAt
<1>. QED
  BY <1>1, <1>2, <1>3, <1>4, <1>5 DEF World

\* The label that follows.
LEMMA GoneTo ==
    ASSUME Fine(Here, pc), ProgramRuns, NEW next, Succeeds(pc[Me], next), Goto(next)
    PROVE  Advances(pc, pc', Me) /\ pc'[Me] = next
<1>1. Me \in Ctx /\ pc \in [Ctx -> Labels]
  BY Runner
<1>2. next \in Labels /\ pc' = [pc EXCEPT ![Me] = next]
  BY DEF Succeeds, Goto
<1>. QED
  BY <1>1, <1>2 DEF Advances

\* A step that only the program sees, or the first half of a system call.
LEMMA QuietFine ==
    ASSUME Fine(Here, pc), ProgramRuns, NEW next, Succeeds(pc[Me], next), Goto(next),
           pc[Me] \in Printing <=> next \in Printing
    PROVE  Fine(Here, pc') /\ pc'[Me] = next
<1>1. Me \in Ctx /\ InProgramAt(Here, Me) /\ Here.k.status[Me] # "BLOCKED"
  BY Runner, HereIs
<1>2. Advances(pc, pc', Me) /\ pc'[Me] = next
  BY GoneTo
<1>. QED
  BY <1>1, <1>2, FineRelabelled

LEMMA UnseenFine ==
    ASSUME Fine(Here, pc'), UNCHANGED pipeVars
    PROVE  Fine(Here', pc')
<1>1. Here' = Here
  BY DEF pipeVars, vars, Here
<1>. QED
  BY <1>1

\* System calls that change the scheduler and the semaphores only.
LEMMA MovesFine ==
    ASSUME Fine(Here, pc), ProgramRuns,
           \A d \in Ctx : d # Me => pc'[d] = pc[d] \/ InProgramAt(Here, d),
           NEW t, NEW w, World(t, w, pc'),
           NEW u, u = Of(t, w, pipes, next_sem_id, call, delivered), Follows(u)
    PROVE  Fine(Here', pc')
<1>1. Me \in Ctx /\ InProgramAt(Here, Me)
  BY Runner
<1>2. u = Of(t, w, Here.pipes, Here.next_sem_id, Here.call, Here.delivered)
  BY DEF Here
<1>3. Fine(u, pc')
  BY <1>1, <1>2, FineMove
<1>. QED
  BY <1>3, FollowsFine

LEMMA ShellReadsKeyFine ==
    ASSUME Fine(Here, pc), ShellReadsKey
    PROVE  Fine(Here', pc')
<1>1. ProgramRuns /\ pc[Me] = "prompt" /\ Goto("getchar") /\ Follows(SemWait(Here, KEYBOARD_SEM_ID))
  BY DEF ShellReadsKey, Running, Calls
<1>2. Succeeds("prompt", "getchar") /\ "prompt" \notin Printing /\ "getchar" \notin Printing
  BY DEF Succeeds, Labels, Printing, Shells, ShellWaiting
<1>3. /\ Me \in Ctx /\ Me = k.currentProcess /\ InProgramAt(Here, Me) /\ World(k, sems, pc)
      /\ k.status[Me] # "BLOCKED"
  BY <1>1, Runner
<1>4. Advances(pc, pc', Me) /\ pc'[Me] = "getchar"
  BY <1>1, <1>2, GoneTo
<1>5. World(k, sems, pc')
  BY <1>1, <1>2, <1>3, <1>4, Relabelled
<1>6. PICK t, w : /\ SemWait(Sys(k, sems), KEYBOARD_SEM_ID) = Sys(t, w)
                  /\ \A P1, n1, C1, D1 :
                      SemWait(Of(k, sems, P1, n1, C1, D1), KEYBOARD_SEM_ID) = Of(t, w, P1, n1, C1, D1)
  BY WaitOnPipes
<1>7. World(t, w, pc')
  BY <1>2, <1>3, <1>4, <1>5, <1>6, PrintId, WaitElsewhere
<1>8. \A d \in Ctx : d # Me => pc'[d] = pc[d]
  BY <1>4 DEF Advances
<1>9. SemWait(Here, KEYBOARD_SEM_ID) = Of(t, w, pipes, next_sem_id, call, delivered)
  BY <1>6, HereIs
<1>. QED
  BY <1>1, <1>7, <1>8, <1>9, MovesFine

\* sem_wait and sem_post on the print semaphore, by readers and manager.
LEMMA WaitsPrintFine ==
    ASSUME Fine(Here, pc), LogWaits \/ ReaderWaits
    PROVE  Fine(Here', pc')
<1>1. PICK from \in {"logWait", "waitPrint"}, next \in {"log", "getColor"} :
        /\ ProgramRuns /\ pc[Me] = from /\ Goto(next) /\ Follows(SemWait(Here, MVAR_SEM_PRINT))
  BY DEF LogWaits, ReaderWaits, Running, Calls
<1>2. /\ Succeeds(from, next) /\ from # "none" /\ from \notin Printing /\ next \in Printing \ Holding
  BY DEF Succeeds, Labels, Printing, Holding, Shells, ShellWaiting
<1>3. Me \in Ctx /\ Me = k.currentProcess /\ World(k, sems, pc)
  BY <1>1, Runner
<1>4. Advances(pc, pc', Me) /\ pc'[Me] = next
  BY <1>1, <1>2, GoneTo
<1>5. PICK t, w : /\ SemWait(Sys(k, sems), MVAR_SEM_PRINT) = Sys(t, w)
                  /\ \A P1, n1, C1, D1 :
                      SemWait(Of(k, sems, P1, n1, C1, D1), MVAR_SEM_PRINT) = Of(t, w, P1, n1, C1, D1)
  BY WaitOnPipes
<1>6. World(t, w, pc')
  BY <1>1, <1>2, <1>3, <1>4, <1>5, WaitPrint
<1>7. \A d \in Ctx : d # Me => pc'[d] = pc[d]
  BY <1>4 DEF Advances
<1>8. SemWait(Here, MVAR_SEM_PRINT) = Of(t, w, pipes, next_sem_id, call, delivered)
  BY <1>5, HereIs
<1>. QED
  BY <1>1, <1>6, <1>7, <1>8, MovesFine

LEMMA PostsPrintFine ==
    ASSUME Fine(Here, pc), LogsError \/ ReaderPosts
    PROVE  Fine(Here', pc')
<1>1. PICK from \in {"log", "post"}, next \in {"spawn", "pauseReader"} :
        /\ ProgramRuns /\ pc[Me] = from /\ Goto(next) /\ Follows(SemPost(Here, MVAR_SEM_PRINT))
  BY DEF LogsError, ReaderPosts, Running, Calls
<1>2. Succeeds(from, next) /\ from \in Printing /\ next \notin Printing
  BY DEF Succeeds, Labels, Printing, Shells, ShellWaiting
<1>3. Me \in Ctx /\ Me = k.currentProcess /\ World(k, sems, pc)
  BY <1>1, Runner
<1>4. Advances(pc, pc', Me) /\ pc'[Me] = next
  BY <1>1, <1>2, GoneTo
<1>5. PICK t, w : /\ SemPost(Sys(k, sems), MVAR_SEM_PRINT) = Sys(t, w)
                  /\ \A P1, n1, C1, D1 :
                      SemPost(Of(k, sems, P1, n1, C1, D1), MVAR_SEM_PRINT) = Of(t, w, P1, n1, C1, D1)
  BY PostOnPipes
<1>6. World(t, w, pc')
  BY <1>1, <1>2, <1>3, <1>4, <1>5, PostPrint
<1>7. \A d \in Ctx : d # Me => pc'[d] = pc[d]
  BY <1>4 DEF Advances
<1>8. SemPost(Here, MVAR_SEM_PRINT) = Of(t, w, pipes, next_sem_id, call, delivered)
  BY <1>5, HereIs
<1>. QED
  BY <1>1, <1>6, <1>7, <1>8, MovesFine

\* The steps of a reader that only set the colour, its system call that prints,
\* and the loop of the manager when it ends.
LEMMA ReaderQuietFine ==
    ASSUME Fine(Here, pc), GetColor \/ SetColor \/ PutsChar \/ RestoreColor
    PROVE  Fine(Here', pc')
<1>1. PICK from \in {"getColor", "setColor", "putchar", "restoreColor"},
           next \in {"setColor", "putchar", "restoreColor", "post"} :
        /\ ProgramRuns /\ pc[Me] = from /\ Goto(next)
        /\ UNCHANGED pipeVars \/ Follows(Here)
  BY DEF GetColor, SetColor, PutsChar, RestoreColor, Running, Calls
<1>2. Succeeds(from, next) /\ from \in Printing /\ next \in Printing
  BY DEF Succeeds, Labels, Printing, Shells, ShellWaiting
<1>3. Fine(Here, pc')
  BY <1>1, <1>2, QuietFine
<1>. QED
  BY <1>1, <1>3, UnseenFine, FollowsFine

LEMMA PausesFine ==
    ASSUME Fine(Here, pc), WriterPauses \/ ReaderPauses
    PROVE  Fine(Here', pc')
<1>1. PICK from \in {"pauseWriter", "pauseReader"}, next \in {"write", "read"} :
        /\ ProgramRuns /\ pc[Me] = from /\ Goto(next) /\ Follows([Here EXCEPT !.k = Yield(@)])
  BY DEF WriterPauses, ReaderPauses, Pauses, Running, Calls
<1>2. Succeeds(from, next) /\ from \notin Printing /\ next \notin Printing
  BY DEF Succeeds, Labels, Printing, Shells, ShellWaiting
<1>3. Me \in Ctx /\ Fine(Here, pc')
  BY <1>1, <1>2, QuietFine, Runner
<1>4. World(k, sems, pc')
  BY <1>3, FineFields, HereIs
<1>5. World(Yield(k), sems, pc')
  BY <1>3, <1>4, TurnWorld
<1>6. [Here EXCEPT !.k = Yield(@)] = Of(Yield(k), sems, pipes, next_sem_id, call, delivered)
  BY DEF Here, Of
<1>7. \A d \in Ctx : d # Me => pc'[d] = pc[d]
  BY <1>1, <1>2, GoneTo DEF Advances
<1>. QED
  BY <1>1, <1>5, <1>6, <1>7, MovesFine

\* sem_destroy and sem_create of the print semaphore, when there are no workers.
LEMMA ResetsFine ==
    ASSUME Fine(Here, pc), DestroySemaphore \/ CreateSemaphore
    PROVE  Fine(Here', pc')
<1>1. PICK from \in {"destroy", "create"}, next \in {"create", "pipe"},
           u \in {SemDestroy(Here, MVAR_SEM_PRINT), SemCreate(Here, MVAR_SEM_PRINT, PRINT_TOKENS)} :
        ProgramRuns /\ pc[Me] = from /\ Goto(next) /\ Follows(u) /\ (next = "create" => from = "destroy")
  BY DEF DestroySemaphore, CreateSemaphore, Running, Calls
<1>2. Succeeds(from, next) /\ from \notin Printing /\ next \notin Printing /\ next \notin Holding
  BY <1>1 DEF Succeeds, Labels, Printing, Holding, Shells, ShellWaiting
<1>3. Me \in Ctx /\ World(k, sems, pc)
  BY <1>1, Runner
<1>4. Advances(pc, pc', Me) /\ pc'[Me] = next
  BY <1>1, <1>2, GoneTo
<1>5. \A d \in Ctx : pc[d] \notin Printing
  BY <1>1, <1>2, <1>3 DEF World, InTurn, ShellWaiting, Printing
<1>6. PICK x \in {Inactive, Fresh(1)} :
        LET w == [sems EXCEPT ![MVAR_SEM_PRINT] = x]
        IN  u = Here \/ u = Of(k, w, pipes, next_sem_id, call, delivered)
  BY DEF SemDestroy, SemCreate, Here, Of, Fresh, PRINT_TOKENS
<1>7. x \in Semaphore /\ x.waitQueue = << >> /\ x.counter <= 1
  <2>1. Inactive \in Semaphore /\ Inactive.waitQueue = << >> /\ Inactive.counter <= 1
    BY DEF Inactive, Semaphore
  <2>2. Fresh(1) \in Semaphore /\ Fresh(1).waitQueue = << >> /\ Fresh(1).counter <= 1
    BY DEF Fresh, Semaphore
  <2>. QED BY <2>1, <2>2
<1>8. PICK w : /\ w = sems \/ w = [sems EXCEPT ![MVAR_SEM_PRINT] = x]
               /\ u = Of(k, w, pipes, next_sem_id, call, delivered)
  BY <1>6, HereIs
<1>9. World(k, w, pc)
  BY <1>3, <1>5, <1>7, <1>8, PrintId, ResetWorld
<1>10. World(k, w, pc')
  BY <1>1, <1>2, <1>3, <1>4, <1>9, Relabelled
<1>11. \A d \in Ctx : d # Me => pc'[d] = pc[d]
  BY <1>4 DEF Advances
<1>. QED
  BY <1>1, <1>8, <1>10, <1>11, MovesFine

\* The system calls on the pipe.
LEMMA PipeCallsFine ==
    ASSUME Fine(Here, pc), MakePipe \/ WriterWrites \/ ReaderReads
    PROVE  Fine(Here', pc')
<1>1. CASE MakePipe
  <2>1. ProgramRuns /\ pc[Me] = "pipe" /\ Goto("spawn") /\ Follows(CreatePipe(Here, Me))
    BY <1>1 DEF MakePipe, Running, Calls
  <2>2. Succeeds("pipe", "spawn") /\ "pipe" \notin Printing /\ "spawn" \notin Printing
    BY DEF Succeeds, Labels, Printing, Shells, ShellWaiting
  <2>3. Me \in Ctx /\ Fine(Here, pc')
    BY <2>1, <2>2, QuietFine, Runner
  <2>4. Fine(CreatePipe(Here, Me), pc')
    BY <2>3, FineCreatePipe
  <2>. QED BY <2>1, <2>4, FollowsFine
<1>2. CASE WriterWrites
  <2>1. /\ ProgramRuns /\ pc[Me] = "write" /\ Goto("pauseWriter")
        /\ Follows(WritePipe(Here, Me, ValuePipe, number[Me]))
    BY <1>2 DEF WriterWrites, Running, Calls
  <2>2. Succeeds("write", "pauseWriter") /\ "write" \notin Printing /\ "pauseWriter" \notin Printing
    BY DEF Succeeds, Labels, Printing, Shells, ShellWaiting
  <2>3. Me \in Ctx /\ Me = Self(Here) /\ Fine(Here, pc') /\ pc'[Me] \in Calling
    BY <2>1, <2>2, QuietFine, Runner, HereIs DEF Calling
  <2>4. Fine(WritePipe(Here, Me, ValuePipe, number[Me]), pc')
    BY <2>3, FineWritePipe
  <2>. QED BY <2>1, <2>4, FollowsFine
<1>3. CASE ReaderReads
  <2>1. ProgramRuns /\ pc[Me] = "read" /\ Goto("waitPrint") /\ Follows(ReadPipe(Here, Me, ValuePipe))
    BY <1>3 DEF ReaderReads, Running, Calls
  <2>2. Succeeds("read", "waitPrint") /\ "read" \notin Printing /\ "waitPrint" \notin Printing
    BY DEF Succeeds, Labels, Printing, Shells, ShellWaiting
  <2>3. Me \in Ctx /\ Me = Self(Here) /\ Fine(Here, pc') /\ pc'[Me] \in Calling
    BY <2>1, <2>2, QuietFine, Runner, HereIs DEF Calling
  <2>4. Fine(ReadPipe(Here, Me, ValuePipe), pc')
    BY <2>3, FineReadPipe
  <2>. QED BY <2>1, <2>4, FollowsFine
<1>. QED
  BY <1>1, <1>2, <1>3

LEMMA ShellWaitsFine ==
    ASSUME Fine(Here, pc), ShellWaits
    PROVE  Fine(Here', pc')
<1>. DEFINE manager == FirstIn(k.processList, {c \in Ctx : IsForeground(k, c)})
            u == IF manager = NULL THEN Here
                 ELSE [Here EXCEPT !.k = WaitProcess(@, k.pid[manager])]
<1>1. ProgramRuns /\ pc[Me] = "wait" /\ Goto("prompt") /\ Follows(u)
  BY DEF ShellWaits, Running, Calls
<1>. HIDE DEF manager
<1>2. /\ Succeeds("wait", "prompt") /\ "wait" \notin Printing /\ "prompt" \notin Printing
      /\ "prompt" # "none"
  BY DEF Succeeds, Labels, Printing, Shells, ShellWaiting
<1>3. Me \in Ctx /\ Me = k.currentProcess /\ Fine(Here, pc') /\ pc'[Me] = "prompt"
  BY <1>1, <1>2, QuietFine, Runner
<1>4. World(k, sems, pc')
  BY <1>3, FineFields, HereIs
<1>. DEFINE t == WaitProcess(k, k.pid[manager])
<1>5. World(t, sems, pc')
  BY <1>2, <1>3, <1>4, WaitsWorld
<1>6. u = Here \/ u = Of(t, sems, pipes, next_sem_id, call, delivered)
  BY DEF Here, Of
<1>7. \A d \in Ctx : d # Me => pc'[d] = pc[d]
  BY <1>1, <1>2, GoneTo DEF Advances
<1>. HIDE DEF t, u
<1>. QED
  BY <1>1, <1>3, <1>5, <1>6, <1>7, MovesFine, FollowsFine

LEMMA FirstFitIsFree ==
    ASSUME {c \in Ctx : k.status[c] = "FREED"} # {}
    PROVE  FirstFit(k) \in Ctx /\ k.status[FirstFit(k)] = "FREED"
<1>. DEFINE free == {c \in Ctx : k.status[c] = "FREED"}
<1>1. free \in SUBSET Nat /\ free # {}
  BY MvarAssumption
<1>. HIDE DEF free
<1>2. Min(free) \in free
  BY <1>1, MinProperty
<1>. QED
  BY <1>2 DEF free, FirstFit

\* createProcess by the shell and by the manager; the child is in no call.
LEMMA SpawnFine ==
    ASSUME Fine(Here, pc), ProgramRuns, NEW ground \in Grounds, NEW entry, NEW id,
           NEW next, NEW failed, Spawn(Program(ground), entry, id, next, failed),
           \/ pc[Me] = "start" /\ entry = "destroy" /\ next = "wait" /\ failed = "wait"
           \/ /\ pc[Me] = "spawn" /\ entry \in {"pauseWriter", "pauseReader"}
              /\ next = "spawn" /\ failed = "logWait"
    PROVE  Fine(Here', pc')
<1>1. Me \in Ctx /\ Me = k.currentProcess /\ World(k, sems, pc) /\ pc \in [Ctx -> Labels]
  BY Runner
<1>2. CASE Goto(failed) /\ UNCHANGED pipeVars
  <2>1. Succeeds(pc[Me], failed) /\ pc[Me] \notin Printing /\ failed \notin Printing
    BY DEF Succeeds, Labels, Printing, Shells, ShellWaiting
  <2>. QED BY <1>2, <2>1, QuietFine, UnseenFine
<1>3. CASE ~ (Goto(failed) /\ UNCHANGED pipeVars)
  <2>. DEFINE free == {c \in Ctx : k.status[c] = "FREED"}
              d == FirstFit(k)
  <2>1. /\ free # {}
        /\ pc' = [pc EXCEPT ![d] = entry, ![Me] = next]
        /\ \E pid \in Pids :
              IsMinFreePid(k, pid)
              /\ Follows([Here EXCEPT !.k = CreateProcess(@, d, pid, Program(ground))])
    BY <1>3 DEF Spawn
  <2>2. d \in Ctx /\ k.status[d] = "FREED"
    BY <2>1, FirstFitIsFree
  <2>. HIDE DEF free, d
  <2>3. PICK pid \in Pids :
            IsMinFreePid(k, pid)
            /\ Follows([Here EXCEPT !.k = CreateProcess(@, d, pid, Program(ground))])
    BY <2>1
  <2>4. Program(ground) \in AnyProgram /\ Program(ground).fds = << STDIN, STDOUT >>
    <3>1. << STDIN, STDOUT >> \in FdPairs
      BY DEF FdPairs
    <3>2. MIN_PRIORITY \in Priorities
      BY SchedulerAssumption DEF Priorities, MIN_PRIORITY
    <3>. QED BY <3>1, <3>2 DEF Program, AnyProgram
  <2>. DEFINE t == CreateProcess(k, d, pid, Program(ground))
  <2>. HIDE DEF t
  <2>5. World(t, sems, pc')
    BY <1>1, <2>1, <2>2, <2>3, <2>4, SpawnWorld DEF t
  <2>6. [Here EXCEPT !.k = CreateProcess(@, d, pid, Program(ground))]
            = Of(t, sems, pipes, next_sem_id, call, delivered)
    BY DEF Here, Of, t
  <2>7. InProgramAt(Here, d)
    <3>1. pc[d] = "none"
      BY <1>1, <2>2 DEF World, Programmed
    <3>2. CallsApart(Here.call, pc)
      BY FineFields
    <3>. QED BY <2>2, <3>1, <3>2 DEF CallsApart, Calling, InProgramAt
  <2>8. \A e \in Ctx : e # Me => pc'[e] = pc[e] \/ InProgramAt(Here, e)
    BY <1>1, <2>1, <2>7
  <2>. QED BY <2>3, <2>5, <2>6, <2>8, MovesFine
<1>. QED
  BY <1>2, <1>3

LEMMA SpawnsFine ==
    ASSUME Fine(Here, pc), ShellStartsMvar \/ SpawnWorkers
    PROVE  Fine(Here', pc')
<1>1. CASE ShellStartsMvar
  <2>1. /\ ProgramRuns /\ pc[Me] = "start" /\ FOREGROUND \in Grounds
        /\ Spawn(Program(FOREGROUND), "destroy", 0, "wait", "wait")
    BY <1>1 DEF ShellStartsMvar, Running, Grounds
  <2>. QED BY <2>1, SpawnFine
<1>2. CASE SpawnWorkers
  <2>1. ProgramRuns /\ pc[Me] = "spawn" /\ BACKGROUND \in Grounds
    BY <1>2 DEF SpawnWorkers, Running, Grounds
  <2>2. CASE Goto("exit") /\ UNCHANGED pipeVars
    <3>1. Succeeds("spawn", "exit") /\ "spawn" \notin Printing /\ "exit" \notin Printing
      BY DEF Succeeds, Labels, Printing, Shells, ShellWaiting
    <3>. QED BY <2>1, <2>2, <3>1, QuietFine, UnseenFine
  <2>3. CASE \E entry \in {"pauseWriter", "pauseReader"}, id \in {made + 1, made + 1 - WRITERS} :
                Spawn(Program(BACKGROUND), entry, id, "spawn", "logWait")
    BY <2>1, <2>3, SpawnFine
  <2>. QED BY <1>2, <2>2, <2>3 DEF SpawnWorkers
<1>. QED
  BY <1>1, <1>2

LEMMA ManagerExitsFine ==
    ASSUME Fine(Here, pc), ManagerExits
    PROVE  Fine(Here', pc')
<1>1. ProgramRuns /\ pc[Me] = "exit" /\ Goto("none") /\ \E o \in Exit(Here, Me) : Follows(o)
  BY DEF ManagerExits, Running
<1>2. Me \in Ctx /\ Me = k.currentProcess /\ World(k, sems, pc) /\ pc \in [Ctx -> Labels]
  BY <1>1, Runner
<1>3. Exit(Here, Me) = ExitKills(Here, Me)
  <2>1. Here.k.fdOut[Me] \in {-1, STDOUT}
    BY <1>2, HereIs DEF World, AtConsole
  <2>2. Here.k.fdOut[Me] < 3
    BY <2>1 DEF STDOUT
  <2>. QED BY <2>2 DEF Exit
<1>4. PICK u \in KillProcess(k, k.pid[Me]) : Follows([Here EXCEPT !.k = Yield(u)])
  BY <1>1, <1>3, HereIs DEF ExitKills
<1>5. pc' = [pc EXCEPT ![Me] = "none"]
  BY <1>1 DEF Goto
<1>6. pc[Me] \notin Printing \cup Shells \cup {"none"}
  BY <1>1 DEF Printing, Shells, ShellWaiting
<1>7. World(Yield(u), sems, pc')
  BY <1>2, <1>4, <1>5, <1>6, ExitWorld
<1>8. [Here EXCEPT !.k = Yield(u)] = Of(Yield(u), sems, pipes, next_sem_id, call, delivered)
  BY DEF Here, Of
<1>9. \A d \in Ctx : d # Me => pc'[d] = pc[d]
  BY <1>2, <1>5
<1>. QED
  BY <1>1, <1>4, <1>7, <1>8, <1>9, MovesFine

\* A step of the kernel: the rest of a system call, or a tick.
LEMMA KernelFine ==
    ASSUME Fine(Here, pc), Resumes \/ Tick
    PROVE  Fine(Here', pc')
<1>1. CASE Resumes
  <2>1. ~ InterruptsOn /\ pc' = pc
    BY <1>1 DEF Resumes, ResumeCall
  <2>2. PICK o \in Resume(Here, k.currentProcess) : Follows(o)
    BY <1>1 DEF Resumes, ResumeCall
  <2>3. PICK c \in Ctx : c = k.currentProcess /\ call[c].at # "user"
    BY <2>1 DEF InterruptsOn
  <2>4. c = Self(Here) /\ Here.call[c].at # "user"
    BY <2>3, HereIs DEF Me
  <2>5. o \in Resume(Here, c)
    BY <2>2, <2>3
  <2>6. Fine(o, pc)
    BY <2>4, <2>5, FineResume
  <2>. QED BY <2>1, <2>2, <2>6, FollowsFine
<1>2. CASE Tick
  <2>1. pc' = pc /\ Follows([Here EXCEPT !.k = Schedule(@)])
    BY <1>2 DEF Tick, PipeTick
  <2>2. World(k, sems, pc) /\ PipesApart(pipes, next_sem_id) /\ CallsApart(call, pc)
    BY FineFields, HereIs DEF Of
  <2>3. PICK c \in Ctx : TRUE
    BY MvarAssumption
  <2>4. World(Schedule(k), sems, pc)
    BY <2>2, <2>3, TurnWorld
  <2>5. [Here EXCEPT !.k = Schedule(@)] = Of(Schedule(k), sems, pipes, next_sem_id, call, delivered)
    BY DEF Here, Of
  <2>6. Fine([Here EXCEPT !.k = Schedule(@)], pc)
    BY <2>2, <2>4, <2>5 DEF Fine
  <2>. QED BY <2>1, <2>6, FollowsFine
<1>. QED
  BY <1>1, <1>2

LEMMA FineStep ==
    ASSUME Fine(Here, pc), [MvarNext]_mvarVars
    PROVE  Fine(Here', pc')
<1>1. CASE ProgramStep
  BY <1>1, SpawnsFine, ShellWaitsFine, ShellReadsKeyFine, ResetsFine, PipeCallsFine,
     WaitsPrintFine, PostsPrintFine, ManagerExitsFine, PausesFine, ReaderQuietFine
     DEF ProgramStep
<1>2. CASE Resumes \/ Tick
  BY <1>2, KernelFine
<1>3. CASE UNCHANGED mvarVars
  BY <1>3, UnseenFine DEF mvarVars
<1>. QED
  BY <1>1, <1>2, <1>3 DEF MvarNext

-----------------------------------------------------------------------------
(***************************************************************************)
(* The colour: of the reader from the time it has set it until it has set  *)
(* it back, and else of the console; so what a reader saves and puts back  *)
(* is the console's.                                                       *)
(***************************************************************************)
Coloured == {"putchar", "restoreColor"}

Painted(at_, num, prev, font) ==
    /\ DOMAIN num = Ctx /\ DOMAIN prev = Ctx
    /\ \A c \in Ctx : at_[c] \in Coloured \cup {"setColor"} => prev[c] = Uncoloured
    /\ \A c \in Ctx : at_[c] \in Coloured => font = num[c]
    /\ (\A c \in Ctx : at_[c] \notin Coloured) => font = Uncoloured

MvarInv == Fine(Here, pc) /\ Painted(pc, number, previous, fontColor)

\* Nobody begins or ends to print in colour.
LEMMA PaintedKept ==
    ASSUME NEW at_, NEW num, NEW prev, NEW font, Painted(at_, num, prev, font),
           NEW at2, NEW num2, DOMAIN num2 = Ctx,
           \A c \in Ctx : at2[c] \in Coloured => at_[c] \in Coloured /\ num2[c] = num[c],
           \A c \in Ctx : at_[c] \in Coloured => at2[c] \in Coloured,
           \A c \in Ctx : at2[c] = "setColor" => at_[c] = "setColor"
    PROVE  Painted(at2, num2, prev, font)
BY DEF Painted

\* While the running process prints, nobody else has set the colour.
LEMMA OnlyMePaints ==
    ASSUME Fine(Here, pc), ProgramRuns, pc[Me] \in Printing,
           NEW c \in Ctx, pc[c] \in Coloured
    PROVE  c = Me
<1>1. Me \in Ctx /\ k.status[Me] # "BLOCKED" /\ World(k, sems, pc)
  BY Runner
<1>2. pc[c] \in Printing /\ k.status[c] # "BLOCKED"
  BY <1>1 DEF World, HoldersAwake, Holding, Printing, Coloured
<1>. QED
  BY <1>1, <1>2, AloneAwake

LEMMA PaintedGoto ==
    ASSUME MvarInv, ProgramRuns, NEW next, Goto(next), UNCHANGED << locals, fontColor >>,
           pc[Me] \in Coloured <=> next \in Coloured, next # "setColor"
    PROVE  Painted(pc', number', previous', fontColor')
<1>1. Me \in Ctx /\ pc \in [Ctx -> Labels]
  BY Runner DEF MvarInv
<1>2. number' = number /\ previous' = previous /\ fontColor' = fontColor
  BY DEF locals
<1>3. pc'[Me] = next /\ \A c \in Ctx : c # Me => pc'[c] = pc[c]
  BY <1>1 DEF Goto
<1>4. Painted(pc, number, previous, fontColor) /\ DOMAIN number = Ctx
  BY DEF MvarInv, Painted
<1>5. \A c \in Ctx : /\ pc'[c] \in Coloured => pc[c] \in Coloured
                     /\ pc[c] \in Coloured => pc'[c] \in Coloured
                     /\ pc'[c] = "setColor" => pc[c] = "setColor"
  BY <1>3
<1>. QED
  BY <1>2, <1>4, <1>5, PaintedKept

LEMMA PaintedSpawn ==
    ASSUME MvarInv, ProgramRuns, NEW program, NEW entry, NEW id, NEW next, NEW failed,
           Spawn(program, entry, id, next, failed), UNCHANGED << previous, fontColor >>,
           \A label \in {pc[Me], entry, next, failed} : label \notin Coloured \cup {"setColor"}
    PROVE  Painted(pc', number', previous', fontColor')
<1>1. Me \in Ctx /\ pc \in [Ctx -> Labels] /\ World(k, sems, pc)
  BY Runner DEF MvarInv
<1>2. CASE Goto(failed) /\ UNCHANGED number
  BY <1>2, PaintedGoto DEF locals
<1>3. CASE ~ (Goto(failed) /\ UNCHANGED number)
  <2>. DEFINE d == FirstFit(k)
  <2>1. /\ {c \in Ctx : k.status[c] = "FREED"} # {}
        /\ pc' = [pc EXCEPT ![d] = entry, ![Me] = next]
        /\ number' = [number EXCEPT ![d] = id]
    BY <1>3 DEF Spawn
  <2>2. d \in Ctx /\ k.status[d] = "FREED"
    BY <2>1, FirstFitIsFree
  <2>. HIDE DEF d
  <2>3. pc[d] = "none"
    BY <1>1, <2>2 DEF World, Programmed
  <2>4. Painted(pc, number, previous, fontColor) /\ DOMAIN number = Ctx
    BY DEF MvarInv, Painted
  <2>5. DOMAIN number' = Ctx /\ \A c \in Ctx : c # d => number'[c] = number[c]
    BY <2>1, <2>4
  <2>6. pc'[Me] = next /\ \A c \in Ctx : c # Me => pc'[c] = IF c = d THEN entry ELSE pc[c]
    BY <1>1, <2>1, <2>2
  <2>7. \A c \in Ctx : /\ pc'[c] \in Coloured => pc[c] \in Coloured /\ number'[c] = number[c]
                       /\ pc[c] \in Coloured => pc'[c] \in Coloured
                       /\ pc'[c] = "setColor" => pc[c] = "setColor"
    <3>1. pc[d] \notin Coloured
      BY <2>3 DEF Coloured
    <3>. QED BY <2>5, <2>6, <3>1
  <2>. QED BY <2>4, <2>5, <2>7, PaintedKept
<1>. QED
  BY <1>2, <1>3

LEMMA PaintedReader ==
    ASSUME MvarInv, GetColor \/ SetColor \/ RestoreColor
    PROVE  Painted(pc', number', previous', fontColor')
<1>1. ProgramRuns /\ number' = number /\ Painted(pc, number, previous, fontColor)
      /\ pc[Me] \in {"getColor", "setColor", "restoreColor"} /\ pc[Me] \in Printing
  BY DEF GetColor, SetColor, RestoreColor, Running, locals, MvarInv, Printing
<1>2. Me \in Ctx /\ pc \in [Ctx -> Labels]
  BY <1>1, Runner DEF MvarInv
<1>3. DOMAIN number = Ctx /\ DOMAIN previous = Ctx
  BY <1>1 DEF Painted
<1>4. \A c \in Ctx : c # Me => pc[c] \notin Coloured
  BY <1>1, OnlyMePaints DEF MvarInv
<1>5. CASE GetColor
  <2>1. pc[Me] = "getColor" /\ pc' = [pc EXCEPT ![Me] = "setColor"] /\ fontColor' = fontColor
        /\ previous' = [previous EXCEPT ![Me] = fontColor]
    BY <1>5 DEF GetColor, Running, Goto
  <2>2. pc'[Me] = "setColor" /\ \A c \in Ctx : c # Me => pc'[c] = pc[c]
    BY <1>2, <2>1
  <2>3. fontColor = Uncoloured
    BY <1>1, <1>4, <2>1 DEF Painted, Coloured
  <2>4. DOMAIN previous' = Ctx /\ previous'[Me] = Uncoloured
        /\ \A c \in Ctx : c # Me => previous'[c] = previous[c]
    BY <1>2, <1>3, <2>1, <2>3
  <2>. QED BY <1>1, <1>4, <2>1, <2>2, <2>3, <2>4 DEF Painted, Coloured
<1>6. CASE SetColor
  <2>1. pc[Me] = "setColor" /\ pc' = [pc EXCEPT ![Me] = "putchar"] /\ fontColor' = number[Me]
        /\ previous' = previous
    BY <1>6 DEF SetColor, Running, Goto, locals
  <2>2. pc'[Me] = "putchar" /\ \A c \in Ctx : c # Me => pc'[c] = pc[c]
    BY <1>2, <2>1
  <2>. QED BY <1>1, <1>2, <1>4, <2>1, <2>2 DEF Painted, Coloured
<1>7. CASE RestoreColor
  <2>1. pc[Me] = "restoreColor" /\ pc' = [pc EXCEPT ![Me] = "post"] /\ fontColor' = previous[Me]
        /\ previous' = [previous EXCEPT ![Me] = Uncoloured]
    BY <1>7 DEF RestoreColor, Running, Goto
  <2>2. pc'[Me] = "post" /\ \A c \in Ctx : c # Me => pc'[c] = pc[c]
    BY <1>2, <2>1
  <2>3. fontColor' = Uncoloured
    BY <1>1, <1>2, <2>1 DEF Painted, Coloured
  <2>4. DOMAIN previous' = Ctx /\ \A c \in Ctx : c # Me => previous'[c] = previous[c]
    BY <1>3, <2>1
  <2>. QED BY <1>1, <1>4, <2>1, <2>2, <2>3, <2>4 DEF Painted, Coloured
<1>. QED
  BY <1>5, <1>6, <1>7

LEMMA PaintedStep ==
    ASSUME MvarInv, [MvarNext]_mvarVars
    PROVE  Painted(pc', number', previous', fontColor')
<1>1. CASE ShellStartsMvar
  <2>1. /\ ProgramRuns /\ pc[Me] = "start" /\ UNCHANGED << previous, fontColor >>
        /\ Spawn(Program(FOREGROUND), "destroy", 0, "wait", "wait")
    BY <1>1 DEF ShellStartsMvar, Running
  <2>2. \A label \in {pc[Me], "destroy", "wait", "wait"} : label \notin Coloured \cup {"setColor"}
    BY <2>1 DEF Coloured
  <2>. QED BY <2>1, <2>2, PaintedSpawn
<1>2. CASE SpawnWorkers
  <2>1. ProgramRuns /\ pc[Me] = "spawn" /\ UNCHANGED << previous, fontColor >>
    BY <1>2 DEF SpawnWorkers, Running
  <2>2. CASE Goto("exit") /\ UNCHANGED number
    BY <2>1, <2>2, PaintedGoto DEF Coloured, locals
  <2>3. CASE \E entry \in {"pauseWriter", "pauseReader"}, id \in {made + 1, made + 1 - WRITERS} :
                Spawn(Program(BACKGROUND), entry, id, "spawn", "logWait")
    <3>1. PICK entry \in {"pauseWriter", "pauseReader"}, id \in {made + 1, made + 1 - WRITERS} :
                Spawn(Program(BACKGROUND), entry, id, "spawn", "logWait")
      BY <2>3
    <3>2. \A label \in {pc[Me], entry, "spawn", "logWait"} : label \notin Coloured \cup {"setColor"}
      BY <2>1 DEF Coloured
    <3>. QED BY <2>1, <3>1, <3>2, PaintedSpawn
  <2>. QED BY <1>2, <2>2, <2>3 DEF SpawnWorkers
<1>3. CASE GetColor \/ SetColor \/ RestoreColor
  BY <1>3, PaintedReader
<1>4. CASE PutsChar
  <2>1. ProgramRuns /\ pc[Me] = "putchar" /\ Goto("restoreColor") /\ UNCHANGED << locals, fontColor >>
    BY <1>4 DEF PutsChar, Running, Calls
  <2>. QED BY <2>1, PaintedGoto DEF Coloured
<1>5. CASE \/ ShellWaits \/ ShellReadsKey \/ DestroySemaphore \/ CreateSemaphore \/ MakePipe
           \/ LogWaits \/ LogsError \/ ManagerExits \/ WriterPauses \/ ReaderPauses
           \/ WriterWrites \/ ReaderReads \/ ReaderWaits \/ ReaderPosts
  <2>1. PICK from \in Labels \ (Coloured \cup {"setColor"}),
             next \in Labels \ (Coloured \cup {"setColor"}) :
            ProgramRuns /\ pc[Me] = from /\ Goto(next) /\ UNCHANGED << locals, fontColor >>
    BY <1>5 DEF ShellWaits, ShellReadsKey, DestroySemaphore, CreateSemaphore, MakePipe,
       LogWaits, LogsError, ManagerExits, WriterPauses, ReaderPauses, Pauses,
       WriterWrites, ReaderReads, ReaderWaits, ReaderPosts, Running, Calls,
       Labels, Printing, Shells, ShellWaiting, Coloured
  <2>. QED BY <2>1, PaintedGoto
<1>6. CASE UNCHANGED << pc, locals, fontColor >>
  BY <1>6 DEF MvarInv, locals
<1>. QED
  BY <1>1, <1>2, <1>3, <1>4, <1>5, <1>6 DEF MvarNext, ProgramStep, Resumes, Tick, mvarVars

LEMMA MvarStepInv == MvarInv /\ [MvarNext]_mvarVars => MvarInv'
BY FineStep, PaintedStep DEF MvarInv

LEMMA MvarInitInv == MvarInit => MvarInv
<1>. SUFFICES ASSUME MvarInit PROVE MvarInv
  OBVIOUS
<1>1. Init
  BY BootedInit, MvarAssumption DEF MvarInit
<1>2. /\ Inv(k) /\ k.currentProcess = NULL
      /\ \A c \in Ctx : k.waitingList[c] = << >>
      /\ AtConsole(k)
      /\ \A c \in Ctx : k.pid[c] # NO_PROCESS => k.status[c] = "READY"
  BY <1>1, InitInv
<1>3. Undead(k)
  BY <1>1, InitUndead
<1>4. pc \in [Ctx -> Labels] /\ \A c \in Ctx : pc[c] = IF k.pid[c] = SHELL_PID THEN "start" ELSE "none"
  <2>1. pc = [c \in Ctx |-> IF k.pid[c] = SHELL_PID THEN "start" ELSE "none"]
    BY DEF MvarInit
  <2>. QED BY <2>1 DEF Labels, Shells
<1>5. sems \in [SemIds -> Semaphore]
      /\ \A id \in SemIds : sems[id].waitQueue = << >> /\ sems[id].counter = 0
  <2>1. sems = [[id \in SemIds |-> Inactive] EXCEPT ![KEYBOARD_SEM_ID] = Fresh(0)]
    BY PrintId DEF MvarInit, SemCreate, Inactive, Fresh
  <2>2. Inactive \in Semaphore /\ Inactive.waitQueue = << >> /\ Inactive.counter = 0
    BY DEF Inactive, Semaphore
  <2>3. Fresh(0) \in Semaphore /\ Fresh(0).waitQueue = << >> /\ Fresh(0).counter = 0
    BY DEF Fresh, Semaphore
  <2>. QED BY <2>1, <2>2, <2>3
<1>. DEFINE home == [c \in Ctx |-> -1]
<1>6. home \in [Ctx -> Int] /\ \A c \in Ctx : home[c] = -1
  OBVIOUS
<1>. HIDE DEF home
<1>7. Peaceful(k, sems, home)
  <2>1. ToSet(<< >>) = {} /\ IsInjective(<< >>)
    BY DEF IsInjective, ToSet
  <2>2. QueuesInOrder(k, sems, home)
    BY <1>5, <2>1 DEF QueuesInOrder
  <2>3. WaitersApart(k, home)
    BY <1>2, <2>1 DEF WaitersApart
  <2>. QED BY <1>2, <1>3, <1>5, <1>6, <2>2, <2>3 DEF Peaceful, Orderly
<1>8. PrintHome(home, pc)
  <2>1. "start" \notin Printing /\ "none" \notin Printing
    BY DEF Printing
  <2>. QED BY <1>4, <1>6, <2>1, PrintId DEF PrintHome
<1>9. Supply(k, sems, home, MVAR_SEM_PRINT) <= 1
  <2>1. Awakened(k, home, MVAR_SEM_PRINT) = {}
    BY <1>6, PrintId DEF Awakened
  <2>2. Cardinality(Awakened(k, home, MVAR_SEM_PRINT)) = 0
    BY <2>1, FS_EmptySet
  <2>. QED BY <1>5, <2>2, PrintId DEF Supply
<1>10. SHELL_PID # NO_PROCESS /\ SHELL_PID # IDLE_PID
  BY DEF SHELL_PID, NO_PROCESS, IDLE_PID
<1>11. \A c \in Ctx : pc[c] # "none" => k.pid[c] = SHELL_PID /\ k.status[c] = "READY" /\ pc[c] = "start"
  BY <1>2, <1>4, <1>10
<1>12. Programmed(k, pc)
  BY <1>10, <1>11 DEF Programmed, Shells
<1>13. InTurn(pc)
  <2>1. \A c, d \in Ctx : pc[c] # "none" /\ pc[d] # "none" => c = d
    BY <1>2, <1>11 DEF Inv, Common, Identity, Live
  <2>. QED BY <1>11, <2>1 DEF InTurn
<1>14. HoldersAwake(k, pc)
  BY <1>4 DEF HoldersAwake, Holding
<1>15. World(k, sems, pc)
  BY <1>2, <1>4, <1>7, <1>8, <1>9, <1>12, <1>13, <1>14 DEF World, Placed
<1>16. PipesApart(pipes, next_sem_id)
  <2>1. pipes = [i \in Slots |-> ClosedPipe] /\ next_sem_id = FIRST_SEM
    BY DEF MvarInit
  <2>2. OwnIds(ClosedPipe)
    BY PrintId DEF OwnIds, ClosedPipe
  <2>. QED BY <2>1, <2>2, Ids DEF PipesApart
<1>17. CallsApart(call, pc)
  BY DEF MvarInit, CallsApart, InProgram
<1>18. Fine(Here, pc)
  BY <1>15, <1>16, <1>17, HereIs DEF Fine
<1>19. Painted(pc, number, previous, fontColor)
  BY <1>4 DEF MvarInit, Painted, Coloured
<1>. QED
  BY <1>18, <1>19 DEF MvarInv

\* Each letter is printed in the colour of the reader that took it, the message
\* of the manager in the console's, with any number of writers and readers and
\* however the timer cuts their four system calls apart.
THEOREM ColourCorrect == MvarSpec => []ColourIsOwn
<1>1. MvarInv => ColourIsOwn
  <2>. SUFFICES ASSUME MvarInv PROVE ColourIsOwn
    OBVIOUS
  <2>1. Painted(pc, number, previous, fontColor) /\ World(k, sems, pc)
    BY FineFields, HereIs DEF MvarInv
  <2>2. ASSUME NEW c \in Ctx, pc[c] = "log", k.status[c] # "BLOCKED", NEW d \in Ctx, pc[d] \in Coloured
        PROVE  FALSE
    <3>1. pc[c] \in Printing /\ pc[d] \in Printing /\ k.status[d] # "BLOCKED" /\ c # d
      BY <2>1, <2>2 DEF World, HoldersAwake, Holding, Printing, Coloured
    <3>. QED BY <2>1, <2>2, <3>1, AloneAwake
  <2>. QED BY <2>1, <2>2 DEF ColourIsOwn, Colouring, Painted, Coloured
<1>2. MvarSpec => MvarInit /\ [][MvarNext]_mvarVars
  BY PTL DEF MvarSpec
<1>. QED
  BY <1>1, <1>2, MvarInitInv, MvarStepInv, PTL

=============================================================================
