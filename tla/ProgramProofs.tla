----------------------------- MODULE ProgramProofs -----------------------------
(***************************************************************************)
(* testsync, for any number of pairs of processes and of iterations: at    *)
(* most one of them is between sem_wait and sem_post, and what test_sync   *)
(* prints at the end is 0.                                                 *)
(*                                                                         *)
(* The semaphore alone does not promise this: sem_create gives it a token  *)
(* and sem_post another, whoever calls them.  The invariant is that what   *)
(* it has to give, counting the processes that it let in, is never more    *)
(* than one, and that test_sync creates it before there are workers.  For  *)
(* what is printed a second invariant keeps account of what each worker    *)
(* still has to add, and of whom test_sync still has to wait for.          *)
(*                                                                         *)
(* After them come the clients of the semaphores that nobody disturbs, and *)
(* testproc, for any number of processes that it starts: its table is true *)
(* while there is room for them.                                           *)
(***************************************************************************)
EXTENDS UserPrograms, KernelClients, KernelProofs

Inside  == {"read", "yield", "write", "post"}
Outside == {"shell", "shellWait", "prompt", "create", "spawn", "wait", "print", "destroy",
            "exit", "open", "loop", "none"}
Labels  == Inside \cup Outside

\* Where the semaphores see each process.
Place(at_) == [c \in Ctx |-> IF at_[c] \in Inside THEN SEM_ID ELSE -1]

\* Each process but idle has a program, at a step of it.
Programmed(s, at_) ==
    \A c \in Ctx : at_[c] # "none" => s.status[c] # "FREED" /\ s.pid[c] # IDLE_PID

\* Before test_sync starts there is the shell only, and before the semaphore
\* is created there are no workers.
InTurn(at_) ==
    /\ \A c \in Ctx : at_[c] = "shell" => \A d \in Ctx \ {c} : at_[d] = "none"
    /\ \A c \in Ctx : at_[c] = "create" =>
            \A d \in Ctx \ {c} : at_[d] \in {"shellWait", "prompt", "none"}

SyncState(s, m, at_) ==
    /\ at_ \in [Ctx -> Labels]
    /\ Peaceful(s, m, Place(at_))
    /\ Supply(s, m, Place(at_), SEM_ID) <= 1
    /\ AtConsole(s)
    /\ Programmed(s, at_)
    /\ InTurn(at_)

ProgramInv ==
    IF program = "testsync" THEN SyncState(k, sems, pc)
    ELSE \A c \in Ctx : pc[c] \in {"shell", "none"}

\* With at most one token nobody shares the critical section.
LEMMA AloneInside ==
    ASSUME SyncState(k, sems, pc)
    PROVE  MutualExclusion
<1>. DEFINE A == Awakened(k, Place(pc), SEM_ID)
<1>1. \A c \in Ctx : InCriticalSection(c) => c \in A
  BY DEF InCriticalSection, Awakened, Place, Inside
<1>2. IsFiniteSet(A) /\ Cardinality(A) \in Nat
  BY AwakenedFinite
<1>3. Cardinality(A) <= 1
  <2>1. sems[SEM_ID].counter \in Nat
    BY TestSyncAssumption DEF SyncState, Peaceful, Orderly, Semaphore
  <2>. QED BY <1>2, <2>1 DEF SyncState, Supply
<1>. HIDE DEF A
<1>4. ASSUME NEW c \in A, NEW d \in A, c # d PROVE FALSE
  <2>1. {c} \subseteq A \ {d}
    BY <1>4
  <2>2. IsFiniteSet(A \ {d}) /\ Cardinality(A \ {d}) = Cardinality(A) - 1
    BY <1>2, FS_RemoveElement
  <2>3. Cardinality({c}) = 1
    BY FS_Singleton
  <2>4. Cardinality({c}) <= Cardinality(A \ {d})
    BY <2>1, <2>2, FS_Subset
  <2>. QED BY <1>2, <1>3, <2>2, <2>3, <2>4
<1>. QED
  BY <1>1, <1>4 DEF MutualExclusion

-----------------------------------------------------------------------------
(***************************************************************************)
(* A step of the program.                                                  *)
(***************************************************************************)

\* The process that has the processor is at a step of its program.
LEMMA Runner ==
    ASSUME SyncState(k, sems, pc), Self # NULL
    PROVE  /\ Self \in Ctx /\ k.status[Self] = "RUNNING" /\ k.currentPid = k.pid[Self]
           /\ pc[Self] # "none" => UserRuns /\ k.pid[Self] # IDLE_PID
           /\ Inv(k) /\ Undead(k) /\ sems \in [SemIds -> Semaphore]
           /\ Place(pc) \in [Ctx -> Int]
           /\ SEM_ID \in SemIds /\ SEM_ID \in Int /\ SEM_ID # -1 /\ -1 \notin SemIds
<1>1. Orderly(k, sems, Place(pc)) /\ Inv(k) /\ Undead(k) /\ Programmed(k, pc)
  BY DEF SyncState, Peaceful, Orderly
<1>2. Self \in Ctx /\ k.status[Self] = "RUNNING" /\ k.currentPid = k.pid[Self]
  BY <1>1 DEF Inv, Common, Kernel, Cpu, Self, Undead
<1>3. SEM_ID \in SemIds /\ SEM_ID \in Int /\ SEM_ID # -1 /\ -1 \notin SemIds
  BY TestSyncAssumption, SemaphoresAssumption
<1>. QED
  BY <1>1, <1>2, <1>3 DEF Orderly, Programmed, UserRuns, Self

\* Where a step of the running process leaves it for the semaphores.
LEMMA SelfGoes ==
    ASSUME SyncState(k, sems, pc), Self # NULL, NEW label \in Labels, Goto(label)
    PROVE  /\ pc' \in [Ctx -> Labels]
           /\ pc'[Self] = label /\ \A d \in Ctx : d # Self => pc'[d] = pc[d]
           /\ Goes(Place(pc), Self, IF label \in Inside THEN SEM_ID ELSE -1, Place(pc'))
           /\ label \in Outside /\ pc[Self] \in Outside => Place(pc') = Place(pc)
<1>1. Self \in Ctx /\ SEM_ID \in Int
  BY Runner
<1>2. pc' \in [Ctx -> Labels] /\ pc'[Self] = label /\ \A d \in Ctx : d # Self => pc'[d] = pc[d]
  BY <1>1 DEF SyncState, Goto
<1>3. Goes(Place(pc), Self, IF label \in Inside THEN SEM_ID ELSE -1, Place(pc'))
  <2>. DEFINE x == IF label \in Inside THEN SEM_ID ELSE -1
              p == Place(pc)
              q == Place(pc')
  <2>1. q \in [Ctx -> Int]
    BY <1>1 DEF Place
  <2>2. \A d \in Ctx : q[d] = IF d = Self THEN x ELSE p[d]
    BY <1>2 DEF Place
  <2>. HIDE DEF x, p, q
  <2>3. Goes(p, Self, x, q)
    BY <2>1, <2>2 DEF Goes
  <2>. QED BY <2>3 DEF x, p, q
<1>4. label \in Outside /\ pc[Self] \in Outside => Place(pc') = Place(pc)
  BY <1>1, <1>2 DEF Place, Inside, Outside
<1>. QED
  BY <1>2, <1>3, <1>4

\* The order in which the programs start is kept by a step that starts none.
LEMMA InTurnKept ==
    ASSUME SyncState(k, sems, pc), Self # NULL, NEW label \in Labels, Goto(label),
           label \notin {"shell", "create"}, pc[Self] \notin {"none", "shell", "prompt"},
           pc[Self] = "shellWait" => label = "prompt"
    PROVE  InTurn(pc')
<1>1. Self \in Ctx /\ pc'[Self] = label /\ \A d \in Ctx : d # Self => pc'[d] = pc[d]
  BY Runner, SelfGoes
<1>2. InTurn(pc)
  BY DEF SyncState
<1>3. ASSUME NEW c \in Ctx, pc'[c] = "shell" PROVE FALSE
  <2>1. c # Self /\ pc[c] = "shell"
    BY <1>1, <1>3
  <2>. QED BY <1>1, <1>2, <2>1 DEF InTurn
<1>4. ASSUME NEW c \in Ctx, pc'[c] = "create", NEW d \in Ctx \ {c}
      PROVE  pc'[d] \in {"shellWait", "prompt", "none"}
  <2>1. c # Self /\ pc[c] = "create"
    BY <1>1, <1>4
  <2>2. pc[d] \in {"shellWait", "prompt", "none"} /\ pc[Self] \in {"shellWait", "prompt", "none"}
    BY <1>1, <1>2, <2>1 DEF InTurn
  <2>. QED BY <1>1, <2>2
<1>. QED
  BY <1>3, <1>4 DEF InTurn

\* A step in which nobody begins or ends, by a process that has a program.
LEMMA ProgrammedKept ==
    ASSUME SyncState(k, sems, pc), Self # NULL, NEW label \in Labels, Goto(label),
           pc[Self] # "none", NEW t, SameWorld(k, t)
    PROVE  Programmed(t, pc')
<1>1. Self \in Ctx /\ pc'[Self] = label /\ \A d \in Ctx : d # Self => pc'[d] = pc[d]
  BY Runner, SelfGoes
<1>2. Programmed(k, pc)
  BY DEF SyncState
<1>. QED
  BY <1>1, <1>2 DEF Programmed, SameWorld

\* A tick or a yield.
LEMMA TurnSync ==
    ASSUME NEW s, NEW m, NEW at_, SyncState(s, m, at_), NEW t, t = Schedule(s) \/ t = Yield(s)
    PROVE  SyncState(t, m, at_) /\ SameWorld(s, t)
<1>1. Peaceful(s, m, Place(at_)) /\ Mid(s) /\ SEM_ID \in SemIds
  BY InvIsMid, TestSyncAssumption DEF SyncState, Peaceful, Orderly
<1>2. Peaceful(t, m, Place(at_)) /\ Steady(s, t)
  BY <1>1, PeacefulSchedule
<1>3. Supply(t, m, Place(at_), SEM_ID) = Supply(s, m, Place(at_), SEM_ID)
  BY <1>1, PeacefulSchedule
<1>4. AtConsole(t)
  BY <1>1, ConsoleSchedule, ConsoleYield DEF SyncState
<1>5. SameWorld(s, t)
  BY <1>2 DEF Steady, SameWorld
<1>6. Programmed(t, at_)
  BY <1>5 DEF SyncState, Programmed, SameWorld
<1>. QED
  BY <1>2, <1>3, <1>4, <1>5, <1>6 DEF SyncState

\* A step of its own that the kernel does not see.
LEMMA QuietSync ==
    ASSUME SyncState(k, sems, pc), Self # NULL, NEW label \in Labels, Goto(label),
           label \notin {"shell", "create"}, pc[Self] \notin {"none", "shell", "prompt", "shellWait"},
           label \in Inside <=> pc[Self] \in Inside
    PROVE  SyncState(k, sems, pc')
<1>1. Self \in Ctx
  BY Runner
<1>2. pc' \in [Ctx -> Labels] /\ pc'[Self] = label /\ \A d \in Ctx : d # Self => pc'[d] = pc[d]
  BY <1>1, SelfGoes
<1>3. Place(pc') = Place(pc)
  BY <1>1, <1>2 DEF Place
<1>4. InTurn(pc')
  BY <1>1, InTurnKept
<1>5. Programmed(k, pc')
  BY <1>1, ProgrammedKept DEF SameWorld
<1>. QED
  BY <1>2, <1>3, <1>4, <1>5 DEF SyncState

-----------------------------------------------------------------------------
(***************************************************************************)
(* The steps that make system calls.                                       *)
(***************************************************************************)

\* sem_wait: the process is inside, or it is blocked and will be when it goes on.
LEMMA WaitSync ==
    ASSUME SyncState(k, sems, pc), At("loop"), Becomes(SemWait(Now, SEM_ID)), Goto("read")
    PROVE  SyncState(k', sems', pc')
<1>. DEFINE home == Place(pc)
            home2 == Place(pc')
<1>0. "read" \in Labels /\ "read" \in Inside /\ "loop" \notin Inside
  BY DEF Labels, Inside, Outside
<1>1. Self # NULL /\ pc[Self] = "loop"
  BY DEF At
<1>2. /\ Self \in Ctx /\ k.pid[Self] # IDLE_PID /\ Inv(k) /\ Undead(k)
      /\ SEM_ID \in SemIds /\ SEM_ID \in Int /\ -1 \notin SemIds
      /\ k.currentPid = k.pid[Self]
  BY <1>1, Runner
<1>3. Goes(home, Self, SEM_ID, home2) /\ pc' \in [Ctx -> Labels]
  BY <1>0, <1>1, SelfGoes
<1>4. home[Self] \notin SemIds
  BY <1>0, <1>1, <1>2 DEF Place
<1>5. SemWait(Sys(k, sems), SEM_ID) = Sys(k', sems')
  BY CallReturns DEF Becomes, Now, Sys
<1>6. Peaceful(k, sems, home)
  BY DEF SyncState
<1>. HIDE DEF home, home2
<1>7. Self = k.currentProcess
  BY DEF Self
<1>8. Peaceful(k', sems', home2)
  BY <1>2, <1>3, <1>4, <1>5, <1>6, <1>7, PeacefulSemWait
<1>14. \A j \in SemIds : Supply(k', sems', home2, j) = Supply(k, sems, home, j)
  BY <1>2, <1>3, <1>4, <1>5, <1>6, <1>7, PeacefulSemWait
<1>9. Supply(k', sems', home2, SEM_ID) <= 1
  <2>1. Supply(k, sems, home, SEM_ID) <= 1
    BY DEF SyncState, home
  <2>. QED BY <1>2, <1>14, <2>1
<1>10. SameWorld(k, k')
  BY <1>2, <1>3, <1>4, <1>5, <1>6, <1>7, PeacefulSemWait
<1>11. AtConsole(k')
  <2>1. k' = k \/ k' = BlockProcess(k, k.currentPid)
    BY DEF Becomes, SemWait, Now
  <2>2. AtConsole(k)
    BY DEF SyncState
  <2>. QED BY <1>2, <1>7, <2>1, <2>2, ConsoleBlock
<1>12. Programmed(k', pc')
  BY <1>0, <1>1, <1>10, ProgrammedKept
<1>13. InTurn(pc')
  BY <1>0, <1>1, InTurnKept
<1>. QED
  BY <1>3, <1>8, <1>9, <1>11, <1>12, <1>13 DEF SyncState, home2

\* sem_post: the process has left, and its token is the semaphore's again.
LEMMA PostSync ==
    ASSUME SyncState(k, sems, pc), At("post"), Becomes(SemPost(Now, SEM_ID)), Goto("loop")
    PROVE  SyncState(k', sems', pc')
<1>. DEFINE home == Place(pc)
            home2 == Place(pc')
<1>0. "loop" \in Labels /\ "loop" \notin Inside /\ "post" \in Inside
  BY DEF Labels, Inside, Outside
<1>1. Self # NULL /\ pc[Self] = "post"
  BY DEF At
<1>2. /\ Self \in Ctx /\ k.status[Self] = "RUNNING" /\ Inv(k)
      /\ SEM_ID \in SemIds /\ SEM_ID \in Int /\ -1 \notin SemIds
  BY <1>1, Runner
<1>3. Goes(home, Self, -1, home2) /\ pc' \in [Ctx -> Labels]
  BY <1>0, <1>1, SelfGoes
<1>4. home[Self] = SEM_ID
  BY <1>0, <1>1, <1>2 DEF Place
<1>5. SemPost(Sys(k, sems), SEM_ID) = Sys(k', sems')
  BY CallReturns DEF Becomes, Now, Sys
<1>6. /\ Peaceful(k, sems, home) /\ Orderly(k, sems, home)
      /\ Supply(k, sems, home, SEM_ID) <= 1 /\ Supply(k, sems, home, SEM_ID) \in Int
  <2>1. sems[SEM_ID].counter \in Int
    BY <1>2 DEF SyncState, Peaceful, Orderly, Semaphore
  <2>2. Cardinality(Awakened(k, home, SEM_ID)) \in Int
    BY AwakenedFinite
  <2>. QED BY <2>1, <2>2 DEF SyncState, Peaceful, Supply
<1>. HIDE DEF home, home2
<1>7. Self = k.currentProcess
  BY DEF Self
<1>8. Peaceful(k, sems, home2)
  BY <1>2, <1>3, <1>6, PeacefulMove
<1>9. Supply(k, sems, home2, SEM_ID) = Supply(k, sems, home, SEM_ID) - 1
  BY <1>2, <1>3, <1>4, <1>6, <1>7, OrderlyLeave
<1>10. Orderly(k, sems, home2)
  BY <1>8 DEF Peaceful
<1>11. Peaceful(k', sems', home2)
  BY <1>2, <1>5, <1>8, PeacefulSemPost
<1>12. Supply(k', sems', home2, SEM_ID) = Supply(k, sems, home2, SEM_ID) + 1
  BY <1>2, <1>5, <1>10, OrderlyPost
<1>13. SameProcesses(k, k') /\ \A d \in Ctx : k'.status[d] = "FREED" <=> k.status[d] = "FREED"
  BY <1>2, <1>5, <1>10, OrderlyPost
<1>14. SameWorld(k, k') /\ AtConsole(k')
  BY <1>13 DEF SameProcesses, SameWorld, SyncState, AtConsole
<1>15. Programmed(k', pc')
  BY <1>0, <1>1, <1>14, ProgrammedKept
<1>16. InTurn(pc')
  BY <1>0, <1>1, InTurnKept
<1>17. Supply(k', sems', home2, SEM_ID) <= 1
  BY <1>6, <1>9, <1>12
<1>. QED
  BY <1>3, <1>11, <1>14, <1>15, <1>16, <1>17 DEF SyncState, home2

\* sem_create before there are workers, and sem_destroy at any time.
LEMMA ResetSync ==
    ASSUME SyncState(k, sems, pc), Self # NULL, pc[Self] \in {"create", "destroy"},
           NEW label \in {"spawn", "exit"}, Goto(label), NEW x \in Semaphore, x.waitQueue = << >>,
           x.counter = 0 \/ (x.counter = 1 /\ pc[Self] = "create"),
           sems' = sems \/ sems' = [sems EXCEPT ![SEM_ID] = x]
    PROVE  SyncState(k, sems', pc')
<1>. DEFINE home == Place(pc)
            A == Awakened(k, home, SEM_ID)
<1>0. label \in Labels /\ label \in Outside /\ pc[Self] \in Outside
  BY DEF Labels, Outside
<1>1. Self \in Ctx /\ SEM_ID \in SemIds /\ SEM_ID # -1 /\ sems \in [SemIds -> Semaphore]
  BY Runner
<1>2. Place(pc') = home /\ pc' \in [Ctx -> Labels]
  BY <1>0, SelfGoes
<1>10. Orderly(k, sems, home)
  BY DEF SyncState, Peaceful
<1>3. WaitersApart(k, home) /\ Supply(k, sems, home, SEM_ID) <= 1
  BY DEF SyncState, Peaceful
<1>4. Cardinality(A) \in Nat /\ sems[SEM_ID].counter \in Nat
      /\ Supply(k, sems, home, SEM_ID) = sems[SEM_ID].counter + Cardinality(A)
  BY <1>1, AwakenedFinite DEF Semaphore, Supply
<1>5. x.counter + Cardinality(A) <= 1
  <2>1. CASE x.counter = 0
    BY <1>3, <1>4, <2>1
  <2>2. CASE x.counter = 1 /\ pc[Self] = "create"
    <3>1. \A d \in Ctx : pc[d] \notin Inside
      BY <1>1, <2>2 DEF SyncState, InTurn, Inside
    <3>2. A = {}
      BY <1>1, <3>1 DEF Awakened, Place
    <3>3. Cardinality(A) = 0
      BY <3>2, FS_EmptySet
    <3>. QED BY <2>2, <3>3
  <2>. QED BY <2>1, <2>2
<1>. HIDE DEF home
<1>6. Orderly(k, sems', home) /\ Supply(k, sems', home, SEM_ID) <= 1
  <2>1. CASE sems' = sems
    BY <1>3, <1>10, <2>1
  <2>2. CASE sems' = [sems EXCEPT ![SEM_ID] = x]
    <3>. DEFINE w == [sems EXCEPT ![SEM_ID] = x]
    <3>0. Orderly(k, w, home)
      <4>1. SEM_ID \in SemIds /\ x \in Semaphore /\ x.waitQueue = << >>
        BY <1>1
      <4>. QED BY <1>10, <4>1, OrderlyReset
    <3>1. Orderly(k, sems', home)
      <4>1. w = sems'
        BY <2>2
      <4>. HIDE DEF w
      <4>. QED BY <3>0, <4>1
    <3>2. sems'[SEM_ID] = x
      BY <1>1, <2>2
    <3>3. Supply(k, sems', home, SEM_ID) = x.counter + Cardinality(A)
      BY <3>2 DEF Supply
    <3>. HIDE DEF A
    <3>. QED BY <1>5, <3>1, <3>3
  <2>. QED BY <2>1, <2>2
<1>7. Peaceful(k, sems', Place(pc')) /\ Supply(k, sems', Place(pc'), SEM_ID) <= 1
  BY <1>2, <1>3, <1>6 DEF Peaceful
<1>8. Programmed(k, pc')
  BY <1>0, ProgrammedKept DEF SameWorld
<1>9. InTurn(pc')
  BY <1>0, InTurnKept
<1>. QED
  BY <1>2, <1>7, <1>8, <1>9 DEF SyncState

\* waitProcess for a child.
LEMMA ChildSync ==
    ASSUME SyncState(k, sems, pc), Self # NULL, NEW pid, k' = WaitProcess(k, pid),
           NEW label \in {"prompt", "wait", "print"}, Goto(label),
           (pc[Self] = "shellWait" /\ label = "prompt") \/ pc[Self] = "wait"
    PROVE  SyncState(k', sems, pc')
<1>. DEFINE home == Place(pc)
<1>0. label \in Labels /\ label \in Outside /\ pc[Self] \in Outside /\ pc[Self] # "none"
  BY DEF Labels, Outside
<1>1. /\ Self \in Ctx /\ k.pid[Self] # IDLE_PID /\ Inv(k) /\ Undead(k)
      /\ SEM_ID \in SemIds /\ -1 \notin SemIds
  BY <1>0, Runner
<1>2. Place(pc') = home /\ pc' \in [Ctx -> Labels]
  BY <1>0, SelfGoes
<1>3. home[Self] \notin SemIds
  BY <1>0, <1>1 DEF Place, Inside, Outside
<1>4. Peaceful(k, sems, home) /\ Supply(k, sems, home, SEM_ID) <= 1 /\ AtConsole(k)
  BY DEF SyncState
<1>5. Self = k.currentProcess
  BY DEF Self
<1>. HIDE DEF home
<1>6. Peaceful(k', sems, home)
  BY <1>1, <1>3, <1>4, <1>5, PeacefulWaitProcess
<1>7. Supply(k', sems, home, SEM_ID) = Supply(k, sems, home, SEM_ID)
  BY <1>1, <1>3, <1>4, <1>5, PeacefulWaitProcess
<1>8. SameWorld(k, k')
  <2>1. \A d \in Ctx : k'.pid[d] = k.pid[d] /\ (k'.status[d] = "FREED" <=> k.status[d] = "FREED")
    BY <1>1, <1>3, <1>4, <1>5, PeacefulWaitProcess
  <2>. QED BY <2>1 DEF SameWorld
<1>9. AtConsole(k')
  BY <1>1, <1>4, <1>5, ConsoleWait
<1>10. Programmed(k', pc')
  BY <1>0, <1>8, ProgrammedKept
<1>11. InTurn(pc')
  BY <1>0, InTurnKept
<1>. QED
  BY <1>2, <1>4, <1>6, <1>7, <1>9, <1>10, <1>11 DEF SyncState

\* createProcess by the shell or by test_sync: the child is outside.
LEMMA SpawnSync ==
    ASSUME SyncState(k, sems, pc), Self # NULL, NEW c \in Ctx, NEW entry \in Labels, NEW next \in Labels,
           Spawn(c, FOREGROUND, entry, next),
           \/ pc[Self] = "shell" /\ entry = "create" /\ next = "shellWait"
           \/ pc[Self] = "spawn" /\ entry = "open" /\ next \in {"spawn", "wait"}
    PROVE  SyncState(k', sems, pc')
<1>. DEFINE home == Place(pc)
<1>1. Self \in Ctx /\ k.status[Self] = "RUNNING" /\ Inv(k) /\ -1 \notin SemIds /\ SEM_ID \in SemIds
  BY Runner
<1>2. Peaceful(k, sems, home) /\ AtConsole(k) /\ Programmed(k, pc) /\ InTurn(pc)
  BY DEF SyncState
<1>3. k.status[c] = "FREED" /\ c # Self /\ pc[c] = "none"
  <2>1. k.status[c] = "FREED"
    BY DEF Spawn
  <2>2. c # Self
    BY <1>1, <2>1
  <2>. QED BY <1>2, <2>1, <2>2 DEF Programmed
<1>4. PICK pid \in Pids : IsMinFreePid(k, pid) /\ k' = CreateProcess(k, c, pid, Console(FOREGROUND))
  BY DEF Spawn
<1>5. Console(FOREGROUND) \in AnyProgram /\ Console(FOREGROUND).fds = << STDIN, STDOUT >>
  <2>1. << STDIN, STDOUT >> \in FdPairs /\ FOREGROUND \in Grounds
    BY DEF FdPairs, Grounds
  <2>2. 1 \in Priorities
    BY SchedulerAssumption DEF Priorities, MIN_PRIORITY
  <2>. QED BY <2>1, <2>2 DEF Console, AnyProgram
<1>6. /\ pc'[c] = entry /\ pc'[Self] = next /\ pc' \in [Ctx -> Labels]
      /\ \A d \in Ctx : d # c /\ d # Self => pc'[d] = pc[d]
  <2>1. pc' = [pc EXCEPT ![c] = entry, ![Self] = next]
    BY DEF Spawn
  <2>2. pc \in [Ctx -> Labels]
    BY DEF SyncState
  <2>. QED BY <1>1, <1>3, <2>1, <2>2
<1>7. /\ k'.status[c] = "READY" /\ k'.pid[c] # IDLE_PID
      /\ k'.fdIn[c] = STDIN /\ k'.fdOut[c] = STDOUT
      /\ \A d \in Ctx : d # c =>
            /\ k'.status[d] = k.status[d] /\ k'.pid[d] = k.pid[d]
            /\ k'.fdIn[d] = k.fdIn[d] /\ k'.fdOut[d] = k.fdOut[d]
  BY <1>1, <1>3, <1>4, <1>5, ProcessCreated
<1>8. Place(pc') = home
  <2>1. entry \notin Inside /\ next \notin Inside /\ pc[Self] \notin Inside /\ pc[c] \notin Inside
    BY <1>3 DEF Inside
  <2>. QED BY <1>6, <2>1 DEF Place
<1>9. home[c] \notin SemIds
  BY <1>1, <1>3 DEF Place, Inside
<1>10. Peaceful(k', sems, home) /\ Supply(k', sems, home, SEM_ID) <= 1
  <2>. HIDE DEF home
  <2>1. Peaceful(k', sems, home) /\ \A id \in SemIds : Supply(k', sems, home, id) = Supply(k, sems, home, id)
    BY <1>2, <1>3, <1>4, <1>5, <1>9, PeacefulCreate
  <2>2. Supply(k, sems, home, SEM_ID) <= 1
    BY DEF SyncState, home
  <2>. QED BY <1>1, <2>1, <2>2
<1>11. AtConsole(k')
  BY <1>2, <1>7 DEF AtConsole
<1>12. Programmed(k', pc')
  BY <1>1, <1>2, <1>3, <1>6, <1>7 DEF Programmed
<1>13. InTurn(pc')
  <2>1. CASE pc[Self] = "shell" /\ entry = "create" /\ next = "shellWait"
    <3>1. \A d \in Ctx : d # c /\ d # Self => pc'[d] = "none"
      BY <1>1, <1>2, <1>6, <2>1 DEF InTurn
    <3>. QED BY <1>6, <2>1, <3>1 DEF InTurn
  <2>2. CASE pc[Self] = "spawn" /\ entry = "open" /\ next \in {"spawn", "wait"}
    <3>1. ASSUME NEW d \in Ctx, pc'[d] \in {"shell", "create"} PROVE FALSE
      <4>1. d # c /\ d # Self /\ pc[d] \in {"shell", "create"}
        BY <1>6, <2>2, <3>1
      <4>. QED BY <1>1, <1>2, <2>2, <4>1 DEF InTurn
    <3>. QED BY <3>1 DEF InTurn
  <2>. QED BY <2>1, <2>2
<1>. QED
  BY <1>6, <1>8, <1>10, <1>11, <1>12, <1>13 DEF SyncState

\* The exit of a process that is outside.
LEMMA ExitSync ==
    ASSUME SyncState(k, sems, pc), At("exit"), SyscallExit, Goto("none")
    PROVE  SyncState(k', sems, pc')
<1>. DEFINE home == Place(pc)
<1>0. "none" \in Labels /\ "none" \in Outside /\ "exit" \in Outside /\ pc[Self] = "exit" /\ Self # NULL
  BY DEF At, Labels, Outside
<1>1. /\ Self \in Ctx /\ k.status[Self] = "RUNNING" /\ Inv(k) /\ Undead(k)
      /\ k.currentPid = k.pid[Self] /\ k.pid[Self] # IDLE_PID /\ -1 \notin SemIds /\ SEM_ID \in SemIds
  BY <1>0, Runner
<1>2. Place(pc') = home /\ pc' \in [Ctx -> Labels] /\ pc'[Self] = "none"
      /\ \A d \in Ctx : d # Self => pc'[d] = pc[d]
  BY <1>0, SelfGoes
<1>3. Peaceful(k, sems, home) /\ AtConsole(k)
  BY DEF SyncState
<1>4. home[Self] \notin SemIds
  BY <1>0, <1>1 DEF Place, Inside
<1>5. k.pid[Self] \in Targets
  BY <1>1 DEF SyscallExit
<1>6. PipedFd(k, Self) = -1
  BY <1>1, <1>3, NoPeer DEF Live
<1>8. Self = k.currentProcess
  BY DEF Self
<1>7. PICK u \in KillProcess(k, k.pid[Self]) : k' = Yield(u)
  BY <1>8 DEF SyscallExit
<1>. HIDE DEF home
<1>9. /\ Peaceful(k', sems, home)
      /\ \A id \in SemIds : Supply(k', sems, home, id) = Supply(k, sems, home, id)
      /\ k'.status[Self] = "FREED"
  BY <1>1, <1>3, <1>4, <1>5, <1>6, <1>7, <1>8, PeacefulExit
<1>10. \A d \in Ctx \ {Self} : /\ k'.pid[d] = k.pid[d]
                               /\ k'.status[d] = "FREED" <=> k.status[d] = "FREED"
  BY <1>1, <1>3, <1>4, <1>5, <1>6, <1>7, <1>8, PeacefulExit
<1>11. Supply(k', sems, home, SEM_ID) <= 1
  <2>1. Supply(k, sems, home, SEM_ID) <= 1
    BY DEF SyncState, home
  <2>. QED BY <1>1, <1>9, <2>1
<1>12. AtConsole(k')
  BY <1>1, <1>3, <1>5, <1>7, <1>8, ConsoleExit
<1>13. Programmed(k', pc')
  <2>1. Programmed(k, pc)
    BY DEF SyncState
  <2>. QED BY <1>2, <1>10, <2>1 DEF Programmed
<1>14. InTurn(pc')
  BY <1>0, InTurnKept
<1>. QED
  BY <1>2, <1>9, <1>11, <1>12, <1>13, <1>14 DEF SyncState

-----------------------------------------------------------------------------
(***************************************************************************)
(* The specification.                                                      *)
(***************************************************************************)

LEMMA ProgramsInitInv == ProgramsInit => ProgramInv
<1>. SUFFICES ASSUME ProgramsInit PROVE ProgramInv
  OBVIOUS
<1>. DEFINE home == Place(pc)
<1>1. LocalsInit
  BY DEF ProgramsInit
<1>2. \A c \in Ctx : pc[c] = IF k.pid[c] = SHELL_PID THEN "shell" ELSE "none"
  BY <1>1 DEF LocalsInit
<1>3. ASSUME program = "testsync" PROVE SyncState(k, sems, pc)
  <2>1. Init
    BY <1>3, BootedInit, TestSyncAssumption DEF ProgramsInit
  <2>2. /\ Inv(k) /\ k.currentProcess = NULL
        /\ \A c \in Ctx : k.waitingList[c] = << >>
        /\ AtConsole(k)
        /\ \A c \in Ctx : k.pid[c] # NO_PROCESS => k.status[c] = "READY"
    BY <2>1, InitInv
  <2>3. Undead(k)
    BY <2>2, SchedulerAssumption DEF Undead, Inv, Cpu
  <2>4. pc \in [Ctx -> Labels]
    <3>1. pc = [c \in Ctx |-> IF k.pid[c] = SHELL_PID THEN "shell" ELSE "none"]
      BY <1>1 DEF LocalsInit
    <3>. QED BY <3>1 DEF Labels, Outside
  <2>5. \A c \in Ctx : home[c] = -1
    BY <1>2 DEF Place, Inside
  <2>6. home \in [Ctx -> Int]
    <3>1. home = [c \in Ctx |-> IF pc[c] \in Inside THEN SEM_ID ELSE -1] /\ SEM_ID \in Int
      BY TestSyncAssumption, SemaphoresAssumption DEF Place
    <3>. QED BY <3>1
  <2>. HIDE DEF home
  <2>7. sems \in [SemIds -> Semaphore] /\ \A id \in SemIds : sems[id] = Inactive
    <3>1. sems = [id \in SemIds |-> Inactive]
      BY <1>1 DEF LocalsInit
    <3>2. Inactive \in Semaphore
      BY DEF Inactive, Semaphore
    <3>. QED BY <3>1, <3>2
  <2>8. ToSet(<< >>) = {} /\ IsInjective(<< >>) /\ Inactive.waitQueue = << >> /\ Inactive.counter = 0
    BY DEF IsInjective, ToSet, Inactive
  <2>9. QueuesInOrder(k, sems, home)
    BY <2>7, <2>8 DEF QueuesInOrder
  <2>10. WaitersApart(k, home)
    BY <2>2, <2>8 DEF WaitersApart
  <2>11. Peaceful(k, sems, home)
    BY <2>2, <2>3, <2>6, <2>7, <2>9, <2>10 DEF Peaceful, Orderly
  <2>12. Supply(k, sems, home, SEM_ID) <= 1
    <3>1. SEM_ID \in SemIds /\ SEM_ID # -1
      BY TestSyncAssumption, SemaphoresAssumption
    <3>2. Awakened(k, home, SEM_ID) = {}
      BY <2>5, <3>1 DEF Awakened
    <3>3. Cardinality(Awakened(k, home, SEM_ID)) = 0
      BY <3>2, FS_EmptySet
    <3>4. sems[SEM_ID].counter = 0
      BY <2>7, <2>8, <3>1
    <3>. QED BY <3>3, <3>4 DEF Supply
  <2>14. SHELL_PID # NO_PROCESS /\ SHELL_PID # IDLE_PID
    BY DEF SHELL_PID, NO_PROCESS, IDLE_PID
  <2>15. \A c \in Ctx : pc[c] # "none" => k.pid[c] = SHELL_PID /\ k.status[c] = "READY"
    BY <1>2, <2>2, <2>14
  <2>16. Programmed(k, pc)
    BY <2>14, <2>15 DEF Programmed
  <2>17. InTurn(pc)
    <3>1. \A c, d \in Ctx : pc[c] # "none" /\ pc[d] # "none" => c = d
      BY <2>2, <2>15 DEF Inv, Common, Identity, Live
    <3>. QED BY <1>2, <3>1 DEF InTurn
  <2>. QED BY <2>2, <2>4, <2>11, <2>12, <2>16, <2>17 DEF SyncState, home
<1>. QED
  BY <1>2, <1>3 DEF ProgramInv

\* The steps that the kernel does not see, and the yield among them.
LEMMA QuietSteps ==
    ASSUME SyncState(k, sems, pc),
           \/ PrintFinal \/ OpenSemaphore \/ ReadGlobal \/ YieldInside \/ WriteGlobal
           \/ EnterLoop /\ iter[Self] = N
    PROVE  SyncState(k', sems', pc')
<1>1. PICK from \in {"print", "open", "loop", "read", "yield", "write"},
           label \in {"destroy", "loop", "exit", "yield", "write", "post"} :
        /\ At(from) /\ Goto(label)
        /\ from \in {"read", "yield", "write"} <=> label \in {"yield", "write", "post"}
  BY DEF PrintFinal, OpenSemaphore, ReadGlobal, YieldInside, WriteGlobal, EnterLoop
<1>2. Self # NULL /\ pc[Self] = from /\ label \in Labels
  BY <1>1 DEF At, Labels, Inside, Outside
<1>3. SyncState(k, sems, pc')
  BY <1>1, <1>2, QuietSync DEF Inside
<1>4. (k' = k \/ k' = Yield(k)) /\ sems' = sems
  BY DEF PrintFinal, OpenSemaphore, ReadGlobal, YieldInside, WriteGlobal, EnterLoop
<1>. QED
  BY <1>3, <1>4, TurnSync

\* A step of the shell, of test_sync or of one of its workers.
LEMMA ProgramStepSync ==
    ASSUME SyncState(k, sems, pc), ProgramStep
    PROVE  SyncState(k', sems', pc')
<1>1. CASE ShellStart
  <2>1. PICK c \in Ctx : Spawn(c, FOREGROUND, "create", "shellWait")
    BY <1>1 DEF ShellStart
  <2>2. Self # NULL /\ pc[Self] = "shell" /\ sems' = sems
    BY <1>1 DEF ShellStart, At
  <2>3. "create" \in Labels /\ "shellWait" \in Labels
    BY DEF Labels, Outside
  <2>. QED BY <2>1, <2>2, <2>3, SpawnSync
<1>2. CASE SpawnWorker
  <2>1. PICK c \in Ctx, next \in {"spawn", "wait"} : Spawn(c, FOREGROUND, "open", next)
    BY <1>2 DEF SpawnWorker
  <2>2. Self # NULL /\ pc[Self] = "spawn" /\ sems' = sems
    BY <1>2 DEF SpawnWorker, At
  <2>3. "open" \in Labels /\ next \in Labels
    BY DEF Labels, Outside
  <2>. QED BY <2>1, <2>2, <2>3, SpawnSync
<1>3. CASE ShellWait
  <2>1. /\ Self # NULL /\ pc[Self] = "shellWait" /\ sems' = sems
        /\ k' = WaitProcess(k, Head(pids[Self])) /\ Goto("prompt")
    BY <1>3 DEF ShellWait, At, WaitChild
  <2>. QED BY <2>1, ChildSync
<1>4. CASE WaitWorker
  <2>1. PICK label \in {"print", "wait"} : WaitChild(label)
    BY <1>4 DEF WaitWorker
  <2>2. /\ Self # NULL /\ pc[Self] = "wait" /\ sems' = sems
        /\ k' = WaitProcess(k, Head(pids[Self])) /\ Goto(label)
    BY <1>4, <2>1 DEF WaitWorker, At, WaitChild
  <2>. QED BY <2>2, ChildSync
<1>5. CASE CreateSemaphore
  <2>1. Self # NULL /\ pc[Self] = "create" /\ Goto("spawn") /\ k' = k
    BY <1>5 DEF CreateSemaphore, At, Becomes, SemCreate, Now
  <2>2. sems' = sems \/ sems' = [sems EXCEPT ![SEM_ID] = Fresh(1)]
    BY <1>5 DEF CreateSemaphore, Becomes, SemCreate, Now, Fresh
  <2>3. Fresh(1) \in Semaphore /\ Fresh(1).waitQueue = << >> /\ Fresh(1).counter = 1
    BY DEF Fresh, Semaphore
  <2>4. SyncState(k, sems', pc')
    BY <2>1, <2>2, <2>3, ResetSync
  <2>. QED BY <2>1, <2>4
<1>6. CASE DestroySemaphore
  <2>1. Self # NULL /\ pc[Self] = "destroy" /\ Goto("exit") /\ k' = k
    BY <1>6 DEF DestroySemaphore, At, Becomes, SemDestroy, Now
  <2>2. sems' = sems \/ sems' = [sems EXCEPT ![SEM_ID] = Inactive]
    BY <1>6 DEF DestroySemaphore, Becomes, SemDestroy, Now
  <2>3. Inactive \in Semaphore /\ Inactive.waitQueue = << >> /\ Inactive.counter = 0
    BY DEF Inactive, Semaphore
  <2>4. SyncState(k, sems', pc')
    BY <2>1, <2>2, <2>3, ResetSync
  <2>. QED BY <2>1, <2>4
<1>7. CASE EnterLoop /\ iter[Self] # N
  BY <1>7, WaitSync DEF EnterLoop
<1>8. CASE LeaveLoop
  BY <1>8, PostSync DEF LeaveLoop
<1>9. CASE Exit
  <2>1. SyncState(k', sems, pc') /\ sems' = sems
    BY <1>9, ExitSync DEF Exit
  <2>. QED BY <2>1
<1>. QED
  BY <1>1, <1>2, <1>3, <1>4, <1>5, <1>6, <1>7, <1>8, <1>9, QuietSteps DEF ProgramStep

LEMMA ProgramsStepInv == ProgramInv /\ [ProgramsNext]_programVars => ProgramInv'
<1>1. ASSUME ProgramInv, TestSyncRuns PROVE ProgramInv'
  <2>1. program = "testsync" /\ program' = program /\ ProgramStep
    BY <1>1 DEF TestSyncRuns
  <2>2. SyncState(k', sems', pc')
    BY <1>1, <2>1, ProgramStepSync DEF ProgramInv
  <2>. QED BY <2>1, <2>2 DEF ProgramInv
<1>2. ASSUME ProgramInv, AnyTick PROVE ProgramInv'
  <2>1. k' = Schedule(k) /\ UNCHANGED << sems, pc, program >>
    BY <1>2 DEF AnyTick, TimerTick, ofPrograms, ofTestSync
  <2>2. SyncState(k, sems, pc) => SyncState(k', sems, pc)
    BY <2>1, TurnSync
  <2>. QED BY <1>2, <2>1, <2>2 DEF ProgramInv
<1>3. ASSUME ProgramInv, TestProcRuns \/ AnybodyRuns PROVE ProgramInv'
  <2>1. program # "testsync" /\ UNCHANGED << pc, program >>
    BY <1>3 DEF TestProcRuns, AnybodyRuns, ofPrograms, ofTestSync
  <2>. QED BY <1>3, <2>1 DEF ProgramInv
<1>4. ASSUME ProgramInv, UNCHANGED programVars PROVE ProgramInv'
  <2>1. UNCHANGED << k, sems, pc, program >>
    BY <1>4 DEF programVars, ofPrograms, ofTestSync
  <2>. QED BY <1>4, <2>1 DEF ProgramInv
<1>. QED
  BY <1>1, <1>2, <1>3, <1>4 DEF ProgramsNext

\* Where the programs may be, whichever of them runs.
LEMMA ProgramInvariantHolds == ProgramsSpec => []ProgramInv
<1>1. ProgramsSpec => ProgramsInit /\ [][ProgramsNext]_programVars
  BY PTL DEF ProgramsSpec
<1>. QED
  BY <1>1, ProgramsInitInv, ProgramsStepInv, PTL

\* At most one process of testsync, of any number, is between sem_wait and
\* sem_post, through every preemption, yield, block, wake-up and exit.
THEOREM MutualExclusionCorrect == ProgramsSpec => []MutualExclusion
<1>1. ProgramInv => MutualExclusion
  BY AloneInside DEF ProgramInv, MutualExclusion, InCriticalSection
<1>. QED
  BY <1>1, ProgramInvariantHolds, PTL

-----------------------------------------------------------------------------
(***************************************************************************)
(* What test_sync prints.  A worker owes its sign for each iteration that  *)
(* it has not written yet, and with what all of them owe the shared        *)
(* variable would be right.  What is owed is counted as a number of pairs  *)
(* of a worker and an iteration, since nothing here can add up a set.      *)
(*                                                                         *)
(* test_sync prints when nothing is owed: each worker that is not done has *)
(* its pid among those still to be waited for, or test_sync is in its      *)
(* waiting list and blocked (pids are reused, and may be there twice).     *)
(***************************************************************************)
Working  == {"open", "loop"} \cup Inside
Parents  == {"create", "spawn", "wait", "print", "destroy"}
Counting == {"spawn", "wait", "print"}

Owes ==
    [c \in Ctx |-> IF pc[c] \in Working
                   THEN N - iter[c] - (IF pc[c] = "post" THEN 1 ELSE 0) ELSE 0]

Shares(owes, signs, sign) ==
    {x \in Ctx \X (1 .. N) : signs[x[1]] = sign /\ x[2] <= owes[x[1]]}

Debt(owes, signs) == Cardinality(Shares(owes, signs, 1)) - Cardinality(Shares(owes, signs, -1))

\* After a decrementer and before its incrementer.
Due(c) == IF pc[c] = "spawn" /\ Len(pids[c]) % 2 = 1 THEN -N ELSE 0

AccountsTyped ==
    /\ global \in Int /\ aux \in [Ctx -> Int] /\ iter \in [Ctx -> Nat] /\ inc \in [Ctx -> Int]
    /\ pids \in [Ctx -> Seq(Pids)]

Balanced ==
    \A c \in Ctx : /\ pc[c] \in {"shell", "create"} => global = 0
                   /\ pc[c] \in Counting => global + Debt(Owes, inc) = Due(c)

Accounts ==
    /\ AccountsTyped
    /\ \A c \in Ctx : pc[c] \in Working => inc[c] \in {-1, 1} /\ iter[c] <= N
    /\ \A c \in Ctx : pc[c] \in Inside => iter[c] < N
    /\ \A c \in Ctx : pc[c] \in {"yield", "write"} => aux[c] = global
    /\ \A c \in Ctx : pc[c] \in {"yield", "write", "post"} => k.status[c] # "BLOCKED"
    /\ Balanced
    /\ printed # NULL => printed = 0

Awaited(w, c) == k.pid[w] \in ToSet(pids[c]) \/ c \in ToSet(k.waitingList[w])

Family ==
    /\ \A c, d \in Ctx : pc[c] \in Parents /\ pc[d] \in Parents => c = d
    /\ \A c \in Ctx : pc[c] \in Parents \ {"create"} => sems[SEM_ID].active
    /\ \A c \in Ctx : /\ pc[c] \in {"wait", "shellWait"} => pids[c] # << >>
                      /\ pc[c] \in {"create", "print"} => pids[c] = << >>
                      /\ pc[c] = "shell" => \A d \in Ctx : pids[d] = << >>
    /\ \A w \in Ctx : pc[w] \in Working => \E c \in Ctx : pc[c] \in Counting /\ Awaited(w, c)

PrintInv == IF program = "testsync" THEN Accounts /\ Family ELSE printed = NULL

\* How many pairs there are is a number.
LEMMA SharesFinite ==
    ASSUME NEW owes, NEW signs, NEW sign
    PROVE  /\ IsFiniteSet(Shares(owes, signs, sign))
           /\ Cardinality(Shares(owes, signs, sign)) \in Nat
<1>1. IsFiniteSet(Ctx \X (1 .. N))
  <2>1. IsFiniteSet(Ctx) /\ IsFiniteSet(1 .. N)
    BY SchedulerAssumption, TestSyncAssumption, FS_Interval
  <2>. QED BY <2>1, FS_Product
<1>2. Shares(owes, signs, sign) \in SUBSET (Ctx \X (1 .. N))
  BY DEF Shares
<1>. QED
  BY <1>1, <1>2, FS_Subset, FS_CardinalityType

\* Who owes nothing takes part in nothing.
LEMMA NothingOwed ==
    ASSUME NEW owes, \A c \in Ctx : owes[c] = 0, NEW signs
    PROVE  Debt(owes, signs) = 0
<1>1. \A sign : Shares(owes, signs, sign) = {}
  BY DEF Shares
<1>. QED
  BY <1>1, FS_EmptySet DEF Debt

\* A write pays for one iteration.
LEMMA OnePaid ==
    ASSUME NEW owes, NEW owes2, NEW signs, NEW c \in Ctx, signs[c] \in {-1, 1},
           owes[c] \in 1 .. N, owes2[c] = owes[c] - 1,
           \A d \in Ctx : d # c => owes2[d] = owes[d]
    PROVE  Debt(owes2, signs) = Debt(owes, signs) - signs[c]
<1>. DEFINE A(sign) == Shares(owes, signs, sign)
            B(sign) == Shares(owes2, signs, sign)
            x == << c, owes[c] >>
<1>1. /\ Cardinality(A(1)) \in Nat /\ Cardinality(B(1)) \in Nat
      /\ Cardinality(A(-1)) \in Nat /\ Cardinality(B(-1)) \in Nat
      /\ IsFiniteSet(A(1)) /\ IsFiniteSet(A(-1))
  BY SharesFinite
<1>2. ASSUME NEW sign \in {-1, 1}, signs[c] # sign PROVE B(sign) = A(sign)
  BY <1>2 DEF Shares
<1>3. ASSUME NEW sign \in {-1, 1}, signs[c] = sign
      PROVE  Cardinality(B(sign)) = Cardinality(A(sign)) - 1
  <2>1. x \in A(sign) /\ B(sign) = A(sign) \ {x}
    <3>1. x \in A(sign)
      BY <1>3 DEF Shares
    <3>2. ASSUME NEW y \in Ctx \X (1 .. N)
          PROVE  y[2] <= owes2[y[1]] <=> y[2] <= owes[y[1]] /\ y # x
      <4>1. y = << y[1], y[2] >> /\ y[1] \in Ctx /\ y[2] \in 1 .. N /\ N \in Nat
        BY TestSyncAssumption
      <4>2. CASE y[1] # c
        BY <4>1, <4>2
      <4>3. CASE y[1] = c
        <5>1. y # x <=> y[2] # owes[c]
          BY <4>1, <4>3
        <5>. QED BY <4>1, <4>3, <5>1
      <4>. QED BY <4>2, <4>3
    <3>. QED BY <3>1, <3>2 DEF Shares
  <2>2. IsFiniteSet(A(sign))
    BY SharesFinite
  <2>. HIDE DEF A, B, x
  <2>. QED BY <2>1, <2>2, FS_RemoveElement
<1>. HIDE DEF A, B
<1>4. CASE signs[c] = 1
  BY <1>1, <1>2, <1>3, <1>4 DEF Debt, A, B
<1>5. CASE signs[c] = -1
  BY <1>1, <1>2, <1>3, <1>5 DEF Debt, A, B
<1>. QED
  BY <1>4, <1>5

\* A new worker owes all its iterations.
LEMMA AllOwed ==
    ASSUME NEW owes, NEW owes2, NEW signs, NEW signs2, NEW c \in Ctx, signs2[c] \in {-1, 1},
           owes[c] = 0, owes2[c] = N,
           \A d \in Ctx : d # c => owes2[d] = owes[d] /\ signs2[d] = signs[d]
    PROVE  Debt(owes2, signs2) = Debt(owes, signs) + (IF signs2[c] = 1 THEN N ELSE -N)
<1>. DEFINE A(sign) == Shares(owes, signs, sign)
            B(sign) == Shares(owes2, signs2, sign)
            X == {c} \X (1 .. N)
<1>0. N \in Nat
  BY TestSyncAssumption
<1>1. /\ Cardinality(A(1)) \in Nat /\ Cardinality(B(1)) \in Nat
      /\ Cardinality(A(-1)) \in Nat /\ Cardinality(B(-1)) \in Nat
  BY SharesFinite
<1>2. ASSUME NEW sign \in {-1, 1}, signs2[c] # sign PROVE B(sign) = A(sign)
  <2>1. ASSUME NEW y \in Ctx \X (1 .. N)
        PROVE  signs2[y[1]] = sign /\ y[2] <= owes2[y[1]] <=> signs[y[1]] = sign /\ y[2] <= owes[y[1]]
    <3>1. y[1] \in Ctx /\ y[2] \in 1 .. N
      OBVIOUS
    <3>. QED BY <1>0, <1>2, <3>1
  <2>. QED BY <2>1 DEF Shares
<1>3. ASSUME NEW sign \in {-1, 1}, signs2[c] = sign
      PROVE  Cardinality(B(sign)) = Cardinality(A(sign)) + N
  <2>1. A(sign) \cap X = {} /\ B(sign) = A(sign) \cup X
    <3>1. ASSUME NEW y \in Ctx \X (1 .. N)
          PROVE  /\ ~ (y \in A(sign) /\ y \in X)
                 /\ y \in B(sign) <=> y \in A(sign) \/ y \in X
      <4>1. y = << y[1], y[2] >> /\ y[1] \in Ctx /\ y[2] \in 1 .. N
        OBVIOUS
      <4>2. y \in X <=> y[1] = c
        BY <4>1
      <4>3. CASE y[1] # c
        BY <4>1, <4>2, <4>3 DEF Shares
      <4>4. CASE y[1] = c
        BY <1>0, <1>3, <4>1, <4>2, <4>4 DEF Shares
      <4>. QED BY <4>3, <4>4
    <3>2. A(sign) \subseteq Ctx \X (1 .. N) /\ B(sign) \subseteq Ctx \X (1 .. N)
      BY DEF Shares
    <3>3. X \subseteq Ctx \X (1 .. N)
      OBVIOUS
    <3>. HIDE DEF A, B, X
    <3>. QED BY <3>1, <3>2, <3>3
  <2>2. IsFiniteSet(X) /\ Cardinality(X) = N
    <3>1. IsFiniteSet({c}) /\ Cardinality({c}) = 1
      BY FS_Singleton
    <3>2. IsFiniteSet(1 .. N) /\ Cardinality(1 .. N) = N
      BY <1>0, FS_Interval
    <3>3. IsFiniteSet(X) /\ Cardinality(X) = 1 * N
      <4>1. /\ IsFiniteSet({c} \X (1 .. N))
            /\ Cardinality({c} \X (1 .. N)) = Cardinality({c}) * Cardinality(1 .. N)
        BY <3>1, <3>2, FS_Product
      <4>. QED BY <3>1, <3>2, <4>1
    <3>. HIDE DEF X
    <3>. QED BY <1>0, <3>3
  <2>3. IsFiniteSet(A(sign)) /\ Cardinality(A(sign)) \in Nat /\ Cardinality({}) = 0
    BY SharesFinite, FS_EmptySet
  <2>. HIDE DEF A, B, X
  <2>4. Cardinality(A(sign) \cup X)
            = Cardinality(A(sign)) + Cardinality(X) - Cardinality(A(sign) \cap X)
    BY <2>2, <2>3, FS_Union
  <2>5. Cardinality(A(sign) \cap X) = 0 /\ Cardinality(B(sign)) = Cardinality(A(sign) \cup X)
    BY <2>1, <2>3, Zenon
  <2>. QED BY <1>0, <2>2, <2>3, <2>4, <2>5
<1>. HIDE DEF A, B
<1>4. CASE signs2[c] = 1
  BY <1>0, <1>1, <1>2, <1>3, <1>4 DEF Debt, A, B
<1>5. CASE signs2[c] = -1
  BY <1>0, <1>1, <1>2, <1>3, <1>5 DEF Debt, A, B
<1>. QED
  BY <1>4, <1>5

\* What the steps of a program do to the processes of the others, apart from
\* an exit: nobody begins or ends, and only the caller may be blocked.
Harmless ==
    /\ KeepsLists(k, k') /\ OnlyBlocks(k, k', Self) /\ SameWorld(k, k')
    /\ sems'[SEM_ID].active = sems[SEM_ID].active

LEMMA HarmlessWait ==
    ASSUME SyncState(k, sems, pc), At("loop"), Becomes(SemWait(Now, SEM_ID)), Goto("read")
    PROVE  Harmless
<1>. DEFINE home == Place(pc)
            home2 == Place(pc')
<1>0. "read" \in Labels /\ "read" \in Inside /\ "loop" \notin Inside
  BY DEF Labels, Inside, Outside
<1>1. Self # NULL /\ pc[Self] = "loop"
  BY DEF At
<1>2. /\ Self \in Ctx /\ k.pid[Self] # IDLE_PID /\ Inv(k) /\ Undead(k)
      /\ SEM_ID \in SemIds /\ SEM_ID \in Int /\ -1 \notin SemIds
  BY <1>1, Runner
<1>3. Goes(home, Self, SEM_ID, home2)
  BY <1>0, <1>1, SelfGoes
<1>4. home[Self] \notin SemIds
  BY <1>0, <1>1, <1>2 DEF Place
<1>5. SemWait(Sys(k, sems), SEM_ID) = Sys(k', sems')
  BY CallReturns DEF Becomes, Now, Sys
<1>6. Peaceful(k, sems, home) /\ Orderly(k, sems, home)
  BY DEF SyncState, Peaceful
<1>. HIDE DEF home, home2
<1>7. Self = k.currentProcess
  BY DEF Self
<1>8. KeepsLists(k, k') /\ SameWorld(k, k')
  BY <1>2, <1>3, <1>4, <1>5, <1>6, <1>7, PeacefulSemWait
<1>9. OnlyBlocks(k, k', Self)
  BY <1>2, <1>5, <1>7, WaitBlocksCaller
<1>10. sems'[SEM_ID].active = sems[SEM_ID].active
  <2>1. sems \in [SemIds -> Semaphore]
    BY <1>6 DEF Orderly
  <2>2. CASE sems[SEM_ID].counter > 0
    <3>1. sems' = [sems EXCEPT ![SEM_ID].counter = @ - 1]
      BY <2>2 DEF Becomes, SemWait, Now
    <3>. QED BY <1>2, <2>1, <3>1 DEF Semaphore
  <2>3. CASE ~ (sems[SEM_ID].counter > 0)
    <3>1. sems' = [sems EXCEPT ![SEM_ID] = Enqueue(@, k.currentPid)]
      BY <2>3 DEF Becomes, SemWait, Now
    <3>2. sems'[SEM_ID] = Enqueue(sems[SEM_ID], k.currentPid)
      BY <1>2, <2>1, <3>1
    <3>3. sems[SEM_ID] \in Semaphore
      BY <1>2, <2>1
    <3>4. Enqueue(sems[SEM_ID], k.currentPid).active = sems[SEM_ID].active
      BY <3>3 DEF Enqueue, Semaphore
    <3>. QED BY <3>2, <3>4
  <2>. QED BY <2>2, <2>3
<1>. QED
  BY <1>2, <1>8, <1>9, <1>10 DEF Harmless

LEMMA HarmlessPost ==
    ASSUME SyncState(k, sems, pc), Becomes(SemPost(Now, SEM_ID))
    PROVE  Harmless /\ \A d \in Ctx : k'.status[d] = "BLOCKED" => k.status[d] = "BLOCKED"
<1>. DEFINE home == Place(pc)
<1>1. Peaceful(k, sems, home) /\ Orderly(k, sems, home) /\ SEM_ID \in SemIds
  BY TestSyncAssumption DEF SyncState, Peaceful
<1>2. SemPost(Sys(k, sems), SEM_ID) = Sys(k', sems')
  BY CallReturns DEF Becomes, Now, Sys
<1>. HIDE DEF home
<1>3. k'.waitingList = k.waitingList
  BY <1>1, <1>2, PeacefulSemPost
<1>4. \A d \in Ctx : k'.status[d] = "BLOCKED" => k.status[d] = "BLOCKED"
  BY <1>1, <1>2, PostBlocksNobody
<1>5. SameProcesses(k, k') /\ \A d \in Ctx : k'.status[d] = "FREED" <=> k.status[d] = "FREED"
  BY <1>1, <1>2, OrderlyPost
<1>6. \A j \in SemIds : sems'[j].active = sems[j].active
  BY <1>1, <1>2, OrderlyPost
<1>. QED
  BY <1>1, <1>3, <1>4, <1>5, <1>6
  DEF Harmless, KeepsLists, OnlyBlocks, SameWorld, SameProcesses

LEMMA HarmlessTurn ==
    ASSUME SyncState(k, sems, pc), k' = Schedule(k) \/ k' = Yield(k) \/ k' = k, sems' = sems
    PROVE  Harmless /\ \A d \in Ctx : k'.status[d] = "BLOCKED" => k.status[d] = "BLOCKED"
<1>1. CASE k' = k
  BY <1>1 DEF Harmless, KeepsLists, OnlyBlocks, SameWorld
<1>2. CASE k' = Schedule(k) \/ k' = Yield(k)
  <2>1. Steady(k, k') /\ KeepsLists(k, k')
    BY <1>2, PeacefulSchedule DEF SyncState
  <2>. QED BY <2>1 DEF Harmless, OnlyBlocks, SameWorld, Steady
<1>. QED
  BY <1>1, <1>2

\* The workers that are left after a step have kept their pids and waiting lists.
LEMMA WorkersKept ==
    ASSUME SyncState(k, sems, pc), SyncState(k', sems', pc'), KeepsLists(k, k'),
           NEW w \in Ctx, pc'[w] \in Working
    PROVE  k'.waitingList[w] = k.waitingList[w]
<1>1. pc'[w] # "none"
  BY DEF Working, Inside
<1>2. k'.status[w] # "FREED" /\ Inv(k') /\ Undead(k')
  BY <1>1 DEF SyncState, Peaceful, Orderly, Programmed
<1>. QED
  BY <1>2, LiveOrFreed DEF KeepsLists

\* A step that no parent takes, and after which there are no more workers.
LEMMA FamilyFrame ==
    ASSUME Family,
           \A c \in Ctx : \/ pc'[c] = pc[c]
                          \/ /\ pc[c] \notin Parents \cup {"shell"}
                             /\ pc'[c] \notin Parents \cup {"shell", "shellWait"}
                             /\ pc'[c] \in Working => pc[c] \in Working,
           \A c \in Ctx : pc'[c] \in Parents \cup {"shellWait"} => pids'[c] = pids[c],
           pids' = pids \/ \A c \in Ctx : pc[c] # "shell",
           sems'[SEM_ID].active = sems[SEM_ID].active,
           \A w \in Ctx : pc'[w] \in Working =>
                /\ k'.pid[w] = k.pid[w]
                /\ \A x \in ToSet(k.waitingList[w]) : x \in ToSet(k'.waitingList[w])
    PROVE  Family'
<1>1. \A c \in Ctx : pc'[c] \in Parents \cup {"shell", "shellWait"} \/ pc[c] \in Parents
                        => pc'[c] = pc[c]
  OBVIOUS
<1>2. Counting \subseteq Parents
  BY DEF Counting, Parents
<1>3. ASSUME NEW w \in Ctx, pc'[w] \in Working
      PROVE  \E c \in Ctx : pc'[c] \in Counting /\ Awaited(w, c)'
  <2>1. pc[w] \in Working
    BY <1>3
  <2>2. PICK c \in Ctx : pc[c] \in Counting /\ Awaited(w, c)
    BY <2>1 DEF Family
  <2>3. pc'[c] = pc[c] /\ pids'[c] = pids[c]
    BY <1>1, <1>2, <2>2
  <2>. QED BY <1>3, <2>2, <2>3 DEF Awaited
<1>4. \A c, d \in Ctx : pc'[c] \in Parents /\ pc'[d] \in Parents => c = d
  BY <1>1 DEF Family
<1>5. \A c \in Ctx : pc'[c] \in Parents \ {"create"} => sems'[SEM_ID].active
  BY <1>1 DEF Family
<1>6. ASSUME NEW c \in Ctx
      PROVE  /\ pc'[c] \in {"wait", "shellWait"} => pids'[c] # << >>
             /\ pc'[c] \in {"create", "print"} => pids'[c] = << >>
             /\ pc'[c] = "shell" => \A d \in Ctx : pids'[d] = << >>
  <2>1. pc'[c] \in {"wait", "shellWait", "create", "print"}
            => pc'[c] = pc[c] /\ pids'[c] = pids[c]
    BY <1>1 DEF Parents
  <2>2. pc'[c] = "shell" => pc[c] = "shell" /\ pids' = pids
    BY <1>1
  <2>. QED BY <2>1, <2>2 DEF Family
<1>. QED
  BY <1>3, <1>4, <1>5, <1>6 DEF Family

\* A step by c that writes nothing and leaves every worker owing what it owed.
LEMMA AccountsFrame ==
    ASSUME Accounts, AccountsTyped', NEW c \in Ctx,
           global' = global, inc' = inc, printed' = printed, Owes' = Owes,
           \A d \in Ctx : d # c =>
                /\ pc'[d] = pc[d] /\ iter'[d] = iter[d] /\ aux'[d] = aux[d]
                /\ k'.status[d] = "BLOCKED" => k.status[d] = "BLOCKED"
                /\ pc[d] = "spawn" => pids'[d] = pids[d],
           pc'[c] \in Working => inc[c] \in {-1, 1} /\ iter'[c] <= N,
           pc'[c] \in Inside => iter'[c] < N,
           pc'[c] \in {"yield", "write"} => aux'[c] = global,
           pc'[c] \in {"yield", "write", "post"} => k'.status[c] # "BLOCKED",
           pc'[c] \notin {"shell", "create", "spawn"}, pc'[c] \in Counting => pc[c] = "wait"
    PROVE  Accounts'
<1>1. /\ \A d \in Ctx : pc'[d] \in Working => inc'[d] \in {-1, 1} /\ iter'[d] <= N
      /\ \A d \in Ctx : pc'[d] \in Inside => iter'[d] < N
      /\ \A d \in Ctx : pc'[d] \in {"yield", "write"} => aux'[d] = global'
      /\ \A d \in Ctx : pc'[d] \in {"yield", "write", "post"} => k'.status[d] # "BLOCKED"
      /\ printed' # NULL => printed' = 0
  BY DEF Accounts
<1>2. ASSUME NEW d \in Ctx
      PROVE  /\ pc'[d] \in {"shell", "create"} => global' = 0
             /\ pc'[d] \in Counting => global' + Debt(Owes, inc)' = Due(d)'
  <2>1. Balanced
    BY DEF Accounts
  <2>2. pc'[d] \in {"shell", "create"} => pc[d] = pc'[d]
    BY <1>1
  <2>3. pc'[d] \in Counting => pc[d] \in Counting /\ Due(d)' = Due(d)
    <3>1. CASE d = c
      BY <3>1 DEF Due, Counting
    <3>2. CASE d # c
      BY <3>2 DEF Due
    <3>. QED BY <3>1, <3>2
  <2>4. Debt(Owes, inc)' = Debt(Owes, inc)
    BY DEF Debt, Shares
  <2>. QED BY <2>1, <2>2, <2>3, <2>4 DEF Balanced
<1>3. Balanced'
  BY <1>2 DEF Balanced
<1>. QED
  BY <1>1, <1>3 DEF Accounts

-----------------------------------------------------------------------------
(***************************************************************************)
(* The steps of a worker.                                                  *)
(***************************************************************************)

\* None of them disturbs the family.
LEMMA WorkerFamily ==
    ASSUME SyncState(k, sems, pc), SyncState(k', sems', pc'), Family, Self # NULL,
           pc[Self] \in Working, NEW label \in Working \cup {"exit"}, Goto(label),
           Harmless, pids' = pids
    PROVE  Family'
<1>1. /\ label \in Labels /\ pc[Self] \notin Parents \cup {"shell"}
      /\ label \notin Parents \cup {"shell", "shellWait"}
  BY DEF Labels, Working, Inside, Outside, Parents
<1>2. pc'[Self] = label /\ \A d \in Ctx : d # Self => pc'[d] = pc[d]
  BY <1>1, SelfGoes
<1>3. \A w \in Ctx : pc'[w] \in Working =>
            /\ k'.pid[w] = k.pid[w]
            /\ \A x \in ToSet(k.waitingList[w]) : x \in ToSet(k'.waitingList[w])
  BY WorkersKept DEF Harmless, SameWorld
<1>. QED
  BY <1>1, <1>2, <1>3, FamilyFrame DEF Harmless

\* Those that write nothing leave it owing what it owed.
LEMMA WorkerAccounts ==
    ASSUME SyncState(k, sems, pc), Accounts, Self # NULL, pc[Self] \in Working,
           NEW label \in Working \cup {"exit"}, Goto(label), Harmless,
           UNCHANGED << global, inc, printed, pids >>, AccountsTyped',
           \A d \in Ctx : d # Self => iter'[d] = iter[d] /\ aux'[d] = aux[d],
           Owes[Self] = IF label \in Working
                        THEN N - iter'[Self] - (IF label = "post" THEN 1 ELSE 0) ELSE 0,
           label \in Working => iter'[Self] <= N,
           label \in Inside => iter'[Self] < N,
           label \in {"yield", "write"} => aux'[Self] = global,
           label \in {"yield", "write", "post"} => k'.status[Self] # "BLOCKED"
    PROVE  Accounts'
<1>1. /\ label \in Labels /\ label \notin {"shell", "create", "spawn"} /\ label \notin Counting
      /\ Self \in Ctx
  BY Runner DEF Labels, Working, Inside, Outside, Counting
<1>2. pc'[Self] = label /\ \A d \in Ctx : d # Self => pc'[d] = pc[d]
  BY <1>1, SelfGoes
<1>3. Owes' = Owes
  BY <1>1, <1>2 DEF Owes
<1>4. \A d \in Ctx : d # Self => (k'.status[d] = "BLOCKED" => k.status[d] = "BLOCKED")
  BY DEF Harmless, OnlyBlocks
<1>5. inc[Self] \in {-1, 1}
  BY <1>1 DEF Accounts
<1>. QED
  BY <1>1, <1>2, <1>3, <1>4, <1>5, AccountsFrame

\* The books of testsync before a step of it, and that it is one.
Books ==
    /\ SyncState(k, sems, pc) /\ SyncState(k', sems', pc') /\ Accounts /\ Family
    /\ Self \in Ctx

LEMMA OpenAccounts ==
    ASSUME Books, OpenSemaphore
    PROVE  Accounts' /\ Family'
<1>. USE DEF Books
<1>1. Self # NULL /\ pc[Self] = "open" /\ "open" \in Working /\ "loop" \in Working
  BY DEF OpenSemaphore, At, Working
<1>2. sems[SEM_ID].active
  BY <1>1 DEF Family, Counting, Parents
<1>3. /\ Goto("loop") /\ UNCHANGED << k, sems, global, locals, pids, printed >>
  BY <1>2 DEF OpenSemaphore
<1>4. Harmless
  BY <1>3, HarmlessTurn
<1>5. Owes[Self] = N - iter[Self] - 0 /\ iter[Self] <= N /\ iter \in [Ctx -> Nat] /\ N \in Nat
  BY <1>1, TestSyncAssumption DEF Owes, Accounts, AccountsTyped
<1>6. UNCHANGED << global, inc, printed, pids, iter, aux >> /\ AccountsTyped'
  BY <1>3 DEF locals, Accounts, AccountsTyped
<1>7. Accounts'
  BY <1>1, <1>3, <1>4, <1>5, <1>6, WorkerAccounts DEF Inside
<1>. QED
  BY <1>1, <1>3, <1>4, <1>6, <1>7, WorkerFamily

LEMMA EnterAccounts ==
    ASSUME Books, EnterLoop
    PROVE  Accounts' /\ Family'
<1>. USE DEF Books
<1>1. Self # NULL /\ pc[Self] = "loop" /\ "loop" \in Working
  BY DEF EnterLoop, At, Working
<1>2. iter[Self] <= N /\ iter \in [Ctx -> Nat] /\ N \in Nat /\ Owes[Self] = N - iter[Self] - 0
  BY <1>1, TestSyncAssumption DEF Accounts, AccountsTyped, Owes
<1>3. UNCHANGED << global, inc, printed, pids, iter, aux >> /\ AccountsTyped'
  BY DEF EnterLoop, locals, Accounts, AccountsTyped
<1>4. CASE iter[Self] = N
  <2>1. Goto("exit") /\ UNCHANGED << k, sems >>
    BY <1>4 DEF EnterLoop
  <2>2. "exit" \notin Working /\ "exit" \notin Inside
    BY DEF Working, Inside
  <2>3. Harmless
    BY <2>1, HarmlessTurn
  <2>4. Accounts'
    BY <1>1, <1>2, <1>3, <1>4, <2>1, <2>2, <2>3, WorkerAccounts
  <2>. QED BY <1>1, <1>3, <2>1, <2>3, <2>4, WorkerFamily
<1>5. CASE iter[Self] # N
  <2>1. At("loop") /\ Goto("read") /\ Becomes(SemWait(Now, SEM_ID))
    BY <1>5 DEF EnterLoop
  <2>2. Harmless
    BY <2>1, HarmlessWait
  <2>3. "read" \in Working /\ iter[Self] < N
    BY <1>2, <1>5 DEF Working, Inside
  <2>4. Accounts'
    BY <1>1, <1>2, <1>3, <2>1, <2>2, <2>3, WorkerAccounts
  <2>. QED BY <1>1, <1>3, <2>1, <2>2, <2>3, <2>4, WorkerFamily
<1>. QED
  BY <1>4, <1>5

LEMMA ReadAccounts ==
    ASSUME Books, ReadGlobal
    PROVE  Accounts' /\ Family'
<1>. USE DEF Books
<1>1. Self # NULL /\ pc[Self] = "read" /\ {"read", "yield"} \subseteq Working /\ "read" \in Inside
  BY DEF ReadGlobal, At, Working, Inside
<1>2. iter[Self] < N /\ iter \in [Ctx -> Nat] /\ N \in Nat /\ Owes[Self] = N - iter[Self] - 0
  BY <1>1, TestSyncAssumption DEF Accounts, AccountsTyped, Owes
<1>3. /\ Goto("yield") /\ UNCHANGED << k, sems, global, inc, printed, pids, iter >>
      /\ aux' = [aux EXCEPT ![Self] = global]
  BY DEF ReadGlobal
<1>4. AccountsTyped' /\ aux'[Self] = global /\ \A d \in Ctx : d # Self => aux'[d] = aux[d]
  BY <1>3 DEF Accounts, AccountsTyped
<1>5. Harmless /\ k'.status[Self] # "BLOCKED"
  <2>1. Harmless
    BY <1>3, HarmlessTurn
  <2>2. k.status[Self] = "RUNNING"
    BY <1>1, Runner
  <2>. QED BY <1>3, <2>1, <2>2
<1>6. Accounts'
  BY <1>1, <1>2, <1>3, <1>4, <1>5, WorkerAccounts
<1>. QED
  BY <1>1, <1>3, <1>5, <1>6, WorkerFamily

LEMMA YieldAccounts ==
    ASSUME Books, YieldInside
    PROVE  Accounts' /\ Family'
<1>. USE DEF Books
<1>1. /\ Self # NULL /\ pc[Self] = "yield" /\ {"yield", "write"} \subseteq Working
      /\ "yield" \in Inside
  BY DEF YieldInside, At, Working, Inside
<1>2. /\ iter[Self] < N /\ iter \in [Ctx -> Nat] /\ N \in Nat /\ Owes[Self] = N - iter[Self] - 0
      /\ aux[Self] = global
  BY <1>1, TestSyncAssumption DEF Accounts, AccountsTyped, Owes
<1>3. Goto("write") /\ k' = Yield(k) /\ sems' = sems
  BY DEF YieldInside
<1>4. UNCHANGED << global, inc, printed, pids, iter, aux >> /\ AccountsTyped'
  BY DEF YieldInside, locals, Accounts, AccountsTyped
<1>5. Harmless /\ k'.status[Self] # "BLOCKED"
  <2>1. Harmless /\ (k'.status[Self] = "BLOCKED" => k.status[Self] = "BLOCKED")
    BY <1>3, HarmlessTurn
  <2>2. k.status[Self] = "RUNNING"
    BY <1>1, Runner
  <2>. QED BY <2>1, <2>2
<1>6. Accounts'
  BY <1>1, <1>2, <1>3, <1>4, <1>5, WorkerAccounts
<1>. QED
  BY <1>1, <1>3, <1>4, <1>5, <1>6, WorkerFamily

LEMMA LeaveAccounts ==
    ASSUME Books, LeaveLoop
    PROVE  Accounts' /\ Family'
<1>. USE DEF Books
<1>1. Self # NULL /\ pc[Self] = "post" /\ {"post", "loop"} \subseteq Working /\ "post" \in Inside
  BY DEF LeaveLoop, At, Working, Inside
<1>2. iter[Self] < N /\ iter \in [Ctx -> Nat] /\ N \in Nat /\ Owes[Self] = N - iter[Self] - 1
  BY <1>1, TestSyncAssumption DEF Accounts, AccountsTyped, Owes
<1>3. /\ Goto("loop") /\ Becomes(SemPost(Now, SEM_ID))
      /\ UNCHANGED << global, inc, printed, pids, aux >>
      /\ iter' = [iter EXCEPT ![Self] = @ + 1]
  BY DEF LeaveLoop
<1>4. /\ AccountsTyped' /\ iter'[Self] = iter[Self] + 1
      /\ \A d \in Ctx : d # Self => iter'[d] = iter[d]
  BY <1>2, <1>3 DEF Accounts, AccountsTyped
<1>5. Harmless
  BY <1>3, HarmlessPost
<1>6. Owes[Self] = N - iter'[Self] - 0 /\ iter'[Self] <= N
  BY <1>2, <1>4
<1>7. Accounts'
  BY <1>1, <1>3, <1>4, <1>5, <1>6, WorkerAccounts DEF Inside
<1>. QED
  BY <1>1, <1>3, <1>5, <1>7, WorkerFamily

\* The write: what it read is still the value of the variable, because nobody
\* else is between sem_wait and sem_post.
LEMMA WriteAccounts ==
    ASSUME Books, WriteGlobal
    PROVE  Accounts' /\ Family'
<1>. USE DEF Books
<1>1. /\ Self # NULL /\ pc[Self] = "write" /\ {"write", "post"} \subseteq Working
      /\ {"write", "post"} \subseteq Inside /\ "post" \in Labels /\ k.status[Self] = "RUNNING"
  <2>1. Self # NULL /\ pc[Self] = "write"
    BY DEF WriteGlobal, At
  <2>2. k.status[Self] = "RUNNING"
    BY <2>1, Runner
  <2>. QED BY <2>1, <2>2 DEF Working, Inside, Labels
<1>2. /\ iter[Self] < N /\ iter \in [Ctx -> Nat] /\ N \in Nat /\ Owes[Self] = N - iter[Self] - 0
      /\ aux[Self] = global /\ inc[Self] \in {-1, 1} /\ global \in Int
  BY <1>1, TestSyncAssumption DEF Accounts, AccountsTyped, Owes
<1>3. /\ Goto("post") /\ UNCHANGED << k, sems, aux, iter, inc, printed, pids >>
      /\ global' = global + inc[Self]
  BY <1>2 DEF WriteGlobal, locals
<1>4. pc'[Self] = "post" /\ \A d \in Ctx : d # Self => pc'[d] = pc[d]
  BY <1>1, <1>3, SelfGoes
<1>5. Harmless
  BY <1>3, HarmlessTurn
<1>6. ASSUME NEW d \in Ctx, d # Self, pc[d] \in {"yield", "write"} PROVE FALSE
  <2>1. k.status[d] \in {"READY", "RUNNING"}
    <3>1. k.status[d] # "BLOCKED"
      BY <1>6 DEF Accounts
    <3>2. k.status[d] # "FREED" /\ Inv(k) /\ Undead(k)
      BY <1>6 DEF SyncState, Peaceful, Orderly, Programmed
    <3>3. k.status[d] \in Live
      BY <3>2, LiveOrFreed
    <3>. QED BY <3>1, <3>3 DEF Live
  <2>2. InCriticalSection(d) /\ InCriticalSection(Self)
    BY <1>1, <1>6, <2>1 DEF InCriticalSection
  <2>3. MutualExclusion
    BY AloneInside
  <2>. QED BY <1>6, <2>2, <2>3 DEF MutualExclusion
<1>7. Debt(Owes, inc)' = Debt(Owes, inc) - inc[Self] /\ Debt(Owes, inc) \in Int
  <2>1. Owes'[Self] = Owes[Self] - 1 /\ Owes[Self] \in 1 .. N
    BY <1>1, <1>2, <1>3, <1>4 DEF Owes
  <2>2. \A d \in Ctx : d # Self => Owes'[d] = Owes[d]
    BY <1>3, <1>4 DEF Owes
  <2>. DEFINE owes2 == Owes'
  <2>3. owes2[Self] = Owes[Self] - 1 /\ \A d \in Ctx : d # Self => owes2[d] = Owes[d]
    BY <2>1, <2>2
  <2>. HIDE DEF owes2
  <2>4. Debt(owes2, inc) = Debt(Owes, inc) - inc[Self]
    BY <1>2, <2>1, <2>3, OnePaid
  <2>5. Debt(Owes, inc)' = Debt(owes2, inc)
    BY <1>3 DEF owes2, Debt, Shares
  <2>6. Debt(Owes, inc) \in Int
    BY SharesFinite DEF Debt
  <2>. QED BY <2>4, <2>5, <2>6
<1>8. Balanced'
  <2>1. ASSUME NEW c \in Ctx, pc'[c] \in {"shell", "create"} PROVE global' = 0
    <3>1. pc[c] = pc'[c] /\ c # Self
      BY <1>4, <2>1
    <3>2. pc[Self] \in {"shellWait", "prompt", "none"}
      BY <2>1, <3>1 DEF SyncState, InTurn
    <3>. QED BY <1>1, <3>2
  <2>2. ASSUME NEW c \in Ctx, pc'[c] \in Counting PROVE global' + Debt(Owes, inc)' = Due(c)'
    <3>1. pc[c] = pc'[c]
      BY <1>4, <2>2 DEF Counting
    <3>2. global + Debt(Owes, inc) = Due(c) /\ Due(c)' = Due(c)
      BY <1>3, <2>2, <3>1 DEF Accounts, Balanced, Due
    <3>. QED BY <1>2, <1>3, <1>7, <3>2
  <2>. QED BY <2>1, <2>2 DEF Balanced
<1>9. Accounts'
  <2>1. AccountsTyped'
    BY <1>2, <1>3 DEF Accounts, AccountsTyped
  <2>2. \A d \in Ctx : pc'[d] \in Working => inc'[d] \in {-1, 1} /\ iter'[d] <= N
    BY <1>1, <1>2, <1>3, <1>4 DEF Accounts
  <2>3. \A d \in Ctx : pc'[d] \in Inside => iter'[d] < N
    BY <1>1, <1>2, <1>3, <1>4 DEF Accounts
  <2>4. \A d \in Ctx : pc'[d] \in {"yield", "write"} => aux'[d] = global'
    BY <1>4, <1>6
  <2>5. \A d \in Ctx : pc'[d] \in {"yield", "write", "post"} => k'.status[d] # "BLOCKED"
    BY <1>1, <1>3, <1>4 DEF Accounts
  <2>6. printed' # NULL => printed' = 0
    BY <1>3 DEF Accounts
  <2>. QED BY <1>8, <2>1, <2>2, <2>3, <2>4, <2>5, <2>6 DEF Accounts
<1>. QED
  BY <1>1, <1>3, <1>5, <1>9, WorkerFamily

-----------------------------------------------------------------------------
(***************************************************************************)
(* The steps of the shell and of test_sync.                                *)
(***************************************************************************)

\* When test_sync runs, it waits in no list: no worker is left at the end.
LEMMA RunsAwaitNobody ==
    ASSUME SyncState(k, sems, pc), Self \in Ctx, Self # NULL, NEW w \in Ctx, pc[w] # "none"
    PROVE  Self \notin ToSet(k.waitingList[w])
<1>1. k.status[Self] = "RUNNING" /\ k.status[w] # "FREED" /\ WaitersApart(k, Place(pc))
  BY Runner DEF SyncState, Programmed, Peaceful
<1>. QED
  BY <1>1 DEF WaitersApart

\* The steps of a process that is not a worker, nor becomes one.
LEMMA OtherAccounts ==
    ASSUME SyncState(k, sems, pc), Accounts, Self \in Ctx, pc[Self] \notin Working,
           NEW label \in {"none", "prompt", "wait", "print", "exit"},
           pc'[Self] = label, label \in Counting => pc[Self] = "wait",
           \A d \in Ctx : d # Self => pc'[d] = pc[d],
           UNCHANGED << global, inc, printed, aux, iter >>, AccountsTyped',
           OnlyBlocks(k, k', Self),
           \A d \in Ctx : d # Self => pids'[d] = pids[d]
    PROVE  Accounts'
<1>1. /\ label \notin Working /\ label \notin Inside
      /\ label \notin {"yield", "write", "post", "shell", "create", "spawn"}
  BY DEF Working, Inside
<1>2. Owes' = Owes
  BY <1>1 DEF Owes
<1>3. \A d \in Ctx : d # Self => (k'.status[d] = "BLOCKED" => k.status[d] = "BLOCKED")
  BY DEF OnlyBlocks
<1>. QED
  BY <1>1, <1>2, <1>3, AccountsFrame

LEMMA ExitAccounts ==
    ASSUME Books, Exit
    PROVE  Accounts' /\ Family'
<1>. USE DEF Books
<1>. DEFINE home == Place(pc)
<1>1. /\ Self # NULL /\ pc[Self] = "exit" /\ "exit" \notin Working /\ "none" \in Labels
      /\ SyscallExit /\ Goto("none")
      /\ UNCHANGED << global, inc, printed, pids, iter, aux >> /\ sems' = sems
  BY DEF Exit, At, Working, Inside, Labels, Outside, locals
<1>2. pc'[Self] = "none" /\ \A d \in Ctx : d # Self => pc'[d] = pc[d]
  BY <1>1, SelfGoes
<1>3. /\ k.status[Self] = "RUNNING" /\ Inv(k) /\ k.pid[Self] # IDLE_PID /\ k.currentPid = k.pid[Self]
      /\ -1 \notin SemIds /\ SEM_ID \in SemIds
  BY <1>1, Runner
<1>4. Peaceful(k, sems, home) /\ AtConsole(k)
  BY DEF SyncState
<1>5. k.pid[Self] \in Targets /\ Self = k.currentProcess
  BY <1>1, <1>3 DEF SyscallExit, Self
<1>6. PipedFd(k, Self) = -1 /\ home[Self] \notin SemIds
  BY <1>1, <1>3, <1>4, NoPeer DEF Live, Place, Inside
<1>7. PICK u \in KillProcess(k, k.pid[Self]) : k' = Yield(u)
  BY <1>1, <1>5 DEF SyscallExit
<1>. HIDE DEF home
<1>8. KeepsLists(k, k')
  BY <1>4, <1>5, <1>6, <1>7, ExitKeepsLists
<1>9. OnlyBlocks(k, k', Self)
  BY <1>3, <1>4, <1>5, <1>6, <1>7, PeacefulExit
<1>10. \A d \in Ctx \ {Self} : k'.pid[d] = k.pid[d]
  BY <1>3, <1>4, <1>5, <1>6, <1>7, PeacefulExit
<1>11. AccountsTyped'
  BY <1>1 DEF Accounts, AccountsTyped
<1>12. Accounts'
  BY <1>1, <1>2, <1>9, <1>11, OtherAccounts DEF Counting
<1>13. Family'
  <2>1. \A w \in Ctx : pc'[w] \in Working =>
            /\ k'.pid[w] = k.pid[w]
            /\ \A x \in ToSet(k.waitingList[w]) : x \in ToSet(k'.waitingList[w])
    <3>1. "none" \notin Working
      BY DEF Working, Inside
    <3>. QED BY <1>2, <1>8, <1>10, <3>1, WorkersKept
  <2>2. {"exit", "none"} \cap (Parents \cup {"shell", "shellWait"}) = {} /\ "none" \notin Working
    BY DEF Parents, Working, Inside
  <2>. QED BY <1>1, <1>2, <2>1, <2>2, FamilyFrame
<1>. QED
  BY <1>12, <1>13

LEMMA ShellWaitAccounts ==
    ASSUME Books, ShellWait
    PROVE  Accounts' /\ Family'
<1>. USE DEF Books
<1>. DEFINE home == Place(pc)
<1>1. /\ Self # NULL /\ pc[Self] = "shellWait" /\ "shellWait" \notin Working /\ "prompt" \in Labels
      /\ k' = WaitProcess(k, Head(pids[Self])) /\ Goto("prompt")
      /\ pids' = [pids EXCEPT ![Self] = Tail(@)]
      /\ UNCHANGED << global, inc, printed, iter, aux >> /\ sems' = sems
  BY DEF ShellWait, WaitChild, At, Working, Inside, Labels, Outside, locals
<1>2. pc'[Self] = "prompt" /\ \A d \in Ctx : d # Self => pc'[d] = pc[d]
  BY <1>1, SelfGoes
<1>3. Inv(k) /\ Undead(k) /\ k.pid[Self] # IDLE_PID /\ -1 \notin SemIds /\ Self = k.currentProcess
  BY <1>1, Runner DEF Self
<1>4. Peaceful(k, sems, home) /\ home[Self] \notin SemIds
  BY <1>1, <1>3 DEF SyncState, Place, Inside
<1>. HIDE DEF home
<1>5. OnlyBlocks(k, k', Self)
  BY <1>1, <1>3, <1>4, PeacefulWaitProcess
<1>6. \A d \in Ctx : k'.pid[d] = k.pid[d]
  BY <1>1, <1>3, <1>4, PeacefulWaitProcess
<1>7. ASSUME NEW w \in Ctx, pc'[w] \in Working, NEW x \in ToSet(k.waitingList[w])
      PROVE  x \in ToSet(k'.waitingList[w])
  <2>1. pc[w] # "none"
    BY <1>2, <1>7 DEF Working, Inside
  <2>2. k.status[w] # "FREED"
    BY <2>1 DEF SyncState, Programmed
  <2>3. \A y \in ToSet(k.waitingList[w]) : y \in ToSet(k'.waitingList[w])
    <3>1. k' = WaitProcess(k, Head(pids[Self])) /\ Self \in Ctx
      BY <1>1
    <3>. QED BY <1>3, <2>2, <3>1, WaitJoins
  <2>. QED BY <1>7, <2>3
<1>8. AccountsTyped' /\ \A d \in Ctx : d # Self => pids'[d] = pids[d]
  <2>1. pids \in [Ctx -> Seq(Pids)]
    BY DEF Accounts, AccountsTyped
  <2>2. pids[Self] # << >>
    BY <1>1 DEF Family
  <2>3. Tail(pids[Self]) \in Seq(Pids)
    BY <2>1, <2>2
  <2>. QED BY <1>1, <2>1, <2>3 DEF Accounts, AccountsTyped
<1>9. Accounts'
  BY <1>1, <1>2, <1>5, <1>8, OtherAccounts DEF Counting
<1>10. \A c \in Ctx : pc[c] # "shell"
  <2>1. ASSUME NEW c \in Ctx, pc[c] = "shell" PROVE FALSE
    <3>1. c # Self
      BY <1>1, <2>1
    <3>. QED BY <1>1, <2>1, <3>1 DEF SyncState, InTurn
  <2>. QED BY <2>1
<1>11. Family'
  <2>1. /\ "shellWait" \notin Parents \cup {"shell"} /\ "prompt" \notin Working
        /\ "prompt" \notin Parents \cup {"shell", "shellWait"}
    BY DEF Parents, Working, Inside
  <2>. QED BY <1>1, <1>2, <1>6, <1>7, <1>8, <1>10, <2>1, FamilyFrame
<1>. QED
  BY <1>9, <1>11

\* createProcess by a program: one more process, which nobody waits for yet, its
\* pid at the end of those that its parent has to wait for.
LEMMA SpawnMoves ==
    ASSUME SyncState(k, sems, pc), Self # NULL, pc[Self] # "none", AccountsTyped,
           NEW c \in Ctx, NEW entry, NEW next, Spawn(c, FOREGROUND, entry, next)
    PROVE  /\ c # Self /\ pc[c] = "none"
           /\ pc'[c] = entry /\ pc'[Self] = next
           /\ \A d \in Ctx : d # c /\ d # Self => pc'[d] = pc[d]
           /\ pids' \in [Ctx -> Seq(Pids)] /\ iter' \in [Ctx -> Nat] /\ aux' \in [Ctx -> Int]
           /\ pids'[Self] = Append(pids[Self], k'.pid[c])
           /\ \A d \in Ctx : d # Self => pids'[d] = pids[d]
           /\ iter'[c] = 0 /\ aux'[c] = 0
           /\ \A d \in Ctx : d # c =>
                /\ iter'[d] = iter[d] /\ aux'[d] = aux[d]
                /\ k'.pid[d] = k.pid[d] /\ k'.status[d] = k.status[d]
                /\ k'.waitingList[d] = k.waitingList[d]
<1>1. Self \in Ctx /\ k.status[Self] = "RUNNING" /\ Inv(k) /\ k \in Kernel
  BY Runner DEF Inv, Common
<1>2. k.status[c] = "FREED" /\ c # Self /\ pc[c] = "none"
  <2>1. k.status[c] = "FREED"
    BY DEF Spawn
  <2>. QED BY <1>1, <2>1 DEF SyncState, Programmed
<1>3. PICK pid \in Pids :
        /\ IsMinFreePid(k, pid) /\ k' = CreateProcess(k, c, pid, Console(FOREGROUND))
        /\ pids' = [pids EXCEPT ![Self] = Append(@, pid)]
  BY DEF Spawn
<1>4. Console(FOREGROUND) \in AnyProgram
  <2>1. << STDIN, STDOUT >> \in FdPairs /\ FOREGROUND \in Grounds
    BY DEF FdPairs, Grounds
  <2>2. 1 \in Priorities
    BY SchedulerAssumption DEF Priorities, MIN_PRIORITY
  <2>. QED BY <2>1, <2>2 DEF Console, AnyProgram
<1>5. k'.pid[c] = pid
  BY <1>1, <1>2, <1>3, <1>4, ProcessCreated
<1>6. \A d \in Ctx : d # c => k'.pid[d] = k.pid[d] /\ k'.status[d] = k.status[d]
  BY <1>1, <1>2, <1>3, <1>4, ProcessCreated
<1>7. \A d \in Ctx : d # c => k'.waitingList[d] = k.waitingList[d]
  BY <1>1, <1>3, CreateWaitingList
<1>8. /\ pc'[c] = entry /\ pc'[Self] = next
      /\ \A d \in Ctx : d # c /\ d # Self => pc'[d] = pc[d]
  <2>1. pc' = [pc EXCEPT ![c] = entry, ![Self] = next] /\ pc \in [Ctx -> Labels]
    BY DEF Spawn, SyncState
  <2>. QED BY <1>1, <1>2, <2>1
<1>9. /\ pids' \in [Ctx -> Seq(Pids)] /\ pids'[Self] = Append(pids[Self], pid)
      /\ \A d \in Ctx : d # Self => pids'[d] = pids[d]
  <2>1. pids \in [Ctx -> Seq(Pids)] /\ Append(pids[Self], pid) \in Seq(Pids)
    BY <1>1 DEF AccountsTyped
  <2>. QED BY <1>1, <1>3, <2>1
<1>10. /\ iter' \in [Ctx -> Nat] /\ aux' \in [Ctx -> Int] /\ iter'[c] = 0 /\ aux'[c] = 0
       /\ \A d \in Ctx : d # c => iter'[d] = iter[d] /\ aux'[d] = aux[d]
  BY DEF Spawn, AccountsTyped
<1>. QED
  BY <1>2, <1>5, <1>6, <1>7, <1>8, <1>9, <1>10

\* The parts of the family after a step.
LEMMA FamilyNext ==
    ASSUME \A c, d \in Ctx : pc'[c] \in Parents /\ pc'[d] \in Parents => c = d,
           \A c \in Ctx : pc'[c] \in Parents \ {"create"} => sems'[SEM_ID].active,
           \A c \in Ctx : /\ pc'[c] \in {"wait", "shellWait"} => pids'[c] # << >>
                          /\ pc'[c] \in {"create", "print"} => pids'[c] = << >>,
           \A c \in Ctx : pc'[c] = "shell" => \A d \in Ctx : pids'[d] = << >>,
           \A w \in Ctx : pc'[w] \in Working =>
                \E c \in Ctx : pc'[c] \in Counting /\ Awaited(w, c)'
    PROVE  Family'
BY DEF Family

\* The shell starts test_sync: there is no worker, and the variable is 0.
LEMMA StartAccounts ==
    ASSUME Books, ShellStart
    PROVE  Accounts' /\ Family'
<1>. USE DEF Books
<1>1. PICK c \in Ctx : Spawn(c, FOREGROUND, "create", "shellWait")
  BY DEF ShellStart
<1>2. /\ Self # NULL /\ pc[Self] = "shell"
      /\ UNCHANGED << sems, global, inc, printed >>
  BY DEF ShellStart, At
<1>3. AccountsTyped /\ global = 0 /\ \A d \in Ctx \ {Self} : pc[d] = "none"
  BY <1>2 DEF Accounts, Balanced, SyncState, InTurn
<1>4. /\ c # Self /\ pc'[c] = "create" /\ pc'[Self] = "shellWait"
      /\ \A d \in Ctx : d # c /\ d # Self => pc'[d] = pc[d]
      /\ pids' \in [Ctx -> Seq(Pids)] /\ iter' \in [Ctx -> Nat] /\ aux' \in [Ctx -> Int]
  BY <1>1, <1>2, <1>3, SpawnMoves
<1>5. pids'[Self] = Append(pids[Self], k'.pid[c]) /\ pids'[c] = pids[c]
  BY <1>1, <1>2, <1>3, <1>4, SpawnMoves
<1>6. \A d \in Ctx : d # c /\ d # Self => pc'[d] = "none"
  BY <1>3, <1>4
<1>7. /\ {"create", "shellWait", "none"} \cap Working = {}
      /\ {"create", "shellWait", "none"} \cap Counting = {}
      /\ "shellWait" \notin Parents /\ "none" \notin Parents
  BY DEF Working, Inside, Counting, Parents
<1>8. \A d \in Ctx : pc'[d] \in {"create", "shellWait", "none"}
  BY <1>4, <1>6
<1>9. \A d \in Ctx : pc'[d] \notin Working /\ pc'[d] \notin Inside /\ pc'[d] \notin Counting
  BY <1>7, <1>8 DEF Working
<1>10. Accounts'
  <2>1. AccountsTyped'
    BY <1>2, <1>3, <1>4 DEF AccountsTyped
  <2>2. Balanced'
    BY <1>2, <1>3, <1>9 DEF Balanced
  <2>3. printed' # NULL => printed' = 0
    BY <1>2 DEF Accounts
  <2>. QED BY <1>8, <1>9, <2>1, <2>2, <2>3 DEF Accounts
<1>11. Family'
  <2>1. pids'[c] = << >> /\ pids'[Self] # << >>
    <3>1. pids[c] = << >> /\ pids[Self] = << >>
      BY <1>2 DEF Family
    <3>2. Append(<< >>, k'.pid[c]) # << >>
      OBVIOUS
    <3>. QED BY <1>5, <3>1, <3>2
  <2>2. \A d \in Ctx : pc'[d] \in Parents => d = c
    BY <1>4, <1>6, <1>7
  <2>3. \A d \in Ctx : pc'[d] # "wait" /\ pc'[d] # "print" /\ pc'[d] # "shell"
    BY <1>8
  <2>4. \A d \in Ctx : pc'[d] = "shellWait" => d = Self
    BY <1>4, <1>6
  <2>5. \A d \in Ctx : /\ pc'[d] \in {"wait", "shellWait"} => pids'[d] # << >>
                       /\ pc'[d] \in {"create", "print"} => pids'[d] = << >>
    BY <1>7, <2>1, <2>2, <2>3, <2>4 DEF Parents
  <2>6. \A d \in Ctx : pc'[d] \notin Parents \ {"create"}
    BY <1>4, <2>2
  <2>7. \A d, x \in Ctx : pc'[d] \in Parents /\ pc'[x] \in Parents => d = x
    BY <2>2
  <2>8. \A d \in Ctx : pc'[d] = "shell" => \A x \in Ctx : pids'[x] = << >>
    BY <2>3
  <2>9. \A w \in Ctx : pc'[w] \in Working =>
            \E x \in Ctx : pc'[x] \in Counting /\ Awaited(w, x)'
    BY <1>9
  <2>. QED BY <2>5, <2>6, <2>7, <2>8, <2>9, FamilyNext
<1>. QED
  BY <1>10, <1>11

\* test_sync creates the semaphore: still no worker.
LEMMA CreateAccounts ==
    ASSUME Books, CreateSemaphore
    PROVE  Accounts' /\ Family'
<1>. USE DEF Books
<1>1. /\ Self # NULL /\ pc[Self] = "create" /\ Goto("spawn") /\ "spawn" \in Labels
      /\ Becomes(SemCreate(Now, SEM_ID, 1))
      /\ UNCHANGED << global, inc, iter, aux, pids, printed >>
  BY DEF CreateSemaphore, At, Labels, Outside, locals
<1>2. pc'[Self] = "spawn" /\ \A d \in Ctx : d # Self => pc'[d] = pc[d]
  BY <1>1, SelfGoes
<1>3. \A d \in Ctx : d # Self => pc'[d] \in {"shellWait", "prompt", "none"}
  BY <1>1, <1>2 DEF SyncState, InTurn
<1>4. /\ {"spawn", "shellWait", "prompt", "none"} \cap Working = {}
      /\ {"shellWait", "prompt", "none"} \cap (Counting \cup Parents) = {}
  BY DEF Working, Inside, Counting, Parents
<1>5. \A d \in Ctx : pc'[d] \notin Working /\ pc'[d] \notin Inside
  BY <1>2, <1>3, <1>4 DEF Working
<1>6. sems'[SEM_ID].active
  <2>1. sems \in [SemIds -> Semaphore] /\ SEM_ID \in SemIds
    BY <1>1, Runner
  <2>2. CASE sems[SEM_ID].active
    BY <1>1, <2>2 DEF Becomes, SemCreate, Now
  <2>3. CASE ~ sems[SEM_ID].active
    <3>1. sems' = [sems EXCEPT ![SEM_ID] = Fresh(1)]
      BY <1>1, <2>3 DEF Becomes, SemCreate, Now, Fresh
    <3>. QED BY <2>1, <3>1 DEF Fresh
  <2>. QED BY <2>2, <2>3
<1>7. global = 0 /\ pids[Self] = << >>
  BY <1>1 DEF Accounts, Balanced, Family
<1>8. Balanced'
  <2>1. Debt(Owes, inc)' = 0
    <3>. DEFINE owes == Owes'
    <3>1. \A c \in Ctx : owes[c] = 0
      BY <1>5 DEF Owes
    <3>. HIDE DEF owes
    <3>2. Debt(owes, inc') = 0
      BY <3>1, NothingOwed
    <3>. QED BY <3>2 DEF owes, Debt, Shares
  <2>2. ASSUME NEW c \in Ctx, c = Self PROVE Due(c)' = 0
    <3>1. Len(pids'[c]) = 0
      BY <1>1, <1>7, <2>2
    <3>2. ~ (Len(pids'[c]) % 2 = 1)
      BY <3>1
    <3>. QED BY <3>2 DEF Due
  <2>3. ASSUME NEW c \in Ctx
        PROVE  /\ pc'[c] \in {"shell", "create"} => global' = 0
               /\ pc'[c] \in Counting => global' + Debt(Owes, inc)' = Due(c)'
    <3>1. pc'[c] \in Counting => c = Self
      BY <1>3, <1>4
    <3>. QED BY <1>1, <1>7, <2>1, <2>2, <3>1
  <2>. QED BY <2>3 DEF Balanced
<1>9. Accounts'
  <2>1. AccountsTyped' /\ (printed' # NULL => printed' = 0)
    BY <1>1 DEF Accounts, AccountsTyped
  <2>2. \A d \in Ctx : pc'[d] \notin {"yield", "write", "post"}
    BY <1>5 DEF Inside
  <2>. QED BY <1>5, <1>8, <2>1, <2>2 DEF Accounts
<1>10. Family'
  <2>1. \A c, d \in Ctx : pc'[c] \in Parents /\ pc'[d] \in Parents => c = d
    BY <1>3, <1>4
  <2>2. \A c \in Ctx : /\ pc'[c] \in {"wait", "shellWait"} => pids'[c] # << >>
                       /\ pc'[c] \in {"create", "print"} => pids'[c] = << >>
    BY <1>1, <1>2, <1>3 DEF Family
  <2>3. \A c \in Ctx : pc'[c] # "shell"
    BY <1>2, <1>3
  <2>. QED BY <1>5, <1>6, <2>1, <2>2, <2>3, FamilyNext
<1>. QED
  BY <1>9, <1>10

\* The pids that are waited for are not all different.
LEMMA PidsAppend ==
    ASSUME NEW list \in Seq(Pids), NEW pid \in Pids
    PROVE  /\ pid \in ToSet(Append(list, pid))
           /\ \A p \in ToSet(list) : p \in ToSet(Append(list, pid))
<1>. DEFINE r == Append(list, pid)
<1>1. /\ Len(list) \in Nat /\ Len(r) = Len(list) + 1 /\ DOMAIN r = 1 .. Len(r)
      /\ DOMAIN list = 1 .. Len(list)
      /\ r[Len(list) + 1] = pid /\ \A i \in 1 .. Len(list) : r[i] = list[i]
  OBVIOUS
<1>. HIDE DEF r
<1>2. pid \in ToSet(r)
  BY <1>1 DEF ToSet
<1>3. ASSUME NEW p \in ToSet(list) PROVE p \in ToSet(r)
  <2>1. PICK i \in 1 .. Len(list) : p = list[i]
    BY <1>1 DEF ToSet
  <2>2. i \in 1 .. Len(r) /\ p = r[i]
    BY <1>1, <2>1
  <2>. QED BY <1>1, <2>2 DEF ToSet
<1>. QED
  BY <1>2, <1>3 DEF r

LEMMA PidsTail ==
    ASSUME NEW list \in Seq(Pids), NEW p \in ToSet(list), p # Head(list)
    PROVE  /\ p \in ToSet(Tail(list))
           /\ Len(list) # 1
<1>. DEFINE r == Tail(list)
<1>1. PICK i \in 1 .. Len(list) : p = list[i]
  BY DEF ToSet
<1>2. /\ Len(list) \in Nat /\ Len(list) = Len(r) + 1 /\ DOMAIN r = 1 .. Len(r)
      /\ list[1] = Head(list) /\ \A n \in 1 .. Len(r) : r[n] = list[n + 1]
  BY <1>1
<1>3. i # 1
  BY <1>1, <1>2
<1>. HIDE DEF r
<1>4. i - 1 \in 1 .. Len(r) /\ r[i - 1] = p
  BY <1>1, <1>2, <1>3
<1>5. p \in ToSet(r)
  BY <1>2, <1>4 DEF ToSet
<1>. QED
  BY <1>2, <1>4, <1>5 DEF r

LEMMA NoPids ==
    ASSUME NEW list \in Seq(Pids)
    PROVE  list = << >> <=> Len(list) = 0
OBVIOUS

\* Workers come in pairs.
LEMMA Parity ==
    ASSUME NEW m \in Nat
    PROVE  /\ m % 2 \in {0, 1}
           /\ (m + 1) % 2 = 1 <=> m % 2 = 0
           /\ m + 1 = 2 * PAIRS => m % 2 = 1
<1>1. PAIRS \in Int
  BY TestSyncAssumption
<1>. QED
  BY <1>1

\* A new worker: a decrementer that leaves test_sync owed an incrementer, or
\* the incrementer, and only then it may be the last.
LEMMA WorkerBegins ==
    ASSUME Books, SpawnWorker
    PROVE  Accounts' /\ Family'
<1>. USE DEF Books
<1>. DEFINE made == Len(pids[Self])
            next == IF made + 1 = 2 * PAIRS THEN "wait" ELSE "spawn"
<1>1. /\ Self # NULL /\ pc[Self] = "spawn"
      /\ UNCHANGED << sems, global, printed >>
  BY DEF SpawnWorker, At
<1>2. PICK c \in Ctx : /\ Spawn(c, FOREGROUND, "open", next)
                       /\ inc' = [inc EXCEPT ![c] = IF made % 2 = 0 THEN -1 ELSE 1]
  BY DEF SpawnWorker
<1>3. AccountsTyped /\ made \in Nat /\ pids[Self] \in Seq(Pids) /\ N \in Nat /\ PAIRS \in Nat
  <2>1. AccountsTyped /\ N \in Nat /\ PAIRS \in Nat
    BY TestSyncAssumption DEF Accounts
  <2>2. pids[Self] \in Seq(Pids)
    BY <2>1 DEF AccountsTyped
  <2>. QED BY <2>1, <2>2
<1>4. next \in {"spawn", "wait"} /\ (next = "wait" => made % 2 = 1)
  BY <1>3, Parity
<1>. HIDE DEF next
<1>5. /\ c # Self /\ pc[c] = "none" /\ pc'[c] = "open" /\ pc'[Self] = next
      /\ \A d \in Ctx : d # c /\ d # Self => pc'[d] = pc[d]
      /\ pids' \in [Ctx -> Seq(Pids)] /\ iter' \in [Ctx -> Nat] /\ aux' \in [Ctx -> Int]
  BY <1>1, <1>2, <1>3, SpawnMoves
<1>6. /\ pids'[Self] = Append(pids[Self], k'.pid[c])
      /\ \A d \in Ctx : d # Self => pids'[d] = pids[d]
      /\ iter'[c] = 0
  BY <1>1, <1>2, <1>3, SpawnMoves
<1>7. \A d \in Ctx : d # c =>
            /\ iter'[d] = iter[d] /\ aux'[d] = aux[d]
            /\ k'.pid[d] = k.pid[d] /\ k'.status[d] = k.status[d]
            /\ k'.waitingList[d] = k.waitingList[d]
  BY <1>1, <1>2, <1>3, SpawnMoves
<1>8. /\ inc' \in [Ctx -> Int] /\ inc'[c] = (IF made % 2 = 0 THEN -1 ELSE 1)
      /\ \A d \in Ctx : d # c => inc'[d] = inc[d]
  BY <1>2, <1>3 DEF AccountsTyped
<1>9. /\ {"spawn", "wait", "none"} \cap Working = {} /\ "open" \in Working /\ "open" \notin Inside
      /\ "open" \notin Parents /\ {"spawn", "wait"} \subseteq Counting
      /\ {"spawn", "wait"} \cap Inside = {} /\ Counting \subseteq Parents \ {"create"}
  BY DEF Working, Inside, Parents, Counting
<1>10. \A d \in Ctx : pc[d] \in Parents => d = Self
  BY <1>1, <1>9 DEF Family
<1>11. \A d \in Ctx : pc'[d] \in Parents => d = Self
  BY <1>5, <1>9, <1>10
<1>12. Debt(Owes, inc)' = Debt(Owes, inc) + (IF inc'[c] = 1 THEN N ELSE -N)
  <2>. DEFINE owes2 == Owes'
              signs2 == inc'
  <2>1. Owes[c] = 0
    BY <1>5, <1>9 DEF Owes
  <2>2. owes2[c] = N
    BY <1>3, <1>5, <1>6, <1>9 DEF Owes
  <2>3. \A d \in Ctx : d # c => owes2[d] = Owes[d]
    <3>1. pc'[Self] \notin Working /\ pc[Self] \notin Working
      BY <1>1, <1>4, <1>5, <1>9
    <3>. QED BY <1>5, <1>7, <3>1 DEF Owes
  <2>4. signs2[c] \in {-1, 1} /\ \A d \in Ctx : d # c => signs2[d] = inc[d]
    BY <1>8
  <2>. HIDE DEF owes2, signs2
  <2>5. Debt(owes2, signs2) = Debt(Owes, inc) + (IF signs2[c] = 1 THEN N ELSE -N)
    BY <2>1, <2>2, <2>3, <2>4, AllOwed
  <2>6. Debt(Owes, inc)' = Debt(owes2, signs2)
    BY DEF owes2, signs2, Debt, Shares
  <2>. QED BY <2>5, <2>6 DEF signs2
<1>13. /\ global + Debt(Owes, inc) = (IF made % 2 = 1 THEN -N ELSE 0)
       /\ Debt(Owes, inc) \in Int /\ global \in Int
  <2>1. global + Debt(Owes, inc) = Due(Self)
    BY <1>1, <1>9 DEF Accounts, Balanced
  <2>2. Debt(Owes, inc) \in Int
    BY SharesFinite DEF Debt
  <2>. QED BY <1>1, <1>3, <2>1, <2>2 DEF Due, AccountsTyped
<1>14. Balanced'
  <2>1. ASSUME NEW d \in Ctx, d = Self PROVE Due(d)' = IF made % 2 = 0 THEN -N ELSE 0
    <3>1. Len(pids'[d]) = made + 1
      BY <1>3, <1>6, <2>1
    <3>. HIDE DEF made
    <3>2. Len(pids'[d]) % 2 = 1 <=> made % 2 = 0
      <4>1. (made + 1) % 2 = 1 <=> made % 2 = 0
        BY <1>3, Parity
      <4>. QED BY <3>1, <4>1
    <3>3. Due(d)' = IF next = "spawn" /\ Len(pids'[d]) % 2 = 1 THEN -N ELSE 0
      BY <1>5, <2>1 DEF Due
    <3>4. CASE made % 2 = 0
      <4>1. next = "spawn"
        BY <1>4, <3>4
      <4>. QED BY <3>2, <3>3, <3>4, <4>1
    <3>5. CASE made % 2 # 0
      BY <3>2, <3>3, <3>5
    <3>. QED BY <3>4, <3>5
  <2>2. global' + Debt(Owes, inc)' = IF made % 2 = 0 THEN -N ELSE 0
    <3>. DEFINE debt == Debt(Owes, inc)
                debt2 == Debt(Owes, inc)'
    <3>1. made % 2 = 0 => debt2 = debt + (-N)
      BY <1>8, <1>12
    <3>2. made % 2 # 0 => debt2 = debt + N
      BY <1>8, <1>12
    <3>3. made % 2 \in {0, 1}
      BY <1>3, Parity
    <3>. HIDE DEF made, debt, debt2
    <3>4. global + debt = (IF made % 2 = 1 THEN -N ELSE 0) /\ debt \in Int
      BY <1>13 DEF debt
    <3>5. global' + debt2 = IF made % 2 = 0 THEN -N ELSE 0
      BY <1>1, <1>3, <1>13, <3>1, <3>2, <3>3, <3>4
    <3>. QED BY <3>5 DEF debt2
  <2>3. ASSUME NEW d \in Ctx
        PROVE  /\ pc'[d] \in {"shell", "create"} => global' = 0
               /\ pc'[d] \in Counting => global' + Debt(Owes, inc)' = Due(d)'
    <3>1. pc'[d] \in Counting => d = Self
      BY <1>9, <1>11
    <3>2. pc'[d] \notin {"shell", "create"}
      <4>1. CASE d = c \/ d = Self
        BY <1>4, <1>5, <4>1
      <4>2. CASE d # c /\ d # Self /\ pc[d] \in {"shell", "create"}
        BY <1>1, <4>2 DEF SyncState, InTurn
      <4>. QED BY <1>5, <4>1, <4>2
    <3>. HIDE DEF made
    <3>3. d = Self => global' + Debt(Owes, inc)' = Due(d)'
      <4>1. SUFFICES ASSUME d = Self PROVE global' + Debt(Owes, inc)' = Due(d)'
        OBVIOUS
      <4>2. Due(d)' = IF made % 2 = 0 THEN -N ELSE 0
        BY <2>1, <4>1
      <4>. QED BY <2>2, <4>2
    <3>. QED BY <3>1, <3>2, <3>3
  <2>. QED BY <2>3 DEF Balanced
<1>. HIDE DEF made
<1>15. Accounts'
  <2>1. AccountsTyped'
    BY <1>1, <1>3, <1>5, <1>8 DEF AccountsTyped
  <2>2. ASSUME NEW d \in Ctx
        PROVE  /\ pc'[d] \in Working => inc'[d] \in {-1, 1} /\ iter'[d] <= N
               /\ pc'[d] \in Inside => iter'[d] < N
               /\ pc'[d] \in {"yield", "write"} => aux'[d] = global'
               /\ pc'[d] \in {"yield", "write", "post"} => k'.status[d] # "BLOCKED"
    <3>1. CASE d = c
      BY <1>3, <1>5, <1>6, <1>8, <1>9, <3>1
    <3>2. CASE d = Self
      BY <1>4, <1>5, <1>9, <3>2
    <3>3. CASE d # c /\ d # Self
      BY <1>1, <1>5, <1>7, <1>8, <3>3 DEF Accounts
    <3>. QED BY <3>1, <3>2, <3>3
  <2>3. printed' # NULL => printed' = 0
    BY <1>1 DEF Accounts
  <2>. QED BY <1>14, <2>1, <2>2, <2>3 DEF Accounts
<1>16. k'.pid[c] \in Pids
  <2>1. Inv(k') /\ k'.status[c] # "FREED"
    BY <1>5 DEF SyncState, Peaceful, Orderly, Programmed
  <2>. QED BY <2>1 DEF Inv, Common, Identity
<1>17. /\ k'.pid[c] \in ToSet(pids'[Self])
       /\ \A p \in ToSet(pids[Self]) : p \in ToSet(pids'[Self])
       /\ pids'[Self] # << >>
  BY <1>3, <1>6, <1>16, PidsAppend
<1>18. Family'
  <2>1. \A x, d \in Ctx : pc'[x] \in Parents /\ pc'[d] \in Parents => x = d
    BY <1>11
  <2>2. \A d \in Ctx : pc'[d] \in Parents \ {"create"} => sems'[SEM_ID].active
    BY <1>1, <1>9 DEF Family
  <2>3. ASSUME NEW d \in Ctx
        PROVE  /\ pc'[d] \in {"wait", "shellWait"} => pids'[d] # << >>
               /\ pc'[d] \in {"create", "print"} => pids'[d] = << >>
               /\ pc'[d] # "shell"
    <3>1. CASE d = c \/ d = Self
      BY <1>4, <1>5, <1>17, <3>1
    <3>2. CASE d # c /\ d # Self
      BY <1>1, <1>5, <1>6, <3>2 DEF Family, SyncState, InTurn
    <3>. QED BY <3>1, <3>2
  <2>4. ASSUME NEW w \in Ctx, pc'[w] \in Working
        PROVE  \E x \in Ctx : pc'[x] \in Counting /\ Awaited(w, x)'
    <3>. DEFINE mine == pids'[Self]
    <3>1. pc'[Self] \in Counting
      BY <1>4, <1>5, <1>9
    <3>2. k'.pid[w] \in ToSet(mine) \/ Self \in ToSet(k'.waitingList[w])
      <4>1. CASE w = c
        BY <1>17, <4>1
      <4>2. CASE w # c
        <5>1. w # Self /\ pc[w] \in Working
          BY <1>4, <1>5, <1>9, <2>4, <4>2
        <5>2. PICK x \in Ctx : pc[x] \in Counting /\ Awaited(w, x)
          BY <5>1 DEF Family
        <5>3. x = Self
          BY <1>9, <1>10, <5>2
        <5>. QED BY <1>7, <1>17, <4>2, <5>2, <5>3 DEF Awaited
      <4>. QED BY <4>1, <4>2
    <3>. HIDE DEF mine
    <3>3. PICK x \in Ctx : x = Self
      OBVIOUS
    <3>4. mine = pids'[x]
      BY <3>3 DEF mine
    <3>. QED BY <3>1, <3>2, <3>3, <3>4 DEF Awaited
  <2>. QED BY <2>1, <2>2, <2>3, <2>4, FamilyNext
<1>. QED
  BY <1>15, <1>18

\* test_sync waits for the next worker: it joins the waiting list of the worker
\* that has the pid, and of those that it does not wait for the pids are left.
LEMMA WorkerAwaited ==
    ASSUME Books, WaitWorker
    PROVE  Accounts' /\ Family'
<1>. USE DEF Books
<1>. DEFINE home  == Place(pc)
            label == IF Len(pids[Self]) = 1 THEN "print" ELSE "wait"
<1>1. /\ Self # NULL /\ pc[Self] = "wait" /\ "wait" \notin Working
      /\ k' = WaitProcess(k, Head(pids[Self])) /\ Goto(label) /\ label \in Labels
      /\ pids' = [pids EXCEPT ![Self] = Tail(@)]
      /\ UNCHANGED << global, inc, printed, iter, aux >> /\ sems' = sems
  BY DEF WaitWorker, WaitChild, At, Working, Inside, Labels, Outside, locals
<1>2. label \in {"wait", "print"} /\ (Len(pids[Self]) # 1 => label = "wait")
  OBVIOUS
<1>3. pids[Self] # << >> /\ pids[Self] \in Seq(Pids) /\ pids \in [Ctx -> Seq(Pids)]
  BY <1>1 DEF Family, Accounts, AccountsTyped
<1>4. /\ Tail(pids[Self]) \in Seq(Pids)
      /\ label = "wait" => Tail(pids[Self]) # << >>
      /\ label = "print" => Tail(pids[Self]) = << >>
  <2>. DEFINE rest == Tail(pids[Self])
  <2>1. rest \in Seq(Pids) /\ Len(rest) = Len(pids[Self]) - 1 /\ Len(pids[Self]) \in Nat
    BY <1>3
  <2>2. label = (IF Len(pids[Self]) = 1 THEN "print" ELSE "wait")
    OBVIOUS
  <2>. HIDE DEF rest, label
  <2>3. rest = << >> <=> Len(rest) = 0
    BY <2>1, NoPids
  <2>4. CASE Len(pids[Self]) = 1
    BY <2>1, <2>2, <2>3, <2>4 DEF rest
  <2>5. CASE Len(pids[Self]) # 1
    BY <2>1, <2>2, <2>3, <2>5 DEF rest
  <2>. QED BY <2>4, <2>5
<1>. HIDE DEF label
<1>5. pc'[Self] = label /\ \A d \in Ctx : d # Self => pc'[d] = pc[d]
  BY <1>1, SelfGoes
<1>6. /\ pids' \in [Ctx -> Seq(Pids)] /\ pids'[Self] = Tail(pids[Self])
      /\ \A d \in Ctx : d # Self => pids'[d] = pids[d]
  BY <1>1, <1>3, <1>4
<1>7. Inv(k) /\ Undead(k) /\ k.pid[Self] # IDLE_PID /\ -1 \notin SemIds /\ Self = k.currentProcess
  BY <1>1, Runner DEF Self
<1>8. Peaceful(k, sems, home) /\ home[Self] \notin SemIds
  BY <1>1, <1>7 DEF SyncState, Place, Inside
<1>. HIDE DEF home
<1>9. OnlyBlocks(k, k', Self)
  BY <1>1, <1>7, <1>8, PeacefulWaitProcess
<1>10. \A d \in Ctx : k'.pid[d] = k.pid[d]
  BY <1>1, <1>7, <1>8, PeacefulWaitProcess
<1>11. /\ {"wait", "print"} \subseteq Counting /\ Counting \subseteq Parents \ {"create"}
       /\ {"wait", "print"} \cap Working = {}
  BY DEF Counting, Parents, Working, Inside
<1>12. Accounts'
  <2>1. AccountsTyped'
    BY <1>1, <1>6 DEF Accounts, AccountsTyped
  <2>. QED BY <1>1, <1>2, <1>5, <1>6, <1>9, <2>1, OtherAccounts
<1>13. \A d \in Ctx : pc[d] \in Parents => d = Self
  BY <1>1, <1>11 DEF Family
<1>14. Family'
  <2>1. \A x, d \in Ctx : pc'[x] \in Parents /\ pc'[d] \in Parents => x = d
    BY <1>5, <1>13
  <2>2. \A d \in Ctx : pc'[d] \in Parents \ {"create"} => sems'[SEM_ID].active
    <3>1. sems[SEM_ID].active
      BY <1>1, <1>11 DEF Family
    <3>. QED BY <1>1, <3>1
  <2>3. ASSUME NEW d \in Ctx
        PROVE  /\ pc'[d] \in {"wait", "shellWait"} => pids'[d] # << >>
               /\ pc'[d] \in {"create", "print"} => pids'[d] = << >>
               /\ pc'[d] # "shell"
    <3>1. CASE d = Self
      BY <1>2, <1>4, <1>5, <1>6, <3>1
    <3>2. CASE d # Self
      BY <1>1, <1>5, <1>6, <3>2 DEF Family, SyncState, InTurn
    <3>. QED BY <3>1, <3>2
  <2>4. ASSUME NEW w \in Ctx, pc'[w] \in Working
        PROVE  \E x \in Ctx : pc'[x] \in Counting /\ Awaited(w, x)'
    <3>. DEFINE mine == pids'[Self]
    <3>1. w # Self /\ pc[w] \in Working /\ pc[w] # "none"
      BY <1>2, <1>5, <1>11, <2>4 DEF Working, Inside
    <3>2. PICK x \in Ctx : pc[x] \in Counting /\ Awaited(w, x)
      BY <3>1 DEF Family
    <3>3. x = Self
      BY <1>11, <1>13, <3>2
    <3>4. Self \notin ToSet(k.waitingList[w])
      BY <1>1, <3>1, RunsAwaitNobody
    <3>5. k.pid[w] \in ToSet(pids[Self])
      BY <3>2, <3>3, <3>4 DEF Awaited
    <3>6. k'.pid[w] \in ToSet(mine) \/ Self \in ToSet(k'.waitingList[w])
      <4>1. CASE k.pid[w] = Head(pids[Self])
        <5>1. k.status[w] # "FREED"
          BY <3>1 DEF SyncState, Programmed
        <5>2. k.pid[w] = Head(pids[Self]) /\ w # Self => Self \in ToSet(k'.waitingList[w])
          <6>1. k' = WaitProcess(k, Head(pids[Self]))
            BY <1>1
          <6>. QED BY <1>7, <5>1, <6>1, WaitJoins
        <5>. QED BY <3>1, <4>1, <5>2
      <4>2. CASE k.pid[w] # Head(pids[Self])
        <5>1. k.pid[w] \in ToSet(Tail(pids[Self]))
          BY <1>3, <3>5, <4>2, PidsTail
        <5>. QED BY <1>6, <1>10, <5>1
      <4>. QED BY <4>1, <4>2
    <3>. HIDE DEF mine
    <3>7. mine = pids'[x] /\ pc'[x] \in Counting
      BY <1>2, <1>5, <1>11, <3>3 DEF mine
    <3>. QED BY <3>3, <3>6, <3>7 DEF Awaited
  <2>. QED BY <2>1, <2>2, <2>3, <2>4, FamilyNext
<1>. QED
  BY <1>12, <1>14

\* test_sync prints: no worker is left, and nothing is owed.
LEMMA PrintAccounts ==
    ASSUME Books, PrintFinal
    PROVE  Accounts' /\ Family'
<1>. USE DEF Books
<1>1. /\ Self # NULL /\ pc[Self] = "print" /\ Goto("destroy") /\ "destroy" \in Labels
      /\ UNCHANGED << k, sems, global, iter, aux, inc, pids >> /\ printed' = global
  BY DEF PrintFinal, At, Labels, Outside, locals
<1>2. pc'[Self] = "destroy" /\ \A d \in Ctx : d # Self => pc'[d] = pc[d]
  BY <1>1, SelfGoes
<1>3. /\ "print" \in Counting /\ Counting \subseteq Parents \ {"create"} /\ "destroy" \in Parents
      /\ "destroy" \notin Working /\ "destroy" \notin Counting
  BY DEF Counting, Parents, Working, Inside
<1>4. \A d \in Ctx : pc[d] \in Parents => d = Self
  BY <1>1, <1>3 DEF Family
<1>5. \A d \in Ctx : pc[d] # "shell" /\ pc[d] # "create"
  BY <1>1 DEF SyncState, InTurn
<1>6. ASSUME NEW w \in Ctx, pc[w] \in Working PROVE FALSE
  <2>1. PICK x \in Ctx : pc[x] \in Counting /\ Awaited(w, x)
    BY <1>6 DEF Family
  <2>2. x = Self
    BY <1>3, <1>4, <2>1
  <2>3. Self \notin ToSet(k.waitingList[w])
    <3>1. pc[w] # "none"
      BY <1>6 DEF Working, Inside
    <3>. QED BY <1>1, <3>1, RunsAwaitNobody
  <2>4. pids[Self] = << >>
    BY <1>1 DEF Family
  <2>. QED BY <2>1, <2>2, <2>3, <2>4 DEF Awaited, ToSet
<1>7. global = 0
  <2>1. Debt(Owes, inc) = 0
    <3>1. \A c \in Ctx : Owes[c] = 0
      BY <1>6 DEF Owes
    <3>. QED BY <3>1, NothingOwed
  <2>2. global + Debt(Owes, inc) = 0 /\ global \in Int
    BY <1>1, <1>3 DEF Accounts, AccountsTyped, Balanced, Due
  <2>. QED BY <2>1, <2>2
<1>8. \A d \in Ctx : pc'[d] \notin Working /\ pc'[d] \notin Inside
  BY <1>2, <1>3, <1>6 DEF Working
<1>9. \A d \in Ctx : pc'[d] \notin {"shell", "create"} /\ pc'[d] \notin Counting
  BY <1>2, <1>3, <1>4, <1>5
<1>10. Accounts'
  <2>1. AccountsTyped'
    BY <1>1 DEF Accounts, AccountsTyped
  <2>2. Balanced'
    BY <1>9 DEF Balanced
  <2>3. \A d \in Ctx : pc'[d] \notin {"yield", "write", "post"}
    BY <1>8 DEF Inside
  <2>. QED BY <1>1, <1>7, <1>8, <2>1, <2>2, <2>3 DEF Accounts
<1>11. Family'
  <2>1. \A x, d \in Ctx : pc'[x] \in Parents /\ pc'[d] \in Parents => x = d
    BY <1>2, <1>4
  <2>2. \A d \in Ctx : pc'[d] \in Parents \ {"create"} => sems'[SEM_ID].active
    <3>1. sems[SEM_ID].active
      BY <1>1, <1>3 DEF Family
    <3>. QED BY <1>1, <3>1
  <2>3. \A d \in Ctx : /\ pc'[d] \in {"wait", "shellWait"} => pids'[d] # << >>
                       /\ pc'[d] \in {"create", "print"} => pids'[d] = << >>
    BY <1>1, <1>2 DEF Family
  <2>. QED BY <1>8, <1>9, <2>1, <2>2, <2>3, FamilyNext
<1>. QED
  BY <1>10, <1>11

\* test_sync destroys the semaphore: nobody waits for anybody any more.
LEMMA DestroyAccounts ==
    ASSUME Books, DestroySemaphore
    PROVE  Accounts' /\ Family'
<1>. USE DEF Books
<1>1. /\ Self # NULL /\ pc[Self] = "destroy" /\ Goto("exit") /\ "exit" \in Labels /\ k' = k
      /\ UNCHANGED << global, iter, aux, inc, pids, printed >>
  BY DEF DestroySemaphore, At, Labels, Outside, locals, Becomes, SemDestroy, Now
<1>2. pc'[Self] = "exit" /\ \A d \in Ctx : d # Self => pc'[d] = pc[d]
  BY <1>1, SelfGoes
<1>3. /\ Counting \subseteq Parents /\ "destroy" \in Parents /\ "destroy" \notin Counting
      /\ "destroy" \notin Working /\ "exit" \notin Working /\ "exit" \notin Counting
      /\ "exit" \notin Parents
  BY DEF Counting, Parents, Working, Inside
<1>4. \A d \in Ctx : pc[d] \in Parents => d = Self
  BY <1>1, <1>3 DEF Family
<1>5. \A w \in Ctx : pc[w] \notin Working
  BY <1>1, <1>3, <1>4 DEF Family
<1>6. Accounts'
  <2>1. AccountsTyped' /\ OnlyBlocks(k, k', Self)
    BY <1>1 DEF Accounts, AccountsTyped, OnlyBlocks
  <2>. QED BY <1>1, <1>2, <1>3, <2>1, OtherAccounts
<1>7. Family'
  <2>1. \A d \in Ctx : pc'[d] \notin Parents /\ pc'[d] \notin Working
    BY <1>2, <1>3, <1>4, <1>5
  <2>2. \A d \in Ctx : /\ pc'[d] \in {"wait", "shellWait"} => pids'[d] # << >>
                       /\ pc'[d] \in {"create", "print"} => pids'[d] = << >>
    BY <1>1, <1>2 DEF Family
  <2>3. \A d \in Ctx : pc'[d] # "shell"
    BY <1>1, <1>2 DEF SyncState, InTurn
  <2>. QED BY <2>1, <2>2, <2>3, FamilyNext
<1>. QED
  BY <1>6, <1>7

\* A tick of the timer, at any moment, and no step at all.
LEMMA TurnAccounts ==
    ASSUME SyncState(k, sems, pc), SyncState(k', sems', pc'), Accounts, Family,
           k' = Schedule(k) \/ k' = k,
           UNCHANGED << sems, global, pc, aux, iter, inc, pids, printed >>
    PROVE  Accounts' /\ Family'
<1>1. Harmless /\ \A d \in Ctx : k'.status[d] = "BLOCKED" => k.status[d] = "BLOCKED"
  BY HarmlessTurn
<1>2. Balanced'
  <2>1. Balanced
    BY DEF Accounts
  <2>2. Debt(Owes, inc)' = Debt(Owes, inc) /\ \A d \in Ctx : Due(d)' = Due(d)
    BY DEF Owes, Debt, Shares, Due
  <2>. QED BY <2>1, <2>2 DEF Balanced
<1>3. AccountsTyped'
  BY DEF Accounts, AccountsTyped
<1>4. Accounts'
  BY <1>1, <1>2, <1>3 DEF Accounts
<1>5. \A w \in Ctx : pc'[w] \in Working =>
            /\ k'.pid[w] = k.pid[w]
            /\ \A x \in ToSet(k.waitingList[w]) : x \in ToSet(k'.waitingList[w])
  BY <1>1, WorkersKept DEF Harmless, SameWorld
<1>6. Family'
  BY <1>5, FamilyFrame
<1>. QED
  BY <1>4, <1>6

LEMMA ProgramStepAccounts ==
    ASSUME SyncState(k, sems, pc), SyncState(k', sems', pc'), Accounts, Family, ProgramStep
    PROVE  Accounts' /\ Family'
<1>1. Self # NULL
  BY DEF ProgramStep, ShellStart, ShellWait, CreateSemaphore, SpawnWorker, WaitWorker, PrintFinal,
         DestroySemaphore, OpenSemaphore, EnterLoop, ReadGlobal, YieldInside, WriteGlobal,
         LeaveLoop, Exit, At
<1>2. Books
  BY <1>1, Runner DEF Books
<1>. QED
  BY <1>2, StartAccounts, ShellWaitAccounts, CreateAccounts, WorkerBegins, WorkerAwaited,
     PrintAccounts, DestroyAccounts, OpenAccounts, EnterAccounts, ReadAccounts, YieldAccounts,
     WriteAccounts, LeaveAccounts, ExitAccounts
  DEF ProgramStep

LEMMA PrintInitInv == ProgramsInit => PrintInv
<1>. SUFFICES ASSUME ProgramsInit PROVE PrintInv
  OBVIOUS
<1>1. /\ global = 0 /\ printed = NULL
      /\ pc = [c \in Ctx |-> IF k.pid[c] = SHELL_PID THEN "shell" ELSE "none"]
      /\ aux = [c \in Ctx |-> 0] /\ iter = [c \in Ctx |-> 0] /\ inc = [c \in Ctx |-> 0]
      /\ pids = [c \in Ctx |-> << >>]
  BY DEF ProgramsInit, LocalsInit
<1>2. \A c \in Ctx : pc[c] \in {"shell", "none"}
  BY <1>1
<1>3. \A c \in Ctx : /\ pc[c] \notin Working /\ pc[c] \notin Inside /\ pc[c] \notin Counting
                     /\ pc[c] \notin Parents /\ pc[c] \notin {"yield", "write", "post"}
  BY <1>2 DEF Working, Inside, Counting, Parents
<1>4. AccountsTyped
  BY <1>1 DEF AccountsTyped
<1>5. Balanced
  BY <1>1, <1>3 DEF Balanced
<1>6. Accounts
  BY <1>1, <1>3, <1>4, <1>5 DEF Accounts
<1>7. Family
  <2>1. \A c \in Ctx : pids[c] = << >>
    BY <1>1
  <2>2. \A c \in Ctx : pc[c] \notin {"wait", "shellWait"}
    BY <1>2
  <2>. QED BY <1>3, <2>1, <2>2 DEF Family
<1>. QED
  BY <1>1, <1>6, <1>7 DEF PrintInv

LEMMA PrintStepInv == ProgramInv /\ ProgramInv' /\ PrintInv /\ [ProgramsNext]_programVars => PrintInv'
<1>1. ASSUME ProgramInv, ProgramInv', PrintInv, TestSyncRuns PROVE PrintInv'
  <2>1. program = "testsync" /\ program' = program /\ ProgramStep
    BY <1>1 DEF TestSyncRuns
  <2>2. SyncState(k, sems, pc) /\ SyncState(k', sems', pc') /\ Accounts /\ Family
    BY <1>1, <2>1 DEF ProgramInv, PrintInv
  <2>3. Accounts' /\ Family'
    BY <2>1, <2>2, ProgramStepAccounts
  <2>. QED BY <2>1, <2>3 DEF PrintInv
<1>2. ASSUME ProgramInv, ProgramInv', PrintInv,
             AnyTick \/ UNCHANGED programVars
      PROVE  PrintInv'
  <2>1. /\ k' = Schedule(k) \/ k' = k
        /\ UNCHANGED << sems, global, pc, aux, iter, inc, pids, printed >>
        /\ program' = program
    BY <1>2 DEF AnyTick, TimerTick, programVars, ofPrograms, ofTestSync, locals
  <2>2. CASE program = "testsync"
    <3>1. SyncState(k, sems, pc) /\ SyncState(k', sems', pc') /\ Accounts /\ Family
      BY <1>2, <2>1, <2>2 DEF ProgramInv, PrintInv
    <3>2. Accounts' /\ Family'
      BY <2>1, <3>1, TurnAccounts
    <3>. QED BY <2>1, <2>2, <3>2 DEF PrintInv
  <2>3. CASE program # "testsync"
    BY <1>2, <2>1, <2>3 DEF PrintInv
  <2>. QED BY <2>2, <2>3
<1>3. ASSUME PrintInv, TestProcRuns \/ AnybodyRuns PROVE PrintInv'
  <2>1. program # "testsync" /\ UNCHANGED << printed, program >>
    BY <1>3 DEF TestProcRuns, AnybodyRuns, ofPrograms, ofTestSync
  <2>. QED BY <1>3, <2>1 DEF PrintInv
<1>. QED
  BY <1>1, <1>2, <1>3 DEF ProgramsNext

\* What testsync prints, if it prints, is 0, for any number of pairs of
\* processes and of iterations: no increment is lost between the read and the
\* write of the shared variable, and test_sync prints after the last write.
THEOREM PrintsZeroCorrect == ProgramsSpec => []PrintsZero
<1>1. PrintInv => PrintsZero
  BY DEF PrintInv, Accounts, PrintsZero
<1>2. ProgramsSpec => ProgramsInit /\ [][ProgramsNext]_programVars
  BY PTL DEF ProgramsSpec
<1>. QED
  BY <1>1, <1>2, ProgramInvariantHolds, PrintInitInv, PrintStepInv, PTL

-----------------------------------------------------------------------------
(***************************************************************************)
(* Orderly processes that use any number of semaphores, start others, wait *)
(* for them and exit: the wait queues hold blocked processes only, each    *)
(* once, and a sem_post that meets somebody wakes a process that waits.    *)
(*                                                                         *)
(* The invariant says, for some place of each process (home), that whoever *)
(* is queued at a semaphore is blocked there and nowhere else: not at      *)
(* another semaphore, and not in the waiting list of a process.            *)
(***************************************************************************)
IsPeaceful(s, m) == \E home : Peaceful(s, m, home)

OrderlyInv == IsPeaceful(k, sems) /\ (k.currentProcess # NULL => AtConsole(k))

ClientInv == client = "orderly" => OrderlyInv

\* Everybody else stays where he is.
LEMMA SomebodyGoes ==
    ASSUME NEW home \in [Ctx -> Int], NEW c \in Ctx, NEW x \in Int
    PROVE  \E home2 : Goes(home, c, x, home2)
<1>. DEFINE home2 == [home EXCEPT ![c] = x]
<1>1. home2 \in [Ctx -> Int] /\ \A d \in Ctx : home2[d] = IF d = c THEN x ELSE home[d]
  OBVIOUS
<1>. QED
  BY <1>1 DEF Goes

\* A process that is not blocked can be taken to be at no semaphore.
LEMMA Settled ==
    ASSUME NEW s, NEW m, NEW home, Peaceful(s, m, home), NEW c \in Ctx, s.status[c] # "BLOCKED"
    PROVE  \E home2 : Peaceful(s, m, home2) /\ home2[c] \notin SemIds
<1>1. home \in [Ctx -> Int] /\ -1 \notin SemIds
  BY SemaphoresAssumption DEF Peaceful, Orderly
<1>2. PICK home2 : Goes(home, c, -1, home2)
  BY <1>1, SomebodyGoes
<1>3. home2[c] = -1
  BY <1>2 DEF Goes
<1>. QED
  BY <1>1, <1>2, <1>3, PeacefulMove

\* The process that makes a system call, at no semaphore.
LEMMA CallerSettled ==
    ASSUME IsPeaceful(k, sems), UserRuns
    PROVE  /\ k.currentProcess \in Ctx /\ k.pid[k.currentProcess] # IDLE_PID
           /\ k.currentPid = k.pid[k.currentProcess]
           /\ \E home : Peaceful(k, sems, home) /\ home[k.currentProcess] \notin SemIds
<1>1. PICK home : Peaceful(k, sems, home)
  BY DEF IsPeaceful
<1>2. /\ k.currentProcess \in Ctx /\ k.status[k.currentProcess] # "BLOCKED"
      /\ k.currentPid = k.pid[k.currentProcess] /\ k.pid[k.currentProcess] # IDLE_PID
  BY <1>1 DEF Peaceful, Orderly, Inv, Common, Kernel, Cpu, UserRuns
<1>. QED
  BY <1>1, <1>2, Settled

-----------------------------------------------------------------------------
(***************************************************************************)
(* One lemma per system call.                                              *)
(***************************************************************************)
LEMMA PeacefulSyscallSemInit ==
    ASSUME IsPeaceful(k, sems), NEW id \in SemIds, NEW value \in InitialValues,
           SyscallSemInit(id, value)
    PROVE  IsPeaceful(k', sems')
<1>1. PICK home : Peaceful(k, sems, home)
  BY DEF IsPeaceful
<1>2. value \in Nat
  BY SemaphoresAssumption
<1>3. k' = k /\ (sems' = sems \/ sems' = [sems EXCEPT ![id] = Fresh(value)])
  BY DEF SyscallSemInit, Becomes, SemCreate, Now, Fresh
<1>4. CASE sems' = sems
  BY <1>1, <1>3, <1>4 DEF IsPeaceful
<1>5. CASE sems' = [sems EXCEPT ![id] = Fresh(value)]
  <2>1. Fresh(value) \in Semaphore /\ Fresh(value).waitQueue = << >>
    BY <1>2 DEF Fresh, Semaphore
  <2>2. Orderly(k, sems', home)
    BY <1>1, <1>5, <2>1, OrderlyReset DEF Peaceful
  <2>3. Peaceful(k', sems', home)
    BY <1>1, <1>3, <2>2 DEF Peaceful
  <2>. QED BY <2>3 DEF IsPeaceful
<1>. QED
  BY <1>3, <1>4, <1>5

LEMMA PeacefulSyscallSemWait ==
    ASSUME IsPeaceful(k, sems), NEW id \in SemIds, SyscallSemWait(id)
    PROVE  IsPeaceful(k', sems')
<1>. DEFINE c == k.currentProcess
<1>1. UserRuns /\ SemWait(Sys(k, sems), id) = Sys(k', sems')
  BY CallReturns DEF SyscallSemWait, Becomes, Now, Sys
<1>2. PICK home : Peaceful(k, sems, home) /\ home[c] \notin SemIds
  BY <1>1, CallerSettled
<1>3. c \in Ctx /\ k.pid[c] # IDLE_PID /\ id \in Int /\ home \in [Ctx -> Int]
  BY <1>1, <1>2, CallerSettled, SemaphoresAssumption DEF Peaceful, Orderly
<1>4. PICK home2 : Goes(home, c, id, home2)
  BY <1>3, SomebodyGoes
<1>5. Peaceful(k', sems', home2)
  BY <1>1, <1>2, <1>3, <1>4, PeacefulSemWait
<1>. QED
  BY <1>5 DEF IsPeaceful

LEMMA PeacefulSyscallSemPost ==
    ASSUME IsPeaceful(k, sems), NEW id \in SemIds, Becomes(SemPost(Now, id))
    PROVE  IsPeaceful(k', sems')
<1>1. PICK home : Peaceful(k, sems, home)
  BY DEF IsPeaceful
<1>2. SemPost(Sys(k, sems), id) = Sys(k', sems')
  BY CallReturns DEF Becomes, Now, Sys
<1>3. Peaceful(k', sems', home)
  BY <1>1, <1>2, PeacefulSemPost
<1>. QED
  BY <1>3 DEF IsPeaceful

LEMMA PeacefulSyscallCreate ==
    ASSUME IsPeaceful(k, sems), NEW prog \in Programs, SyscallCreateProcess(prog)
    PROVE  IsPeaceful(k', sems)
<1>1. PICK c \in Ctx, pid \in Pids :
        /\ k.status[c] = "FREED"
        /\ IsMinFreePid(k, pid)
        /\ k' = CreateProcess(k, c, pid, prog)
  BY DEF SyscallCreateProcess
<1>2. PICK home1 : Peaceful(k, sems, home1)
  BY DEF IsPeaceful
<1>3. PICK home : Peaceful(k, sems, home) /\ home[c] \notin SemIds
  BY <1>1, <1>2, Settled
<1>4. prog \in AnyProgram
  BY ProgramsAssumption
<1>5. Peaceful(k', sems, home)
  BY <1>1, <1>3, <1>4, PeacefulCreate
<1>. QED
  BY <1>5 DEF IsPeaceful

LEMMA PeacefulSyscallExit ==
    ASSUME IsPeaceful(k, sems), AtConsole(k), SyscallExit
    PROVE  IsPeaceful(k', sems)
<1>. DEFINE c == k.currentProcess
<1>1. UserRuns /\ k.currentPid \in Targets
  BY DEF SyscallExit
<1>2. PICK home : Peaceful(k, sems, home) /\ home[c] \notin SemIds
  BY <1>1, CallerSettled
<1>3. c \in Ctx /\ k.pid[c] \in Targets
  BY <1>1, CallerSettled
<1>4. PipedFd(k, c) = -1
  <2>1. Inv(k) /\ Undead(k)
    BY <1>2 DEF Peaceful, Orderly
  <2>2. k.status[c] \in Live /\ k.pid[c] # IDLE_PID
    BY <1>3, <2>1, SchedulerAssumption DEF Inv, Cpu, Undead, Live, Targets
  <2>. QED BY <1>3, <2>1, <2>2, NoPeer
<1>5. PICK u \in KillProcess(k, k.pid[c]) : k' = Yield(u)
  BY DEF SyscallExit
<1>6. Peaceful(k', sems, home)
  BY <1>2, <1>3, <1>4, <1>5, PeacefulExit
<1>. QED
  BY <1>6 DEF IsPeaceful

LEMMA PeacefulSyscallWait ==
    ASSUME IsPeaceful(k, sems), NEW pid, SyscallWait(pid)
    PROVE  IsPeaceful(k', sems)
<1>. DEFINE c == k.currentProcess
<1>1. UserRuns /\ k' = WaitProcess(k, pid)
  BY DEF SyscallWait
<1>2. PICK home : Peaceful(k, sems, home) /\ home[c] \notin SemIds
  BY <1>1, CallerSettled
<1>3. c \in Ctx /\ k.pid[c] # IDLE_PID
  BY <1>1, CallerSettled
<1>4. Peaceful(k', sems, home)
  BY <1>1, <1>2, <1>3, PeacefulWaitProcess
<1>. QED
  BY <1>4 DEF IsPeaceful

LEMMA PeacefulTurn ==
    ASSUME IsPeaceful(k, sems), TimerTick \/ SyscallYield
    PROVE  IsPeaceful(k', sems)
<1>1. PICK home : Peaceful(k, sems, home)
  BY DEF IsPeaceful
<1>2. Peaceful(k', sems, home)
  BY <1>1, PeacefulSchedule DEF TimerTick, SyscallYield
<1>. QED
  BY <1>2 DEF IsPeaceful

\* An orderly step, by whatever process.
LEMMA OrderlyStep ==
    ASSUME OrderlyInv, OrderlyNext, ConsoleOnly
    PROVE  OrderlyInv'
<1>1. IsPeaceful(k, sems)
  BY DEF OrderlyInv
<1>2. IsPeaceful(k', sems')
  <2>1. ASSUME NEW id \in SemIds, NEW value \in InitialValues, SyscallSemInit(id, value)
        PROVE  IsPeaceful(k', sems')
    BY <1>1, <2>1, PeacefulSyscallSemInit
  <2>2. ASSUME NEW id \in SemIds, SyscallSemWait(id) PROVE IsPeaceful(k', sems')
    BY <1>1, <2>2, PeacefulSyscallSemWait
  <2>3. ASSUME NEW id \in SemIds, SyscallSemPost(id) \/ InterruptSemPost(id)
        PROVE  IsPeaceful(k', sems')
    BY <1>1, <2>3, PeacefulSyscallSemPost DEF SyscallSemPost, InterruptSemPost
  <2>4. CASE UNCHANGED sems /\ (TimerTick \/ SyscallYield)
    BY <1>1, <2>4, PeacefulTurn
  <2>5. ASSUME NEW prog \in Programs, UNCHANGED sems, SyscallCreateProcess(prog)
        PROVE  IsPeaceful(k', sems')
    BY <1>1, <2>5, PeacefulSyscallCreate
  <2>6. CASE UNCHANGED sems /\ SyscallExit
    <3>1. AtConsole(k)
      BY <2>6 DEF OrderlyInv, SyscallExit, UserRuns
    <3>. QED BY <1>1, <2>6, <3>1, PeacefulSyscallExit
  <2>7. ASSUME NEW pid \in Pids, UNCHANGED sems, SyscallWait(pid)
        PROVE  IsPeaceful(k', sems')
    BY <1>1, <2>7, PeacefulSyscallWait
  <2>. QED BY <2>1, <2>2, <2>3, <2>4, <2>5, <2>6, <2>7 DEF OrderlyNext
<1>3. AtConsole(k')
  BY DEF ConsoleOnly, AtConsole
<1>. QED
  BY <1>2, <1>3 DEF OrderlyInv

-----------------------------------------------------------------------------
(***************************************************************************)
(* The specification.                                                      *)
(***************************************************************************)
LEMMA ClientsInitInv == ClientsInit => ClientInv
<1>. SUFFICES ASSUME ClientsInit PROVE OrderlyInv
  BY DEF ClientInv
<1>. DEFINE home == [c \in Ctx |-> -1]
<1>1. Inv(k) /\ k.currentProcess = NULL /\ sems = [id \in SemIds |-> Inactive]
  BY InitInv DEF ClientsInit, SemInit
<1>2. Undead(k) /\ home \in [Ctx -> Int]
  BY <1>1, SchedulerAssumption DEF Undead, Inv, Cpu
<1>3. \A id \in SemIds : sems[id] = Inactive
  BY <1>1
<1>4. sems \in [SemIds -> Semaphore]
  <2>1. Inactive \in Semaphore
    BY DEF Inactive, Semaphore
  <2>. QED BY <1>1, <2>1
<1>5. ToSet(<< >>) = {} /\ IsInjective(<< >>)
  BY DEF IsInjective, ToSet
<1>6. QueuesInOrder(k, sems, home)
  <2>1. Inactive.waitQueue = << >> /\ Inactive.counter = 0
    BY DEF Inactive
  <2>. QED BY <1>3, <1>5, <2>1 DEF QueuesInOrder
<1>7. WaitersApart(k, home)
  <2>1. \A c \in Ctx : k.waitingList[c] = << >>
    BY InitInv DEF ClientsInit, SemInit
  <2>. QED BY <1>5, <2>1 DEF WaitersApart
<1>8. Peaceful(k, sems, home)
  BY <1>1, <1>2, <1>4, <1>6, <1>7 DEF Peaceful, Orderly
<1>. QED
  BY <1>1, <1>8 DEF OrderlyInv, IsPeaceful

LEMMA ClientsStepInv == ClientInv /\ [ClientsNext]_clientVars => ClientInv'
<1>1. ASSUME ClientInv, ClientsNext, client' = "orderly" PROVE OrderlyInv'
  BY <1>1, OrderlyStep DEF ClientInv, ClientsNext
<1>2. ASSUME ClientInv, UNCHANGED clientVars PROVE ClientInv'
  BY <1>2 DEF ClientInv, clientVars, vars, OrderlyInv, IsPeaceful, AtConsole
<1>. QED
  BY <1>1, <1>2 DEF ClientInv

LEMMA ClientInvariantHolds == ClientsSpec => []ClientInv
BY ClientsInitInv, ClientsStepInv, PTL DEF ClientsSpec

\* A process in no two places is queued at no two semaphores.
LEMMA PeacefulQueues ==
    ASSUME IsPeaceful(k, sems)
    PROVE  QueuesHoldTheBlocked
<1>1. PICK home : Peaceful(k, sems, home)
  BY DEF IsPeaceful
<1>2. Orderly(k, sems, home) /\ Inv(k)
  BY <1>1 DEF Peaceful, Orderly
<1>3. \A id \in SemIds : IsInjective(sems[id].waitQueue)
  BY <1>2 DEF Orderly, QueuesInOrder
<1>4. ASSUME NEW id \in SemIds, NEW pid \in Queued(id)
      PROVE  \E c \in Ctx : /\ k.pid[c] = pid /\ k.status[c] = "BLOCKED" /\ home[c] = id
                            /\ FindProcess(k, pid) = c
  BY <1>2, <1>4, QueuedAreFound DEF Queued
<1>5. \A id, other \in SemIds : id # other => Queued(id) \cap Queued(other) = {}
  <2>. SUFFICES ASSUME NEW id \in SemIds, NEW other \in SemIds,
                       NEW pid \in Queued(id), pid \in Queued(other)
                PROVE  id = other
    OBVIOUS
  <2>. QED BY <1>4
<1>6. \A id \in SemIds : \A pid \in Queued(id) :
        FindProcess(k, pid) # NULL /\ k.status[FindProcess(k, pid)] = "BLOCKED"
  BY <1>4, SchedulerAssumption
<1>. QED
  BY <1>3, <1>5, <1>6 DEF QueuesHoldTheBlocked

\* A post that does not count its token wakes somebody.
LEMMA PeacefulPostWakes ==
    ASSUME IsPeaceful(k, sems)
    PROVE  HandsTokenOver
<1>. SUFFICES ASSUME NEW id \in SemIds, SyscallSemPost(id), sems'[id].counter = sems[id].counter
              PROVE  \E c \in Ctx : k.status[c] = "BLOCKED" /\ k'.status[c] = "READY"
  BY DEF HandsTokenOver
<1>1. PICK home : Peaceful(k, sems, home)
  BY DEF IsPeaceful
<1>2. SemPost(Sys(k, sems), id) = Sys(k', sems')
  BY CallReturns DEF SyscallSemPost, Becomes, Now, Sys
<1>3. Orderly(k, sems, home) /\ sems[id].counter \in Nat /\ sems \in [SemIds -> Semaphore]
  BY <1>1 DEF Peaceful, Orderly, Semaphore
<1>4. sems[id].waitQueue # << >>
  <2>. DEFINE posted == [sems EXCEPT ![id].counter = @ + 1]
  <2>1. sems[id].waitQueue = << >> => sems' = posted
    BY <1>2, <1>3, OrderlyPost
  <2>2. posted[id].counter = sems[id].counter + 1
    BY <1>3 DEF Semaphore
  <2>. HIDE DEF posted
  <2>. QED BY <1>3, <2>1, <2>2
<1>. QED
  BY <1>2, <1>3, <1>4, OrderlyPost

\* Among any number of orderly processes and semaphores nobody waits in two
\* queues, twice in one, or awake: no sem_post hands its token to the dead.
THEOREM OrderlyQueuesCorrect == ClientsSpec => []OrderlyQueuesHoldTheBlocked
<1>1. ClientInv => OrderlyQueuesHoldTheBlocked
  BY PeacefulQueues DEF ClientInv, OrderlyInv, OrderlyQueuesHoldTheBlocked
<1>. QED
  BY <1>1, ClientInvariantHolds, PTL

\* Nor is a token lost: each sem_post among them that meets a waiter wakes one.
THEOREM OrderlyPostCorrect == ClientsSpec => OrderlyPostWakesAWaiter
<1>1. ClientInv /\ [ClientsNext]_clientVars => [client = "orderly" => HandsTokenOver]_clientVars
  BY PeacefulPostWakes DEF ClientInv, OrderlyInv
<1>2. ClientsSpec => [][client = "orderly" => HandsTokenOver]_clientVars
  BY <1>1, ClientInvariantHolds, PTL DEF ClientsSpec
<1>. QED
  BY <1>2 DEF OrderlyPostWakesAWaiter

-----------------------------------------------------------------------------
(***************************************************************************)
(* testproc, for any number of processes that it starts, while there is    *)
(* room for them.  processQty is what createProcess looks at: it counts    *)
(* the contexts of the living, so there is a pid and a context for one     *)
(* process more.                                                           *)
(***************************************************************************)
Living(s) == {c \in Ctx : s.status[c] \in Live}

LEMMA LivingCount ==
    ASSUME NEW s, Inv(s)
    PROVE  IsFiniteSet(Living(s)) /\ Cardinality(Living(s)) = s.processQty
<1>. DEFINE list == s.processList
            n    == Len(list)
            L    == Living(s)
<1>1. list \in Seq(Ctx) /\ IsInjective(list) /\ s.processQty = n /\ n \in Nat
  BY DEF Inv, Common, Identity, Lists, Kernel
<1>2. \A c : c \in L <=> \E i \in 1 .. n : list[i] = c
  <2>1. /\ ToSet(list) \subseteq Ctx
        /\ \A c : c \in ToSet(list) <=> \E i \in 1 .. n : list[i] = c
    BY <1>1, ToSetProperty
  <2>2. \A c \in Ctx : c \in ToSet(list) <=> s.status[c] \in Live
    BY DEF Inv, Common, Lists
  <2>. HIDE DEF list, n
  <2>. QED BY <2>1, <2>2 DEF Living
<1>3. IsFiniteSet(L)
  BY SchedulerAssumption, FS_Subset DEF Living
<1>4. DOMAIN list = 1 .. n /\ list \in [1 .. n -> Ctx]
  BY <1>1
<1>. HIDE DEF list, n, L
<1>5. list \in [1 .. n -> L]
  BY <1>2, <1>4
<1>6. list \in Injection(1 .. n, L)
  BY <1>1, <1>5 DEF Injection
<1>7. list \in Surjection(1 .. n, L)
  BY <1>2, <1>5 DEF Surjection
<1>8. Cardinality(1 .. n) = n
  BY <1>1, FS_Interval
<1>9. Cardinality(1 .. n) = Cardinality(L)
  BY <1>3, <1>6, <1>7, FS_Injection
<1>. QED
  BY <1>1, <1>3, <1>8, <1>9 DEF L

\* While fewer than MAX_PROCESS live, createProcess finds a smallest free pid.
LEMMA FreePid ==
    ASSUME NEW s, Inv(s), s.processQty < MAX_PROCESS
    PROVE  \E pid \in Pids : IsMinFreePid(s, pid)
<1>. DEFINE free == {p \in Pids : FindProcess(s, p) = NULL}
<1>1. free # {}
  <2>. SUFFICES ASSUME free = {} PROVE FALSE
    OBVIOUS
  <2>. DEFINE f == [p \in Pids |-> FindProcess(s, p)]
  <2>1. \A p \in Pids : f[p] \in Living(s) /\ s.pid[f[p]] = p
    <3>. SUFFICES ASSUME NEW p \in Pids PROVE f[p] \in Living(s) /\ s.pid[f[p]] = p
      OBVIOUS
    <3>1. s \in Kernel /\ FindProcess(s, p) # NULL /\ f[p] = FindProcess(s, p)
      BY DEF Inv, Common
    <3>2. /\ FindProcess(s, p) \in Ctx /\ FindProcess(s, p) \in ToSet(s.processList)
          /\ s.pid[FindProcess(s, p)] = p
      BY <3>1, FindProcessProperty
    <3>. QED BY <3>1, <3>2 DEF Inv, Common, Lists, Living
  <2>2. f \in [Pids -> Living(s)]
    BY <2>1
  <2>. HIDE DEF f
  <2>3. f \in Injection(Pids, Living(s))
    BY <2>1, <2>2 DEF Injection, IsInjective
  <2>4. Cardinality(Pids) = MAX_PROCESS
    BY FS_Interval, SchedulerAssumption DEF Pids, SHELL_PID
  <2>5. IsFiniteSet(Living(s)) /\ Cardinality(Living(s)) = s.processQty
    BY LivingCount
  <2>6. Cardinality(Pids) <= Cardinality(Living(s))
    BY <2>3, <2>5, FS_Injection
  <2>7. s.processQty \in Nat /\ MAX_PROCESS \in Nat
    BY SchedulerAssumption DEF Inv, Common, Kernel
  <2>. QED BY <2>4, <2>5, <2>6, <2>7
<1>2. free \in SUBSET Nat
  BY DEF Pids
<1>3. Min(free) \in free /\ \A n \in free : Min(free) <= n
  BY <1>1, <1>2, MinProperty
<1>4. \A q \in Pids : q < Min(free) => FindProcess(s, q) # NULL
  <2>. SUFFICES ASSUME NEW q \in Pids, q < Min(free), FindProcess(s, q) = NULL PROVE FALSE
    OBVIOUS
  <2>1. q \in free
    OBVIOUS
  <2>2. Min(free) <= q /\ q \in Nat /\ Min(free) \in Nat
    BY <1>2, <1>3, <2>1
  <2>. HIDE DEF free
  <2>. QED BY <2>2
<1>. QED
  BY <1>3, <1>4 DEF IsMinFreePid

\* And while they are fewer than the contexts, mm_alloc finds the first free one.
LEMMA FreeContext ==
    ASSUME NEW s, Inv(s), Undead(s), s.processQty < Cardinality(Ctx)
    PROVE  FirstFit(s) \in Ctx /\ s.status[FirstFit(s)] = "FREED"
<1>. DEFINE free == {c \in Ctx : s.status[c] = "FREED"}
<1>1. free # {}
  <2>. SUFFICES ASSUME free = {} PROVE FALSE
    OBVIOUS
  <2>1. Living(s) = Ctx
    BY StatusType DEF Living, Live, Undead
  <2>2. Cardinality(Ctx) = s.processQty /\ s.processQty \in Nat
    BY <2>1, LivingCount DEF Inv, Common, Kernel
  <2>. QED BY <2>2
<1>2. free \in SUBSET Nat
  BY TestProcessesAssumption
<1>3. FirstFit(s) = Min(free)
  BY DEF FirstFit
<1>4. Min(free) \in free
  BY <1>1, <1>2, MinProperty
<1>. QED
  BY <1>3, <1>4

\* t is s and a process more, in context c.
Born(s, t, c, pid, ground) ==
    /\ Inv(t) /\ AtConsole(t) /\ Undead(t) /\ c \in Ctx /\ pid \in Targets
    /\ s.status[c] = "FREED" /\ t.status[c] = "READY"
    /\ t.pid[c] = pid /\ t.ground[c] = ground /\ Unawaited(t, c)
    /\ Last(t.processList) = c /\ t.processQty = s.processQty + 1
    /\ \A d \in Ctx : s.status[d] \in Live => s.pid[d] # pid
    /\ \A d \in Ctx : d # c => t.status[d] = s.status[d] /\ SameProcess(s, t, d)

LEMMA Launched ==
    ASSUME NEW s, Inv(s), AtConsole(s), Undead(s),
           s.processQty < MAX_PROCESS, s.processQty < Cardinality(Ctx),
           NEW ground \in Grounds, NEW t, t = Launch(s, OfConsole(ground))
    PROVE  \E c, pid : Born(s, t, c, pid, ground)
<1>. DEFINE c   == FirstFit(s)
            pid == CHOOSE p \in Pids : IsMinFreePid(s, p)
<1>1. /\ c \in Ctx /\ s.status[c] = "FREED"
      /\ pid \in Pids /\ IsMinFreePid(s, pid)
  BY FreeContext, FreePid
<1>2. t = CreateProcess(s, c, pid, ConsoleProgram(ground))
  BY DEF Launch, OfConsole, ConsoleProgram
<1>. HIDE DEF c, pid
<1>3. /\ Inv(t) /\ AtConsole(t)
      /\ t.status[c] = "READY" /\ t.pid[c] = pid /\ pid # IDLE_PID
      /\ t.ground[c] = ground /\ t.waitingList[c] = << >>
      /\ \A d \in Ctx : d # c => t.status[d] = s.status[d] /\ SameProcess(s, t, d)
  BY <1>1, <1>2, ConsoleCreated
<1>4. s \in Kernel /\ Lists(s) /\ s.processList \in Seq(Ctx)
  BY DEF Inv, Common, Kernel
<1>5. \A d \in Ctx : s.status[d] \in Live => s.pid[d] # pid
  BY <1>1, <1>4, FindProcessProperty DEF IsMinFreePid, Lists
<1>6. pid \in Targets
  BY <1>1, <1>3, <1>5 DEF Inv, Common, Survivors, Targets
<1>7. Undead(t)
  BY <1>3 DEF Undead
<1>8. Unawaited(t, c)
  BY <1>3 DEF Unawaited, ToSet
<1>9. Last(t.processList) = c /\ t.processQty = s.processQty + 1
  <2>1. /\ t.processList = Append(s.processList, c)
        /\ t.processQty = s.processQty + 1
    BY <1>2, <1>4 DEF CreateProcess, InitializeProcess, Kernel
  <2>. QED BY <1>1, <1>4, <2>1 DEF Last
<1>10. Born(s, t, c, pid, ground)
  BY <1>1, <1>3, <1>5, <1>6, <1>7, <1>8, <1>9 DEF Born
<1>. QED
  BY <1>10

-----------------------------------------------------------------------------
(***************************************************************************)
(* The invariant of testproc, over a state s of the scheduler, the context *)
(* te of the program, that of the shell, sh, and the table.  Between two   *)
(* steps nobody is dead and not yet freed, only te has a waiter, and each  *)
(* entry of the table that is not KILLED has a process of its own: a pid   *)
(* that is used again belongs to no other entry.                           *)
(***************************************************************************)
TestWorld(s, te, sh) ==
    /\ Inv(s) /\ AtConsole(s) /\ Undead(s)
    /\ te \in Ctx /\ s.status[te] \in Live /\ s.pid[te] \in Targets /\ s.ground[te] = FOREGROUND
    /\ sh \in Ctx /\ s.status[sh] \in Live /\ s.pid[sh] = SHELL_PID
    /\ \A c \in Ctx : s.status[c] \in Live /\ IsForeground(s, c) => c = te
    /\ \A c \in Ctx : s.status[c] \in Live /\ c # te => Unawaited(s, c)

\* c is the process of the entry e.
Has(s, te, e, c) ==
    /\ c \in Ctx /\ c # te /\ s.status[c] \in Live
    /\ s.pid[c] = e.pid /\ e.pid \in Targets
    /\ s.status[c] = "BLOCKED" <=> e.state = "BLOCKED"

Unkilled(table) == {i \in Slots : table[i].state # "KILLED"}

TableType == [Slots -> [pid : Pids \cup {NO_PROCESS}, state : {"RUNNING", "BLOCKED", "KILLED"}]]

Distinct(table) ==
    \A i, j \in Slots :
        (/\ table[i].state # "KILLED" /\ table[j].state # "KILLED"
         /\ table[i].pid = table[j].pid) => i = j

TableHolds(s, table, te) ==
    /\ table \in TableType
    /\ \A i \in Slots : table[i].state # "KILLED" => \E c : Has(s, te, table[i], c)
    /\ Distinct(table)
    /\ s.processQty = 3 + Cardinality(Unkilled(table))

\* Where the program is: it fills the table from the first slot to the last.
InLoop(s, table, i, loop, te) ==
    /\ i \in Slots
    /\ loop \in {"shell", "create", "act", "unblock"}
    /\ loop = "shell" => i = 1 /\ Unawaited(s, te)
    /\ loop \in {"shell", "create"} => \A j \in Slots : j >= i => table[j].state = "KILLED"

TestInv(te, sh) ==
    TestWorld(k, te, sh) /\ TableHolds(k, p_rqs, te) /\ InLoop(k, p_rqs, rq, at, te)

LEMMA SlotsFinite ==
    ASSUME NEW table
    PROVE  IsFiniteSet(Unkilled(table)) /\ Cardinality(Unkilled(table)) \in Nat
<1>1. IsFiniteSet(Slots)
  BY FS_Interval, TestProcessesAssumption DEF Slots
<1>. QED
  BY <1>1, FS_Subset, FS_CardinalityType DEF Unkilled

LEMMA LivingQty ==
    ASSUME NEW s, Inv(s), NEW t, Inv(t),
           \A c \in Ctx : t.status[c] \in Live <=> s.status[c] \in Live
    PROVE  t.processQty = s.processQty
<1>1. Living(s) = Living(t)
  BY DEF Living
<1>. QED
  BY <1>1, LivingCount

\* What the programs are told of a change of the processor, or of a wait for te.
Alike(s, t, te, sh) ==
    \A d \in Ctx :
        /\ t.status[d] \in Live <=> s.status[d] \in Live
        /\ t.status[d] \in Live => /\ t.pid[d] = s.pid[d] /\ t.ground[d] = s.ground[d]
                                   /\ d # te => t.waitingList[d] = s.waitingList[d]
        /\ d # sh => (t.status[d] = "BLOCKED" <=> s.status[d] = "BLOCKED")

LEMMA AlikeKeeps ==
    ASSUME NEW s, NEW t, NEW te, NEW sh, NEW table, TestWorld(s, te, sh),
           TableHolds(s, table, te), Inv(t), AtConsole(t), Undead(t), Alike(s, t, te, sh)
    PROVE  TestWorld(t, te, sh) /\ TableHolds(t, table, te)
<1>1. /\ Inv(s) /\ te \in Ctx /\ sh \in Ctx /\ s.pid[sh] = SHELL_PID
      /\ s.status[te] \in Live /\ s.status[sh] \in Live
  BY DEF TestWorld
<1>2. \A d \in Ctx : /\ t.status[d] \in Live <=> s.status[d] \in Live
                     /\ t.status[d] \in Live => t.pid[d] = s.pid[d] /\ t.ground[d] = s.ground[d]
                     /\ t.status[d] \in Live /\ d # te => t.waitingList[d] = s.waitingList[d]
                     /\ d # sh => (t.status[d] = "BLOCKED" <=> s.status[d] = "BLOCKED")
  BY DEF Alike
<1>3. TestWorld(t, te, sh)
  <2>1. \A c \in Ctx : t.status[c] \in Live /\ IsForeground(t, c) => c = te
    BY <1>2 DEF TestWorld, IsForeground
  <2>2. \A c \in Ctx : t.status[c] \in Live /\ c # te => Unawaited(t, c)
    BY <1>2 DEF TestWorld, Unawaited
  <2>. QED BY <1>1, <1>2, <2>1, <2>2 DEF TestWorld
<1>4. t.processQty = s.processQty
  BY <1>1, <1>2, LivingQty
<1>5. \A i \in Slots : table[i].state # "KILLED" => \E c : Has(t, te, table[i], c)
  <2>. SUFFICES ASSUME NEW i \in Slots, table[i].state # "KILLED"
                PROVE  \E c : Has(t, te, table[i], c)
    OBVIOUS
  <2>1. PICK c : Has(s, te, table[i], c)
    BY DEF TableHolds
  <2>2. c # sh
    BY <1>1, <2>1 DEF Has, Targets
  <2>3. Has(t, te, table[i], c)
    BY <1>2, <2>1, <2>2 DEF Has
  <2>. QED BY <2>3
<1>. QED
  BY <1>3, <1>4, <1>5 DEF TableHolds

\* A tick, or a yield.
LEMMA TurnAlike ==
    ASSUME NEW s, NEW t, Turn(s, t), NEW te, NEW sh
    PROVE  Alike(s, t, te, sh) /\ (Undead(s) => Undead(t))
BY DEF Turn, Stays, SameProcess, Alike, Undead, Live

\* The slot i of the table gets the entry e.
Enters(table, i, pid, state, table2) ==
    table2 = [table EXCEPT ![i] = [pid |-> pid, state |-> state]]

LEMMA EnterProperty ==
    ASSUME NEW table \in TableType, NEW i \in Slots, NEW pid \in Pids \cup {NO_PROCESS},
           NEW state \in {"RUNNING", "BLOCKED", "KILLED"},
           NEW table2, Enters(table, i, pid, state, table2)
    PROVE  /\ table2 \in TableType /\ table2[i].pid = pid /\ table2[i].state = state
           /\ \A j \in Slots : j # i => table2[j] = table[j]
BY DEF Enters, TableType

\* An entry changes its state only.
EntersState(table, i, state, table2) == table2 = [table EXCEPT ![i].state = state]

LEMMA EnterState ==
    ASSUME NEW table \in TableType, NEW i \in Slots,
           NEW state \in {"RUNNING", "BLOCKED", "KILLED"},
           NEW table2, EntersState(table, i, state, table2)
    PROVE  Enters(table, i, table[i].pid, state, table2)
<1>1. table[i] \in [pid : Pids \cup {NO_PROCESS}, state : {"RUNNING", "BLOCKED", "KILLED"}]
  BY DEF TableType
<1>2. table[i] = [pid |-> table[i].pid, state |-> table[i].state]
  BY <1>1
<1>3. [table[i] EXCEPT !.state = state] = [pid |-> table[i].pid, state |-> state]
  BY <1>1
<1>4. [table EXCEPT ![i].state = state] = [table EXCEPT ![i] = [table[i] EXCEPT !.state = state]]
  OBVIOUS
<1>. QED
  BY <1>3, <1>4 DEF Enters, EntersState

\* One entry more, or one less, or as many as there were.
LEMMA UnkilledChange ==
    ASSUME NEW table \in TableType, NEW i \in Slots, NEW table2 \in TableType,
           \A j \in Slots : j # i => table2[j] = table[j]
    PROVE  /\ table[i].state = "KILLED" /\ table2[i].state # "KILLED"
                => Cardinality(Unkilled(table2)) = Cardinality(Unkilled(table)) + 1
           /\ table[i].state # "KILLED" /\ table2[i].state = "KILLED"
                => Cardinality(Unkilled(table2)) = Cardinality(Unkilled(table)) - 1
           /\ table[i].state # "KILLED" /\ table2[i].state # "KILLED"
                => Cardinality(Unkilled(table2)) = Cardinality(Unkilled(table))
<1>1. IsFiniteSet(Unkilled(table))
  BY SlotsFinite
<1>2. CASE table[i].state = "KILLED" /\ table2[i].state # "KILLED"
  <2>1. Unkilled(table2) = Unkilled(table) \cup {i} /\ i \notin Unkilled(table)
    BY <1>2 DEF Unkilled
  <2>. QED BY <1>1, <1>2, <2>1, FS_AddElement
<1>3. CASE table[i].state # "KILLED" /\ table2[i].state = "KILLED"
  <2>1. Unkilled(table2) = Unkilled(table) \ {i} /\ i \in Unkilled(table)
    BY <1>3 DEF Unkilled
  <2>. QED BY <1>1, <1>3, <2>1, FS_RemoveElement
<1>4. CASE table[i].state # "KILLED" /\ table2[i].state # "KILLED"
  <2>1. Unkilled(table2) = Unkilled(table)
    BY <1>4 DEF Unkilled
  <2>. QED BY <1>4, <2>1
<1>. QED
  BY <1>2, <1>3, <1>4

-----------------------------------------------------------------------------
(***************************************************************************)
(* The steps of testproc.                                                  *)
(***************************************************************************)

\* sys_createProcess: slot i was KILLED.
LEMMA BornKeeps ==
    ASSUME NEW s, NEW te, NEW sh, NEW table, TestWorld(s, te, sh), TableHolds(s, table, te),
           NEW i \in Slots, table[i].state = "KILLED",
           NEW t, NEW c, NEW pid, Born(s, t, c, pid, BACKGROUND),
           NEW table2, Enters(table, i, pid, "RUNNING", table2)
    PROVE  TestWorld(t, te, sh) /\ TableHolds(t, table2, te)
<1>1. /\ Inv(t) /\ AtConsole(t) /\ Undead(t) /\ c \in Ctx /\ pid \in Targets
      /\ s.status[c] = "FREED" /\ t.status[c] = "READY"
      /\ t.pid[c] = pid /\ t.ground[c] = BACKGROUND /\ Unawaited(t, c)
      /\ t.processQty = s.processQty + 1
      /\ \A d \in Ctx : s.status[d] \in Live => s.pid[d] # pid
      /\ \A d \in Ctx : d # c => /\ t.status[d] = s.status[d] /\ t.pid[d] = s.pid[d]
                                 /\ t.ground[d] = s.ground[d]
                                 /\ t.waitingList[d] = s.waitingList[d]
  BY DEF Born, SameProcess
<1>2. /\ te \in Ctx /\ s.status[te] \in Live /\ sh \in Ctx /\ s.status[sh] \in Live
      /\ te # c /\ sh # c
  BY <1>1 DEF TestWorld, Live
<1>3. TestWorld(t, te, sh)
  <2>1. \A d \in Ctx : t.status[d] \in Live /\ IsForeground(t, d) => d = te
    <3>1. ~ IsForeground(t, c)
      BY <1>1 DEF IsForeground, FOREGROUND, BACKGROUND
    <3>. QED BY <1>1, <3>1 DEF TestWorld, IsForeground
  <2>2. \A d \in Ctx : t.status[d] \in Live /\ d # te => Unawaited(t, d)
    BY <1>1 DEF TestWorld, Unawaited
  <2>. QED BY <1>1, <1>2, <2>1, <2>2 DEF TestWorld
<1>4. table \in TableType /\ pid \in Pids \cup {NO_PROCESS}
  BY <1>1 DEF TableHolds, Targets
<1>5. /\ table2 \in TableType /\ table2[i].pid = pid /\ table2[i].state = "RUNNING"
      /\ \A j \in Slots : j # i => table2[j] = table[j]
  BY <1>4, EnterProperty
<1>6. \A j \in Slots : j # i /\ table[j].state # "KILLED" =>
            \E d : Has(s, te, table[j], d) /\ Has(t, te, table2[j], d)
  <2>. SUFFICES ASSUME NEW j \in Slots, j # i, table[j].state # "KILLED"
                PROVE  \E d : Has(s, te, table[j], d) /\ Has(t, te, table2[j], d)
    OBVIOUS
  <2>1. PICK d : Has(s, te, table[j], d)
    BY DEF TableHolds
  <2>2. d # c
    BY <1>1, <2>1 DEF Has, Live
  <2>3. Has(t, te, table2[j], d)
    BY <1>1, <1>5, <2>1, <2>2 DEF Has
  <2>. QED BY <2>1, <2>3
<1>7. Has(t, te, table2[i], c)
  BY <1>1, <1>2, <1>5 DEF Has, Live
<1>8. \A j \in Slots : j # i /\ table[j].state # "KILLED" => table[j].pid # pid
  BY <1>1, <1>6 DEF Has
<1>9. Distinct(table2)
  BY <1>5, <1>8 DEF TableHolds, Distinct
<1>10. t.processQty = 3 + Cardinality(Unkilled(table2))
  <2>1. Cardinality(Unkilled(table2)) = Cardinality(Unkilled(table)) + 1
    BY <1>4, <1>5, UnkilledChange
  <2>. QED BY <1>1, <2>1, SlotsFinite DEF TableHolds
<1>11. \A j \in Slots : table2[j].state # "KILLED" => \E d : Has(t, te, table2[j], d)
  BY <1>5, <1>6, <1>7
<1>. QED
  BY <1>3, <1>5, <1>9, <1>10, <1>11 DEF TableHolds

\* kill, block or unblock one: c is the process of slot i and nobody else notices.
Touched(s, t, c) ==
    /\ Inv(t) /\ AtConsole(t) /\ Undead(t)
    /\ \A d \in Ctx : d # c => t.status[d] = s.status[d] /\ SameProcess(s, t, d)

LEMMA TouchedWorld ==
    ASSUME NEW s, NEW te, NEW sh, TestWorld(s, te, sh), NEW t,
           NEW c \in Ctx, c # te, s.pid[c] \in Targets, Touched(s, t, c),
           t.status[c] \in Live => SameProcess(s, t, c) /\ s.status[c] \in Live
    PROVE  TestWorld(t, te, sh)
<1>1. c # sh
  BY DEF TestWorld, Targets
<1>2. \A d \in Ctx : t.status[d] \in Live => SameProcess(s, t, d) /\ s.status[d] \in Live
  BY DEF Touched
<1>3. \A d \in Ctx : t.status[d] \in Live /\ IsForeground(t, d) => d = te
  BY <1>2 DEF TestWorld, IsForeground, SameProcess
<1>4. \A d \in Ctx : t.status[d] \in Live /\ d # te => Unawaited(t, d)
  BY <1>2 DEF TestWorld, Unawaited, SameProcess
<1>. QED
  BY <1>1, <1>3, <1>4 DEF TestWorld, Touched, SameProcess

\* The other entries keep their processes.
LEMMA TouchedOthers ==
    ASSUME NEW s, NEW te, NEW sh, NEW table, TestWorld(s, te, sh), TableHolds(s, table, te),
           NEW i \in Slots, table[i].state # "KILLED", NEW c, Has(s, te, table[i], c),
           NEW t, Touched(s, t, c),
           NEW j \in Slots, j # i, table[j].state # "KILLED"
    PROVE  \E d : Has(t, te, table[j], d)
<1>1. PICK d : Has(s, te, table[j], d)
  BY DEF TableHolds
<1>2. d # c
  BY <1>1 DEF Has, TableHolds, Distinct
<1>3. Has(t, te, table[j], d)
  BY <1>1, <1>2 DEF Has, Touched, SameProcess
<1>. QED
  BY <1>3

LEMMA StateKeeps ==
    ASSUME NEW s, NEW te, NEW sh, NEW table, TestWorld(s, te, sh), TableHolds(s, table, te),
           NEW i \in Slots, table[i].state # "KILLED", NEW c, Has(s, te, table[i], c),
           NEW t, Touched(s, t, c), SameProcess(s, t, c), t.status[c] \in Live,
           NEW state \in {"RUNNING", "BLOCKED"}, t.status[c] = "BLOCKED" <=> state = "BLOCKED",
           NEW table2, EntersState(table, i, state, table2)
    PROVE  TestWorld(t, te, sh) /\ TableHolds(t, table2, te)
<1>1. /\ c \in Ctx /\ c # te /\ s.status[c] \in Live /\ s.pid[c] = table[i].pid
      /\ table[i].pid \in Targets /\ t.pid[c] = s.pid[c] /\ Inv(s) /\ Inv(t)
  BY DEF Has, SameProcess, TestWorld, Touched
<1>2. TestWorld(t, te, sh)
  BY <1>1, TouchedWorld
<1>3. table \in TableType /\ table[i].pid \in Pids \cup {NO_PROCESS} /\ state # "KILLED"
  BY <1>1 DEF TableHolds, Targets
<1>4. Enters(table, i, table[i].pid, state, table2)
  BY <1>3, EnterState
<1>5. /\ table2 \in TableType /\ table2[i].pid = table[i].pid /\ table2[i].state = state
      /\ \A j \in Slots : j # i => table2[j] = table[j]
  BY <1>3, <1>4, EnterProperty
<1>6. t.processQty = s.processQty
  <2>1. \A d \in Ctx : t.status[d] \in Live <=> s.status[d] \in Live
    BY <1>1 DEF Touched
  <2>. QED BY <1>1, <2>1, LivingQty
<1>7. Cardinality(Unkilled(table2)) = Cardinality(Unkilled(table))
  BY <1>3, <1>5, UnkilledChange
<1>8. Has(t, te, table2[i], c)
  BY <1>1, <1>5 DEF Has
<1>9. \A j \in Slots : table2[j].state # "KILLED" => \E d : Has(t, te, table2[j], d)
  <2>1. \A j \in Slots : j # i /\ table[j].state # "KILLED" => \E d : Has(t, te, table[j], d)
    BY TouchedOthers
  <2>. QED BY <1>5, <1>8, <2>1
<1>10. Distinct(table2)
  BY <1>5 DEF TableHolds, Distinct
<1>. QED
  BY <1>2, <1>5, <1>6, <1>7, <1>9, <1>10 DEF TableHolds

LEMMA KilledKeeps ==
    ASSUME NEW s, NEW te, NEW sh, NEW table, TestWorld(s, te, sh), TableHolds(s, table, te),
           NEW i \in Slots, table[i].state # "KILLED", NEW c, Has(s, te, table[i], c),
           NEW t, Touched(s, t, c), t.status[c] = "FREED",
           NEW table2, EntersState(table, i, "KILLED", table2)
    PROVE  TestWorld(t, te, sh) /\ TableHolds(t, table2, te)
<1>1. /\ c \in Ctx /\ c # te /\ s.status[c] \in Live /\ s.pid[c] = table[i].pid
      /\ table[i].pid \in Targets /\ Inv(s) /\ Inv(t) /\ t.status[c] \notin Live
  BY DEF Has, TestWorld, Touched, Live
<1>2. TestWorld(t, te, sh)
  BY <1>1, TouchedWorld
<1>3. table \in TableType /\ table[i].pid \in Pids \cup {NO_PROCESS}
  BY <1>1 DEF TableHolds, Targets
<1>4. Enters(table, i, table[i].pid, "KILLED", table2)
  BY <1>3, EnterState
<1>5. /\ table2 \in TableType /\ table2[i].state = "KILLED"
      /\ \A j \in Slots : j # i => table2[j] = table[j]
  BY <1>3, <1>4, EnterProperty
<1>6. t.processQty = s.processQty - 1
  <2>1. Living(t) = Living(s) \ {c} /\ c \in Living(s)
    BY <1>1 DEF Touched, Living
  <2>2. Cardinality(Living(t)) = Cardinality(Living(s)) - 1
    BY <1>1, <2>1, LivingCount, FS_RemoveElement
  <2>. QED BY <1>1, <2>2, LivingCount
<1>7. Cardinality(Unkilled(table2)) = Cardinality(Unkilled(table)) - 1
  BY <1>3, <1>5, UnkilledChange
<1>8. \A j \in Slots : table2[j].state # "KILLED" => \E d : Has(t, te, table2[j], d)
  <2>1. \A j \in Slots : j # i /\ table[j].state # "KILLED" => \E d : Has(t, te, table[j], d)
    BY TouchedOthers
  <2>. QED BY <1>5, <2>1
<1>9. Distinct(table2)
  <2>1. Distinct(table)
    BY DEF TableHolds
  <2>2. \A j \in Slots : table2[j].state # "KILLED" => table2[j] = table[j]
    BY <1>5
  <2>. SUFFICES ASSUME NEW a \in Slots, NEW b \in Slots,
                       table2[a].state # "KILLED", table2[b].state # "KILLED",
                       table2[a].pid = table2[b].pid
                PROVE  a = b
    BY DEF Distinct
  <2>3. table2[a] = table[a] /\ table2[b] = table[b]
    BY <2>2
  <2>4. /\ table[a].state # "KILLED" /\ table[b].state # "KILLED"
        /\ table[a].pid = table[b].pid
    BY <2>3
  <2>. QED BY <2>1, <2>4 DEF Distinct
<1>10. t.processQty = 3 + Cardinality(Unkilled(table2))
  <2>1. s.processQty = 3 + Cardinality(Unkilled(table)) /\ Cardinality(Unkilled(table)) \in Nat
    BY SlotsFinite DEF TableHolds
  <2>. QED BY <1>6, <1>7, <2>1
<1>. QED
  BY <1>2, <1>5, <1>8, <1>9, <1>10 DEF TableHolds

\* Tester is the only foreground process but the shell.
LEMMA TesterIs ==
    ASSUME NEW s, NEW te, NEW sh, TestWorld(s, te, sh)
    PROVE  FirstIn(s.processList, {c \in Ctx : IsForeground(s, c)}) = te
<1>. DEFINE F     == {c \in Ctx : IsForeground(s, c)}
            first == FirstIn(s.processList, F)
<1>1. s.processList \in Seq(Ctx) /\ Lists(s)
  BY DEF TestWorld, Inv, Common, Kernel
<1>2. te \in ToSet(s.processList) /\ te \in F
  BY <1>1 DEF TestWorld, Lists, IsForeground, Targets
<1>3. /\ first = NULL <=> ToSet(s.processList) \cap F = {}
      /\ first # NULL => first \in ToSet(s.processList) \cap F
  BY <1>1, FirstInProperty
<1>. HIDE DEF first
<1>4. first \in ToSet(s.processList) /\ first \in F
  BY <1>2, <1>3
<1>5. first = te
  BY <1>1, <1>4 DEF TestWorld, Lists
<1>. QED
  BY <1>5 DEF first

LEMMA TesterHasCpu ==
    ASSUME NEW te, NEW sh, TestWorld(k, te, sh), NEW loop, TesterRuns(loop)
    PROVE  at = loop /\ k.currentProcess = te /\ k.currentPid = k.pid[te]
<1>1. Tester = te
  BY TesterIs DEF Tester
<1>2. te \in Ctx /\ Inv(k) /\ k.status[te] \in Live
  BY DEF TestWorld
<1>. QED
  BY <1>1, <1>2, RunningAlone DEF TesterRuns

\* One turn of a loop.
Advances(i, loop, following, i2, loop2) ==
    IF i < MAX_RQ THEN i2 = i + 1 /\ loop2 = loop ELSE i2 = 1 /\ loop2 = following

LEMMA LoopGoesOn ==
    ASSUME NEW s, NEW te, NEW table, NEW i, NEW loop, InLoop(s, table, i, loop, te),
           loop # "shell", NEW t, NEW table2, NEW following \in {"create", "act", "unblock"},
           loop = "create" => \A j \in Slots : j # i => table2[j] = table[j],
           following = "create" => \A j \in Slots : table2[j].state = "KILLED",
           NEW i2, NEW loop2, Advances(i, loop, following, i2, loop2)
    PROVE  InLoop(t, table2, i2, loop2, te)
<1>1. i \in Nat /\ i >= 1 /\ i <= MAX_RQ /\ MAX_RQ \in Nat /\ 1 \in Slots
  BY TestProcessesAssumption DEF InLoop, Slots
<1>2. CASE i < MAX_RQ
  <2>1. i2 = i + 1 /\ loop2 = loop
    BY <1>2 DEF Advances
  <2>2. i2 \in Slots
    BY <1>1, <1>2, <2>1 DEF Slots
  <2>3. loop = "create" => \A j \in Slots : j >= i2 => table2[j].state = "KILLED"
    <3>. SUFFICES ASSUME loop = "create", NEW j \in Slots, j >= i2
                  PROVE  table2[j].state = "KILLED"
      OBVIOUS
    <3>1. j >= i /\ j # i
      BY <1>1, <2>1 DEF Slots
    <3>. QED BY <3>1 DEF InLoop
  <2>. QED BY <2>1, <2>2, <2>3 DEF InLoop
<1>3. CASE ~ (i < MAX_RQ)
  <2>1. i2 = 1 /\ loop2 = following
    BY <1>3 DEF Advances
  <2>. QED BY <1>1, <2>1 DEF InLoop
<1>. QED
  BY <1>2, <1>3

\* Besides idle, the shell and the program itself.
RoomForTest == MAX_RQ + 3 <= MAX_PROCESS /\ MAX_RQ + 3 <= Cardinality(Ctx)

LEMMA CreatesKeeps ==
    ASSUME RoomForTest, NEW te, NEW sh, TestInv(te, sh), CreatesRq
    PROVE  TestInv(te, sh)'
<1>1. /\ TestWorld(k, te, sh) /\ TableHolds(k, p_rqs, te) /\ InLoop(k, p_rqs, rq, at, te)
      /\ Inv(k) /\ AtConsole(k) /\ Undead(k)
  BY DEF TestInv, TestWorld
<1>2. at = "create"
  BY DEF CreatesRq, TesterRuns
<1>3. rq \in Slots /\ p_rqs[rq].state = "KILLED" /\ p_rqs \in TableType
  BY <1>1, <1>2 DEF InLoop, Slots, TableHolds
<1>4. k.processQty < MAX_PROCESS /\ k.processQty < Cardinality(Ctx)
  <2>. DEFINE open == Cardinality(Unkilled(p_rqs))
  <2>1. open <= MAX_RQ - 1 /\ open \in Nat
    <3>1. IsFiniteSet(Slots) /\ Cardinality(Slots) = MAX_RQ
      BY FS_Interval, TestProcessesAssumption DEF Slots
    <3>2. IsFiniteSet(Slots \ {rq}) /\ Cardinality(Slots \ {rq}) = MAX_RQ - 1
      BY <1>3, <3>1, FS_RemoveElement
    <3>3. Unkilled(p_rqs) \subseteq Slots \ {rq}
      BY <1>3 DEF Unkilled
    <3>. QED BY <3>2, <3>3, FS_Subset, SlotsFinite
  <2>2. k.processQty = 3 + open
    BY <1>1 DEF TableHolds
  <2>3. MAX_PROCESS \in Nat /\ Cardinality(Ctx) \in Nat /\ MAX_RQ \in Nat
    BY SchedulerAssumption, TestProcessesAssumption, FS_CardinalityType
  <2>. HIDE DEF open
  <2>. QED BY <2>1, <2>2, <2>3 DEF RoomForTest
<1>5. /\ k' = Launch(k, OfConsole(BACKGROUND))
      /\ p_rqs' = [p_rqs EXCEPT ![rq] = [pid |-> k'.pid[Last(k'.processList)],
                                         state |-> "RUNNING"]]
      /\ Advances(rq, at, "act", rq', at')
  <2>1. k.processQty # MAX_PROCESS
    <3>1. k.processQty \in Nat /\ MAX_PROCESS \in Nat
      BY <1>1, SchedulerAssumption DEF Inv, Common, Kernel
    <3>. QED BY <1>4, <3>1
  <2>. QED BY <2>1 DEF CreatesRq, GoesOn, Advances
<1>6. ASSUME NEW t, t = k', NEW table2, table2 = p_rqs', NEW i2, i2 = rq', NEW loop2, loop2 = at'
      PROVE  TestWorld(t, te, sh) /\ TableHolds(t, table2, te) /\ InLoop(t, table2, i2, loop2, te)
  <2>1. \E c, pid : Born(k, t, c, pid, BACKGROUND)
    <3>1. BACKGROUND \in Grounds
      BY DEF Grounds
    <3>. QED BY <1>1, <1>4, <1>5, <1>6, <3>1, Launched
  <2>2. PICK c, pid : Born(k, t, c, pid, BACKGROUND)
    BY <2>1
  <2>3. t.pid[Last(t.processList)] = pid /\ pid \in Pids \cup {NO_PROCESS}
    BY <2>2 DEF Born, Targets
  <2>4. Enters(p_rqs, rq, pid, "RUNNING", table2)
    BY <1>5, <1>6, <2>3 DEF Enters
  <2>5. TestWorld(t, te, sh) /\ TableHolds(t, table2, te)
    BY <1>1, <1>3, <2>2, <2>4, BornKeeps
  <2>6. \A j \in Slots : j # rq => table2[j] = p_rqs[j]
    BY <1>3, <2>3, <2>4, EnterProperty
  <2>7. Advances(rq, at, "act", i2, loop2)
    BY <1>5, <1>6
  <2>8. InLoop(t, table2, i2, loop2, te)
    BY <1>1, <1>2, <2>6, <2>7, LoopGoesOn
  <2>. QED BY <2>5, <2>8
<1>. QED
  BY <1>6 DEF TestInv

\* The process of an entry can be found under its pid, and is not the one that runs.
LEMMA EntryFound ==
    ASSUME NEW s, NEW te, NEW sh, TestWorld(s, te, sh), NEW e, NEW c, Has(s, te, e, c)
    PROVE  /\ FindProcess(s, e.pid) = c /\ c # NULL
           /\ s.pid[c] = e.pid /\ s.pid[c] \in Targets /\ s.pid[c] # IDLE_PID
           /\ c # sh /\ ToSet(s.waitingList[c]) = {}
<1>1. c \in Ctx /\ s.status[c] \in Live /\ s.pid[c] = e.pid /\ e.pid \in Targets /\ c # te
  BY DEF Has
<1>2. FindProcess(s, e.pid) = c
  BY <1>1, FindsIt DEF TestWorld
<1>3. Unawaited(s, c)
  BY <1>1 DEF TestWorld
<1>. QED
  BY <1>1, <1>2, <1>3, SchedulerAssumption DEF TestWorld, Targets, Unawaited

\* The system calls, on the process of an entry.
KillsEntry(s, e, t)  == t \in KillProcess(s, e.pid)
BlocksEntry(s, e, t) == t = BlockProcess(s, e.pid)

LEMMA KillsTouch ==
    ASSUME NEW s, NEW te, NEW sh, TestWorld(s, te, sh), s.currentProcess = te,
           NEW e, NEW c, Has(s, te, e, c), NEW t, KillsEntry(s, e, t)
    PROVE  Touched(s, t, c) /\ t.status[c] = "FREED"
<1>1. /\ s.pid[c] = e.pid /\ s.pid[c] \in Targets /\ s.pid[c] # IDLE_PID /\ c # sh
      /\ ToSet(s.waitingList[c]) = {}
  BY EntryFound
<1>2. /\ Inv(s) /\ AtConsole(s) /\ Undead(s) /\ c \in Ctx /\ c # te /\ s.status[c] \in Live
      /\ sh \in Ctx /\ s.status[sh] \in Live
  BY DEF TestWorld, Has
<1>3. t \in Kill(s, c)
  <2>1. t \in KillProcess(s, s.pid[c])
    BY <1>1 DEF KillsEntry
  <2>. QED BY <1>1, <1>2, <2>1, KillsOnly
<1>4. \A w \in ToSet(s.waitingList[c]) : w = sh
  BY <1>1
<1>5. /\ Inv(t) /\ t.status[c] = IF s.currentProcess = c THEN "TERMINATED" ELSE "FREED"
      /\ \A d \in Ctx \ {c} :
            /\ SameProcess(s, t, d)
            /\ t.status[d] = IF /\ d = sh /\ s.status[sh] = "BLOCKED"
                                /\ sh \in ToSet(s.waitingList[c])
                             THEN "READY" ELSE s.status[d]
      /\ AtConsole(t)
  BY <1>1, <1>2, <1>3, <1>4, Killed
<1>6. t.status[c] = "FREED" /\ \A d \in Ctx : d # c => t.status[d] = s.status[d]
  BY <1>1, <1>2, <1>5
<1>7. Undead(t)
  BY <1>2, <1>6 DEF Undead
<1>. QED
  BY <1>5, <1>6, <1>7 DEF Touched

LEMMA BlocksTouch ==
    ASSUME NEW s, NEW te, NEW sh, TestWorld(s, te, sh), s.currentProcess = te,
           s.currentPid = s.pid[te],
           NEW e, NEW c, Has(s, te, e, c), e.state # "BLOCKED",
           NEW t, BlocksEntry(s, e, t)
    PROVE  Touched(s, t, c) /\ SameProcess(s, t, c) /\ t.status[c] = "BLOCKED"
<1>1. /\ FindProcess(s, e.pid) = c /\ c # NULL
      /\ s.pid[c] = e.pid /\ s.pid[c] \in Targets
  BY EntryFound
<1>2. /\ Inv(s) /\ AtConsole(s) /\ Undead(s) /\ c \in Ctx /\ c # te /\ s.status[c] \in Live
      /\ te \in Ctx /\ s.status[te] \in Live /\ s.status[c] # "BLOCKED"
      /\ s \in Kernel /\ Lists(s)
  BY DEF TestWorld, Has, Inv, Common
<1>3. s.status[c] = "READY" /\ ~ DetachFails(s, c)
  BY <1>2, DetachSucceeds DEF Live, Inv, Cpu
<1>4. s.currentPid # e.pid
  BY <1>1, <1>2, PidsDiffer
<1>5. t = MoveToBlocked(s, c)
  BY <1>1, <1>3, <1>4 DEF BlocksEntry, BlockProcess
<1>6. Inv(t)
  BY <1>1, <1>2, BlockProcessInv DEF BlocksEntry, Targets
<1>. DEFINE d0 == Detach(s, c)
<1>7. /\ d0 \in Kernel /\ SameProcesses(s, d0) /\ d0.status = s.status
      /\ d0.waitingList = s.waitingList
  BY <1>2, DetachProperty, WaitingListFrame
<1>8. t = [d0 EXCEPT !.blockedProcess[c] = @ + 1, !.status[c] = "BLOCKED"]
  BY <1>5 DEF MoveToBlocked
<1>. HIDE DEF d0
<1>9. /\ t.status = [s.status EXCEPT ![c] = "BLOCKED"] /\ t.pid = s.pid /\ t.ground = s.ground
      /\ t.waitingList = s.waitingList /\ t.fdIn = s.fdIn /\ t.fdOut = s.fdOut
  BY <1>7, <1>8 DEF Kernel, SameProcesses
<1>10. t.status[c] = "BLOCKED" /\ \A d \in Ctx : d # c => t.status[d] = s.status[d]
  BY <1>2, <1>9 DEF Kernel
<1>11. AtConsole(t) /\ Undead(t)
  BY <1>2, <1>9, <1>10 DEF AtConsole, Undead
<1>. QED
  BY <1>6, <1>9, <1>10, <1>11 DEF Touched, SameProcess

LEMMA UnblocksTouch ==
    ASSUME NEW s, NEW te, NEW sh, TestWorld(s, te, sh),
           NEW e, NEW c, Has(s, te, e, c), e.state = "BLOCKED",
           NEW t, t = SetReadyProcess(s, e.pid)
    PROVE  Touched(s, t, c) /\ SameProcess(s, t, c) /\ t.status[c] = "READY"
<1>1. s.pid[c] = e.pid /\ c \in Ctx /\ s.status[c] = "BLOCKED"
  BY DEF Has
<1>2. Inv(s) /\ AtConsole(s) /\ Undead(s)
  BY DEF TestWorld
<1>3. /\ Inv(t) /\ t.fdIn = s.fdIn /\ t.fdOut = s.fdOut
      /\ \A d \in Ctx : /\ SameProcess(s, t, d)
                        /\ t.status[d] = IF d = c THEN "READY" ELSE s.status[d]
  BY <1>1, <1>2, WaiterTurns
<1>4. AtConsole(t) /\ Undead(t)
  BY <1>2, <1>3 DEF AtConsole, Undead
<1>. QED
  BY <1>1, <1>3, <1>4 DEF Touched

\* What every step of the loop finds.
LEMMA TestInLoop ==
    ASSUME NEW te, NEW sh, TestInv(te, sh), NEW loop, TesterRuns(loop)
    PROVE  /\ TestWorld(k, te, sh) /\ TableHolds(k, p_rqs, te) /\ InLoop(k, p_rqs, rq, at, te)
           /\ at = loop /\ k.currentProcess = te /\ k.currentPid = k.pid[te]
           /\ rq \in Slots
<1>1. TestWorld(k, te, sh) /\ TableHolds(k, p_rqs, te) /\ InLoop(k, p_rqs, rq, at, te)
  BY DEF TestInv
<1>2. at = loop /\ k.currentProcess = te /\ k.currentPid = k.pid[te]
  BY <1>1, TesterHasCpu
<1>. QED
  BY <1>1, <1>2 DEF InLoop

\* And if the slot is not KILLED, the system call finds the process.
LEMMA RqIsKnown ==
    ASSUME NEW te, NEW sh, TestWorld(k, te, sh), TableHolds(k, p_rqs, te),
           rq \in Slots, p_rqs[rq].state # "KILLED"
    PROVE  (\E c : Has(k, te, p_rqs[rq], c)) /\ ~ Unknown(p_rqs[rq].pid)
<1>1. PICK c : Has(k, te, p_rqs[rq], c)
  BY DEF TableHolds
<1>2. FindProcess(k, p_rqs[rq].pid) = c /\ c # NULL
  BY <1>1, EntryFound
<1>. QED
  BY <1>1, <1>2 DEF Unknown

LEMMA KillsKeeps ==
    ASSUME NEW te, NEW sh, TestInv(te, sh), KillsRq
    PROVE  TestInv(te, sh)'
<1>1. TesterRuns("act") /\ p_rqs[rq].state # "KILLED"
  BY DEF KillsRq
<1>2. /\ TestWorld(k, te, sh) /\ TableHolds(k, p_rqs, te) /\ InLoop(k, p_rqs, rq, at, te)
      /\ at = "act" /\ k.currentProcess = te /\ rq \in Slots
  BY <1>1, TestInLoop
<1>3. (\E c : Has(k, te, p_rqs[rq], c)) /\ ~ Unknown(p_rqs[rq].pid)
  BY <1>1, <1>2, RqIsKnown
<1>4. PICK c : Has(k, te, p_rqs[rq], c)
  BY <1>3
<1>5. /\ k' \in KillProcess(k, p_rqs[rq].pid)
      /\ EntersState(p_rqs, rq, "KILLED", p_rqs')
      /\ Advances(rq, at, "unblock", rq', at')
  BY <1>3 DEF KillsRq, GoesOn, Advances, EntersState
<1>6. ASSUME NEW t, t = k', NEW table2, table2 = p_rqs', NEW i2, i2 = rq', NEW loop2, loop2 = at'
      PROVE  TestWorld(t, te, sh) /\ TableHolds(t, table2, te) /\ InLoop(t, table2, i2, loop2, te)
  <2>1. /\ KillsEntry(k, p_rqs[rq], t) /\ EntersState(p_rqs, rq, "KILLED", table2)
        /\ Advances(rq, at, "unblock", i2, loop2)
    BY <1>5, <1>6 DEF KillsEntry
  <2>2. Touched(k, t, c) /\ t.status[c] = "FREED"
    BY <1>2, <1>4, <2>1, KillsTouch, ZenonT(30)
  <2>3. TestWorld(t, te, sh) /\ TableHolds(t, table2, te)
    BY <1>1, <1>2, <1>4, <2>1, <2>2, KilledKeeps
  <2>4. InLoop(t, table2, i2, loop2, te)
    BY <1>2, <2>1, LoopGoesOn
  <2>. QED BY <2>3, <2>4
<1>. QED
  BY <1>6 DEF TestInv

LEMMA BlocksKeeps ==
    ASSUME NEW te, NEW sh, TestInv(te, sh), BlocksRq
    PROVE  TestInv(te, sh)'
<1>1. TesterRuns("act") /\ p_rqs[rq].state = "RUNNING"
  BY DEF BlocksRq
<1>2. /\ TestWorld(k, te, sh) /\ TableHolds(k, p_rqs, te) /\ InLoop(k, p_rqs, rq, at, te)
      /\ at = "act" /\ k.currentProcess = te /\ k.currentPid = k.pid[te] /\ rq \in Slots
  BY <1>1, TestInLoop
<1>3. (\E c : Has(k, te, p_rqs[rq], c)) /\ ~ Unknown(p_rqs[rq].pid)
  BY <1>1, <1>2, RqIsKnown
<1>4. PICK c : Has(k, te, p_rqs[rq], c)
  BY <1>3
<1>5. /\ k' = BlockProcess(k, p_rqs[rq].pid)
      /\ EntersState(p_rqs, rq, "BLOCKED", p_rqs')
      /\ Advances(rq, at, "unblock", rq', at')
  BY <1>3 DEF BlocksRq, GoesOn, Advances, EntersState
<1>6. ASSUME NEW t, t = k', NEW table2, table2 = p_rqs', NEW i2, i2 = rq', NEW loop2, loop2 = at'
      PROVE  TestWorld(t, te, sh) /\ TableHolds(t, table2, te) /\ InLoop(t, table2, i2, loop2, te)
  <2>1. /\ BlocksEntry(k, p_rqs[rq], t) /\ EntersState(p_rqs, rq, "BLOCKED", table2)
        /\ Advances(rq, at, "unblock", i2, loop2)
    BY <1>5, <1>6 DEF BlocksEntry
  <2>2. Touched(k, t, c) /\ SameProcess(k, t, c) /\ t.status[c] = "BLOCKED"
    BY <1>1, <1>2, <1>4, <2>1, BlocksTouch
  <2>3. t.status[c] \in Live
    BY <2>2 DEF Live
  <2>4. TestWorld(t, te, sh) /\ TableHolds(t, table2, te)
    BY <1>1, <1>2, <1>4, <2>1, <2>2, <2>3, StateKeeps
  <2>5. InLoop(t, table2, i2, loop2, te)
    BY <1>2, <2>1, LoopGoesOn
  <2>. QED BY <2>4, <2>5
<1>. QED
  BY <1>6 DEF TestInv

\* The program only counts.
LEMMA CountsKeeps ==
    ASSUME NEW te, NEW sh, TestInv(te, sh), NEW loop \in {"act", "unblock"}, TesterRuns(loop),
           NEW following \in {"create", "act", "unblock"}, GoesOn(following),
           following = "create" => ~ Alive(p_rqs), UNCHANGED << k, p_rqs >>
    PROVE  TestInv(te, sh)'
<1>1. /\ TestWorld(k, te, sh) /\ TableHolds(k, p_rqs, te) /\ InLoop(k, p_rqs, rq, at, te)
      /\ at = loop
  BY TestInLoop
<1>2. Advances(rq, at, following, rq', at')
  BY DEF GoesOn, Advances
<1>3. following = "create" => \A j \in Slots : p_rqs[j].state = "KILLED"
  BY DEF Alive
<1>4. ASSUME NEW i2, i2 = rq', NEW loop2, loop2 = at'
      PROVE  InLoop(k, p_rqs, i2, loop2, te)
  <2>1. Advances(rq, at, following, i2, loop2) /\ at # "shell" /\ at # "create"
    BY <1>1, <1>2, <1>4
  <2>. QED BY <1>1, <1>3, <2>1, LoopGoesOn
<1>. QED
  BY <1>1, <1>4 DEF TestInv

LEMMA UnblocksKeeps ==
    ASSUME NEW te, NEW sh, TestInv(te, sh), UnblocksRq
    PROVE  TestInv(te, sh)'
<1>1. TesterRuns("unblock")
  BY DEF UnblocksRq
<1>2. /\ TestWorld(k, te, sh) /\ TableHolds(k, p_rqs, te) /\ InLoop(k, p_rqs, rq, at, te)
      /\ at = "unblock" /\ rq \in Slots
  BY <1>1, TestInLoop
<1>3. CASE /\ p_rqs[rq].state = "BLOCKED" /\ k' = SetReadyProcess(k, p_rqs[rq].pid)
           /\ EntersState(p_rqs, rq, "RUNNING", p_rqs')
           /\ Advances(rq, at, "act", rq', at')
  <2>1. PICK c : Has(k, te, p_rqs[rq], c)
    BY <1>2, <1>3, RqIsKnown
  <2>2. ASSUME NEW t, t = k', NEW table2, table2 = p_rqs', NEW i2, i2 = rq', NEW loop2, loop2 = at'
        PROVE  TestWorld(t, te, sh) /\ TableHolds(t, table2, te) /\ InLoop(t, table2, i2, loop2, te)
    <3>1. /\ t = SetReadyProcess(k, p_rqs[rq].pid) /\ EntersState(p_rqs, rq, "RUNNING", table2)
          /\ Advances(rq, at, "act", i2, loop2)
      BY <1>3, <2>2
    <3>2. Touched(k, t, c) /\ SameProcess(k, t, c) /\ t.status[c] = "READY"
      BY <1>2, <1>3, <2>1, <3>1, UnblocksTouch
    <3>3. t.status[c] \in Live /\ t.status[c] # "BLOCKED" /\ p_rqs[rq].state # "KILLED"
      BY <1>3, <3>2 DEF Live
    <3>4. TestWorld(t, te, sh) /\ TableHolds(t, table2, te)
      BY <1>2, <2>1, <3>1, <3>2, <3>3, StateKeeps
    <3>5. InLoop(t, table2, i2, loop2, te)
      BY <1>2, <3>1, LoopGoesOn
    <3>. QED BY <3>4, <3>5
  <2>. QED BY <2>2 DEF TestInv
<1>4. CASE p_rqs[rq].state = "BLOCKED" /\ Unknown(p_rqs[rq].pid)
  BY <1>2, <1>4, RqIsKnown
<1>5. CASE GoesOn(IF Alive(p_rqs) THEN "act" ELSE "create") /\ UNCHANGED << k, p_rqs >>
  <2>1. CASE Alive(p_rqs)
    BY <1>1, <1>5, <2>1, CountsKeeps
  <2>2. CASE ~ Alive(p_rqs)
    BY <1>1, <1>5, <2>2, CountsKeeps
  <2>. QED BY <2>1, <2>2
<1>. QED
  BY <1>3, <1>4, <1>5 DEF UnblocksRq, GoesOn, Advances, EntersState

\* With the pid of the shell runs the shell.
LEMMA ShellHasCpu ==
    ASSUME NEW s, NEW te, NEW sh, TestWorld(s, te, sh), s.currentPid = SHELL_PID
    PROVE  s.currentProcess = sh
<1>. DEFINE c == s.currentProcess
<1>1. /\ Inv(s) /\ Undead(s) /\ s \in Kernel /\ Identity(s) /\ Cpu(s)
      /\ sh \in Ctx /\ s.status[sh] \in Live /\ s.pid[sh] = SHELL_PID
  BY DEF TestWorld, Inv, Common
<1>2. c # NULL /\ c \in Ctx
  <2>1. SHELL_PID # NO_PROCESS
    BY DEF SHELL_PID, NO_PROCESS
  <2>. QED BY <1>1, <2>1 DEF Cpu, Kernel
<1>3. s.status[c] = "RUNNING" /\ s.pid[c] = SHELL_PID
  BY <1>1, <1>2 DEF Cpu, Undead
<1>. HIDE DEF c
<1>4. c = sh
  BY <1>1, <1>2, <1>3 DEF Identity, Live
<1>. QED
  BY <1>4 DEF c

LEMMA WaitAlike ==
    ASSUME NEW s, NEW te, NEW sh, NEW t, BlockedBehind(s, sh, te, t)
    PROVE  Inv(t) /\ AtConsole(t) /\ Undead(t) /\ Alike(s, t, te, sh)
<1>1. Inv(t) /\ AtConsole(t) /\ Undead(t)
  BY DEF BlockedBehind, Undead
<1>2. \A d \in Ctx : t.status[d] \in Live => t.status[d] # "FREED"
  BY DEF Live
<1>3. Alike(s, t, te, sh)
  BY <1>2 DEF BlockedBehind, Alike
<1>. QED
  BY <1>1, <1>3

LEMMA ShellWaitsKeeps ==
    ASSUME NEW te, NEW sh, TestInv(te, sh), ShellWaitsForTest
    PROVE  TestInv(te, sh)'
<1>1. /\ TestWorld(k, te, sh) /\ TableHolds(k, p_rqs, te) /\ InLoop(k, p_rqs, rq, at, te)
      /\ at = "shell" /\ k.currentPid = SHELL_PID
      /\ at' = "create" /\ p_rqs' = p_rqs /\ rq' = rq
  BY DEF TestInv, ShellWaitsForTest
<1>2. Tester = te /\ k.currentProcess = sh
  BY <1>1, TesterIs, ShellHasCpu DEF Tester
<1>3. k' = WaitProcess(k, k.pid[te])
  BY <1>2 DEF ShellWaitsForTest
<1>4. /\ Inv(k) /\ AtConsole(k) /\ sh \in Ctx /\ k.status[sh] \in Live /\ k.pid[sh] # IDLE_PID
      /\ te \in Ctx /\ te # sh /\ k.status[te] \in Live /\ Unawaited(k, te)
  BY <1>1 DEF TestWorld, InLoop, Targets, SHELL_PID, IDLE_PID
<1>5. ASSUME NEW t, t = k'
      PROVE  TestWorld(t, te, sh) /\ TableHolds(t, p_rqs, te) /\ InLoop(t, p_rqs, rq, "create", te)
  <2>1. t = WaitProcess(k, k.pid[te])
    BY <1>3, <1>5
  <2>2. BlockedBehind(k, sh, te, t)
    BY <1>2, <1>4, <2>1, CallerWaits
  <2>3. Inv(t) /\ AtConsole(t) /\ Undead(t) /\ Alike(k, t, te, sh)
    BY <2>2, WaitAlike
  <2>4. TestWorld(t, te, sh) /\ TableHolds(t, p_rqs, te)
    BY <1>1, <2>3, AlikeKeeps
  <2>. QED BY <1>1, <2>4 DEF InLoop
<1>. QED
  BY <1>1, <1>5 DEF TestInv

\* The timer interrupt, whoever runs.
LEMMA TickKeeps ==
    ASSUME NEW te, NEW sh, TestInv(te, sh), TimerTick, UNCHANGED << p_rqs, rq, at >>
    PROVE  TestInv(te, sh)'
<1>1. TestWorld(k, te, sh) /\ TableHolds(k, p_rqs, te) /\ InLoop(k, p_rqs, rq, at, te)
  BY DEF TestInv
<1>2. /\ Inv(k) /\ AtConsole(k) /\ Undead(k) /\ te \in Ctx /\ k.status[te] \in Live
      /\ Mid(k)
  BY <1>1, InvIsMid DEF TestWorld
<1>3. ASSUME NEW t, t = k'
      PROVE  TestWorld(t, te, sh) /\ TableHolds(t, p_rqs, te) /\ InLoop(t, p_rqs, rq, at, te)
  <2>1. t = Schedule(k)
    BY <1>3 DEF TimerTick
  <2>2. Inv(t) /\ AtConsole(t) /\ Turn(k, t)
    BY <1>2, <2>1, ScheduleInv, ConsoleSchedule, ScheduleTurn
  <2>3. Alike(k, t, te, sh) /\ Undead(t)
    BY <1>2, <2>2, TurnAlike
  <2>4. TestWorld(t, te, sh) /\ TableHolds(t, p_rqs, te)
    BY <1>1, <1>2, <2>2, <2>3, AlikeKeeps
  <2>5. Unawaited(k, te) => Unawaited(t, te)
    BY <1>2, <2>2 DEF Turn, Stays, SameProcess, Unawaited, Live
  <2>. QED BY <1>1, <2>4, <2>5 DEF InLoop
<1>. QED
  BY <1>3 DEF TestInv

\* Idle and the shell, and nobody else yet.
LEMMA BootedLives ==
    ASSUME NEW b, IsBoot(b), NEW s, s = Schedule(b)
    PROVE  /\ Inv(s) /\ AtConsole(s) /\ Undead(s) /\ s.processQty = 2
           /\ \A c \in Ctx : s.status[c] \in Live =>
                s.pid[c] \in {IDLE_PID, SHELL_PID} /\ Unawaited(s, c)
<1>1. /\ Inv(b) /\ b.currentProcess = NULL /\ AtConsole(b)
      /\ \A c \in Ctx : b.waitingList[c] = << >>
      /\ \A c \in Ctx : b.status[c] # "FREED" => b.pid[c] \in {IDLE_PID, SHELL_PID}
  BY BootInv
<1>2. Undead(b)
  BY <1>1, SchedulerAssumption DEF Undead, Inv, Cpu
<1>3. Inv(s) /\ AtConsole(s) /\ Turn(b, s)
  BY <1>1, InvIsMid, ScheduleInv, ConsoleSchedule, ScheduleTurn
<1>4. Undead(s)
  BY <1>2, <1>3 DEF Turn, Stays, Undead
<1>5. \A c \in Ctx : s.status[c] \in Live =>
        b.status[c] # "FREED" /\ s.pid[c] = b.pid[c] /\ s.waitingList[c] = b.waitingList[c]
  BY <1>3 DEF Turn, Stays, SameProcess, Live
<1>6. \A c \in Ctx : s.status[c] \in Live => s.pid[c] \in {IDLE_PID, SHELL_PID} /\ Unawaited(s, c)
  <2>1. ToSet(<< >>) = {}
    BY DEF ToSet
  <2>. QED BY <1>1, <1>5, <2>1 DEF Unawaited
<1>7. s.processQty = 2
  <2>1. Identity(s) /\ Survivors(s)
    BY <1>3 DEF Inv, Common
  <2>2. PICK idle \in Ctx, shell \in Ctx :
            /\ s.pid[idle] = IDLE_PID /\ s.status[idle] \in Live
            /\ s.pid[shell] = SHELL_PID /\ s.status[shell] \in Live
    BY <2>1 DEF Survivors, Live
  <2>3. idle # shell
    BY <2>2 DEF IDLE_PID, SHELL_PID
  <2>4. Living(s) = {idle} \cup {shell}
    BY <1>6, <2>1, <2>2 DEF Living, Identity
  <2>5. IsFiniteSet({idle}) /\ Cardinality({idle}) = 1
    BY FS_Singleton
  <2>6. Cardinality({idle} \cup {shell}) = 2
    BY <2>3, <2>5, FS_AddElement
  <2>. QED BY <1>3, <2>4, <2>6, LivingCount
<1>. QED
  BY <1>3, <1>4, <1>6, <1>7

\* The shell starts the program in the foreground: it is the first with a waiter to come.
LEMMA StartedWorld ==
    ASSUME NEW s, Inv(s), NEW sh \in Ctx, s.status[sh] \in Live, s.pid[sh] = SHELL_PID,
           \A c \in Ctx : s.status[c] \in Live =>
                s.pid[c] \in {IDLE_PID, SHELL_PID} /\ Unawaited(s, c),
           NEW t, NEW te, NEW pid, Born(s, t, te, pid, FOREGROUND)
    PROVE  TestWorld(t, te, sh)
<1>1. /\ Inv(t) /\ AtConsole(t) /\ Undead(t) /\ te \in Ctx /\ t.status[te] \in Live
      /\ t.pid[te] \in Targets /\ t.ground[te] = FOREGROUND /\ s.status[te] = "FREED"
      /\ \A d \in Ctx : d # te => t.status[d] = s.status[d] /\ SameProcess(s, t, d)
  BY DEF Born, Live
<1>2. sh # te
  BY <1>1 DEF Live
<1>3. t.status[sh] \in Live /\ t.pid[sh] = SHELL_PID
  BY <1>1, <1>2 DEF SameProcess
<1>4. \A c \in Ctx : t.status[c] \in Live /\ IsForeground(t, c) => c = te
  <2>. SUFFICES ASSUME NEW c \in Ctx, t.status[c] \in Live, IsForeground(t, c), c # te
                PROVE  FALSE
    OBVIOUS
  <2>1. s.status[c] \in Live /\ t.pid[c] = s.pid[c]
    BY <1>1 DEF SameProcess
  <2>2. t.pid[c] = IDLE_PID
    BY <2>1 DEF IsForeground
  <2>3. t.ground[c] = BACKGROUND
    BY <1>1, <2>2 DEF Inv, Common, Roles
  <2>. QED BY <2>3 DEF IsForeground, FOREGROUND, BACKGROUND
<1>5. \A c \in Ctx : t.status[c] \in Live /\ c # te => Unawaited(t, c)
  BY <1>1 DEF SameProcess, Unawaited
<1>. QED
  BY <1>1, <1>3, <1>4, <1>5 DEF TestWorld

LEMMA EmptyTable ==
    ASSUME TableInit
    PROVE  /\ p_rqs \in TableType /\ \A i \in Slots : p_rqs[i].state = "KILLED"
           /\ Distinct(p_rqs) /\ Cardinality(Unkilled(p_rqs)) = 0
<1>1. p_rqs \in TableType /\ \A i \in Slots : p_rqs[i].state = "KILLED"
  BY DEF TableInit, TableType
<1>2. Unkilled(p_rqs) = {}
  BY <1>1 DEF Unkilled
<1>. QED
  BY <1>1, <1>2, FS_EmptySet DEF Distinct

LEMMA StartedKeeps ==
    ASSUME RoomForTest, k = TestStarted, TableInit
    PROVE  \E te, sh : TestInv(te, sh)
<1>1. IsBoot(Booted)
  BY BootedIsBoot, TestSyncAssumption
<1>2. PICK s : s = Schedule(Booted)
  OBVIOUS
<1>3. /\ Inv(s) /\ AtConsole(s) /\ Undead(s) /\ s.processQty = 2
      /\ \A c \in Ctx : s.status[c] \in Live =>
            s.pid[c] \in {IDLE_PID, SHELL_PID} /\ Unawaited(s, c)
  BY <1>1, <1>2, BootedLives
<1>4. PICK sh \in Ctx : s.pid[sh] = SHELL_PID /\ s.status[sh] \in Live
  BY <1>3 DEF Inv, Common, Survivors
<1>5. s.processQty < MAX_PROCESS /\ s.processQty < Cardinality(Ctx)
  <2>1. MAX_RQ \in Nat /\ MAX_PROCESS \in Nat /\ Cardinality(Ctx) \in Nat
    BY TestProcessesAssumption, SchedulerAssumption, FS_CardinalityType
  <2>. QED BY <1>3, <2>1 DEF RoomForTest
<1>6. \E te, pid : Born(s, k, te, pid, FOREGROUND)
  <2>1. k = Launch(s, OfConsole(FOREGROUND)) /\ FOREGROUND \in Grounds
    BY <1>2 DEF TestStarted, Grounds
  <2>. QED BY <1>3, <1>5, <2>1, Launched
<1>7. PICK te, pid : Born(s, k, te, pid, FOREGROUND)
  BY <1>6
<1>8. TestWorld(k, te, sh)
  BY <1>3, <1>4, <1>7, StartedWorld
<1>9. /\ p_rqs \in TableType /\ \A i \in Slots : p_rqs[i].state = "KILLED"
      /\ Distinct(p_rqs) /\ Cardinality(Unkilled(p_rqs)) = 0
  BY EmptyTable
<1>10. TableHolds(k, p_rqs, te)
  <2>1. k.processQty = 3
    BY <1>3, <1>7 DEF Born
  <2>. QED BY <1>9, <2>1 DEF TableHolds
<1>11. InLoop(k, p_rqs, rq, at, te)
  BY <1>7, <1>9, TestProcessesAssumption DEF InLoop, TableInit, Slots, Born
<1>. QED
  BY <1>8, <1>10, <1>11 DEF TestInv

LEMMA PassesKeeps ==
    ASSUME NEW te, NEW sh, TestInv(te, sh), PassesRq
    PROVE  TestInv(te, sh)'
BY CountsKeeps DEF PassesRq

\* Another program leaves the table as it was.
TableInv ==
    IF program = "testproc" THEN \E te, sh : TestInv(te, sh)
    ELSE at = "shell" /\ \A i \in Slots : p_rqs[i].state = "KILLED"

LEMMA TableStepInv ==
    ASSUME RoomForTest, TableInv, [ProgramsNext]_programVars
    PROVE  TableInv'
<1>1. program' = program
  BY DEF ProgramsNext, TestSyncRuns, TestProcRuns, AnybodyRuns, AnyTick, ofPrograms, programVars
<1>2. CASE program # "testproc"
  <2>1. at' = at /\ p_rqs' = p_rqs
    BY <1>2 DEF ProgramsNext, TestSyncRuns, TestProcRuns, AnybodyRuns, AnyTick,
                ofPrograms, ofTestProc, programVars
  <2>. QED BY <1>1, <1>2, <2>1 DEF TableInv
<1>3. CASE program = "testproc"
  <2>1. PICK te, sh : TestInv(te, sh)
    BY <1>3 DEF TableInv
  <2>2. TesterStep \/ (TimerTick /\ UNCHANGED << p_rqs, rq, at >>) \/ UNCHANGED << k, p_rqs, rq, at >>
    BY <1>3 DEF ProgramsNext, TestSyncRuns, TestProcRuns, AnybodyRuns, AnyTick,
                ofPrograms, ofTestProc, programVars
  <2>3. ASSUME TesterStep PROVE TestInv(te, sh)'
    BY <2>1, <2>3, ShellWaitsKeeps, CreatesKeeps, KillsKeeps, BlocksKeeps, UnblocksKeeps, PassesKeeps
    DEF TesterStep
  <2>4. ASSUME TimerTick /\ UNCHANGED << p_rqs, rq, at >> PROVE TestInv(te, sh)'
    BY <2>1, <2>4, TickKeeps
  <2>5. ASSUME UNCHANGED << k, p_rqs, rq, at >> PROVE TestInv(te, sh)'
    BY <2>1, <2>5 DEF TestInv
  <2>6. TestInv(te, sh)'
    BY <2>2, <2>3, <2>4, <2>5
  <2>. QED BY <1>1, <1>3, <2>6 DEF TableInv
<1>. QED
  BY <1>2, <1>3

\* The process of an entry that is not KILLED, found under its pid.
LEMMA TableTells ==
    ASSUME NEW te, NEW sh, TestInv(te, sh)
    PROVE  TableIsTrue
<1>1. TestWorld(k, te, sh) /\ TableHolds(k, p_rqs, te) /\ InLoop(k, p_rqs, rq, at, te)
  BY DEF TestInv
<1>2. at # "error"
  BY <1>1 DEF InLoop
<1>3. ASSUME NEW i \in Slots, p_rqs[i].state # "KILLED"
      PROVE  LET c == FindProcess(k, p_rqs[i].pid)
             IN  /\ c # NULL
                 /\ (k.status[c] = "BLOCKED") = (p_rqs[i].state = "BLOCKED")
                 /\ \A j \in Slots \ {i} : p_rqs[j].state # "KILLED" => p_rqs[j].pid # p_rqs[i].pid
  <2>1. PICK c : Has(k, te, p_rqs[i], c)
    BY <1>1, <1>3 DEF TableHolds
  <2>2. FindProcess(k, p_rqs[i].pid) = c /\ c # NULL
    BY <1>1, <2>1, EntryFound
  <2>3. k.status[c] = "BLOCKED" <=> p_rqs[i].state = "BLOCKED"
    BY <2>1 DEF Has
  <2>4. \A j \in Slots \ {i} : p_rqs[j].state # "KILLED" => p_rqs[j].pid # p_rqs[i].pid
    BY <1>1, <1>3 DEF TableHolds, Distinct
  <2>. QED BY <2>2, <2>3, <2>4
<1>4. k.processQty = 3 + Cardinality({i \in Slots : p_rqs[i].state # "KILLED"})
  BY <1>1 DEF TableHolds, Unkilled
<1>. QED
  BY <1>2, <1>3, <1>4 DEF TableIsTrue

\* The table of testproc, of any length, is true while the kernel has room for
\* its processes: none of its system calls fails, a process that it killed is
\* gone, one that it blocked stays blocked until it unblocks it, and no pid of
\* the table is given to another process, at whichever instruction the timer
\* interrupts the program.
THEOREM TableIsTrueCorrect ==
    ASSUME RoomForTest
    PROVE  ProgramsSpec => []TableIsTrue
<1>1. ProgramsInit => TableInv
  BY StartedKeeps, EmptyTable DEF ProgramsInit, TableInv, TableInit
<1>2. TableInv /\ [ProgramsNext]_programVars => TableInv'
  BY TableStepInv
<1>3. TableInv => TableIsTrue
  BY TableTells DEF TableInv, TableIsTrue
<1>4. ProgramsSpec => ProgramsInit /\ [][ProgramsNext]_programVars
  BY PTL DEF ProgramsSpec
<1>. QED
  BY <1>1, <1>2, <1>3, <1>4, PTL

=============================================================================
