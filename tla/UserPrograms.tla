----------------------------- MODULE UserPrograms -----------------------------
(***************************************************************************)
(* What runs on the kernel, one of three that a behaviour chooses at its   *)
(* start: the program testsync, the program testproc, or any processes at  *)
(* all, the most general client of the scheduler.                          *)
(***************************************************************************)
EXTENDS TestSync, TestProcesses

CONSTANT ANY_CTX    \* model bound: the addresses of any processes

ASSUME AnyAssumption == ANY_CTX \subseteq Ctx

VARIABLE program    \* what runs; it never changes

ofTestSync  == << sems, global, pc, locals, pids, printed >>
ofTestProc  == << p_rqs, rq, at >>
ofPrograms  == << ofTestSync, ofTestProc, program >>
programVars == << k, ofPrograms >>

ProgramsInit ==
    /\ program \in {"testsync", "testproc", "any"}
    /\ k = IF program = "testproc" THEN TestStarted ELSE Booted
    /\ LocalsInit
    /\ TableInit

TestSyncRuns == program = "testsync" /\ ProgramStep /\ UNCHANGED << ofTestProc, program >>
TestProcRuns == program = "testproc" /\ TesterStep /\ UNCHANGED << ofTestSync, program >>

AnybodyRuns ==
    /\ program = "any"
    /\ Next /\ \A c \in Ctx \ ANY_CTX : k'.status[c] = "FREED"
    /\ UNCHANGED ofPrograms

AnyTick == TimerTick /\ UNCHANGED ofPrograms

ProgramsNext == TestSyncRuns \/ TestProcRuns \/ AnybodyRuns \/ AnyTick

TestSyncCanRun == program = "testsync" /\ CanStep

\* The timer interrupt is periodic, and programs run with interrupts on.  For
\* testsync, also, the processor executes the program of the process it is given:
\* strong fairness of the steps that TestSyncCanRun enables (spelled out because
\* TLC evaluates it faster than ENABLED).  Nothing makes any processes do more.
ProgramsSpec ==
    /\ ProgramsInit /\ [][ProgramsNext]_programVars
    /\ WF_programVars(AnyTick)
    /\ []<>TestSyncCanRun => []<><< TestSyncRuns >>_programVars

-----------------------------------------------------------------------------
(***************************************************************************)
(* Properties.                                                             *)
(***************************************************************************)

\* The test of semaphores ends: no wake-up by a semaphore or by the death of a
\* process that is waited for is lost.
TestEnds == program = "testsync" => <>Ended

=============================================================================
