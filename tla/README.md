# Verification of the TP2-SO-2C2025 kernel

TLA+ models of the kernel in `src/Kernel` and of the user programs in
`src/Userland/SampleCodeModule` that exercise it, TLC configurations that
model-check them, and TLAPS proofs of the invariants that everything else
rests on. Paths below are relative to `src/`.

## 1. The system

A 64-bit single-processor teaching kernel with preemptive scheduling,
semaphores, pipes, two interchangeable memory managers, a keyboard and a video
driver, and a shell with test programs.

**Atomicity.** Every IDT entry is an interrupt gate
(`Kernel/idtLoader.c`), so a system call or an interrupt handler runs with
interrupts off from beginning to end. The only way to lose the processor inside
the kernel is `yield()`, which raises `int 0x20` itself and thereby calls
`schedule()`. Hence: one handler is one action, except that a handler which
blocks its caller in the middle (`sem_wait` inside a pipe operation) is two.

**The hard part** is what the tests of the repository can hardly reach:
the pids and addresses that outlive the process they named, Ctrl+C hitting a
process anywhere in its program, and a wake-up meeting a process that is
no longer, or not yet, asleep.

| Component | State | Operations | Talks to | Hard because |
|---|---|---|---|---|
| Scheduler and process table (`utils/processes/scheduler.c`, `process.c`) | process, ready and blocked lists, current process and quantum, one context per process (pid, priority, ground, descriptors, status, waiting list) | createProcess, schedule, yield, setReadyProcess, blockProcess, killProcess, killCurrentProcess, killForegroundProcess, waitProcess, changePriority, ps | memory manager (contexts and stacks), timer, keyboard (Ctrl+C), semaphores | a killed process goes on running until the next switch; pids and addresses are reused; waiting lists keep addresses of the dead; the death of a pipe end kills the other end |
| Semaphores (`utils/semaphores/semaphores.c`) | per identifier: active, counter, queue of pids | sem_create, open, destroy, wait, post | blockProcess, setReadyProcess; posted by the keyboard interrupt | token handed directly to a waiter that may be dead, woken by somebody else, or another process with the same pid |
| Pipes (`utils/pipes/pipes.c`) | 16 ring buffers of 512 bytes, reader and writer counts, three semaphore ids each | createPipe, readPipe, writePipe, closePipe, clearPipe | semaphores; `syscall_read`, `write`, `exit`; the shell | three semaphores are waited for one after the other; close posts and destroys them under the readers' feet |
| Keyboard (`utils/drivers/keyboard.c`) | ring buffer, start and size, shift and control flags, a semaphore | keyboardHandler, writeKey, getScancode, getAscii | semaphores, killForegroundProcess, console | interrupt against several readers; Ctrl+C empties the buffer and leaves its semaphore |
| Bitmap memory manager (`utils/memory/bitmap.c`) | one mark per block, counter of used blocks | mm_create, mm_alloc, mm_free, mm_info | every kernel component that allocates | the end of an allocation is known only from the marks of its neighbours |
| Buddy memory manager (`utils/memory/buddy.c`) | a binary tree of node states, bytes used | the same four | the same | splitting and merging, exponents against levels |
| Doubly linked list (`utils/doubleLinkedList.c`) | nodes, size, an iterator in the list itself | add, addFirst, remove, first, iterate | scheduler, semaphores, process contexts | one iterator per list, removal during iteration |
| System calls (`syscalls.c`) | none | dispatch, range checks, exit | all of the above | exit of a pipe writer is close, switch, kill, switch |
| Interrupts and time (`idtLoader.c`, `irqDispatcher.c`, `asm/`, `time.c`) | tick counter | timer and keyboard entry | scheduler, keyboard | nested timer interrupt from yield |
| Shell and built-ins (`Userland/SampleCodeModule/shell.c`, `stdio.c`) | the children and pipes of a command, the line being edited | start, pipe, wait, background, read_line | system calls, keyboard, console | programs at any point when killed; two children that wait for each other |
| mvar (`Userland/SampleCodeModule/mvar.c`) | a pipe, a print semaphore, the colour of the console | mvar_manager, mvar_writer, mvar_reader | pipes, semaphores, video | readers share one colour; everybody may wait for everybody |
| testsync, testproc (`Userland/SampleCodeModule/tests`) | a shared counter; a table of processes | the programs | processes, semaphores | the program's own picture of the kernel against the kernel's |
| Video (`utils/drivers/video.c`) | cursor, font, colour, the buffer of printed characters and its index | printChar, printNewline, backspace, setFontSize, videoClear | shell, keyboard (`^D`), every program | 16-bit index and coordinates; the shell erases what it believes it printed |
| Libraries, exceptions, boot loader, toolchain | none | helpers | – | no shared state that the rest depends on |

What makes each one correct:

* *Scheduler*: every live process is in exactly the lists its status says,
  once; only one process runs; pids identify processes; idle and the shell
  cannot die; nobody ready starves; nobody who waits for a dead process stays
  blocked; a dead process stays dead and its memory comes back once its stack is left.
* *Semaphores*: the counter never goes below zero; no token is kept from a
  waiter; a token goes to a process that waits.
* *Memory managers*: no two areas overlap, each is large enough, freeing
  one leaves the others alone, NULL only when there is no room, exact accounting.
* *Pipes*: bytes arrive in order and once; a blocked reader sees data or end of file;
  the buffer does not overflow.
* *Keyboard*: keys are read once and in order, whoever reads them; nobody sleeps on a key that is
  in the buffer; what is typed is read.
* *List*: it behaves like a sequence, also when a loop removes what it is visiting.
* *Console*: editing a line stays on the screen and in the buffer and spares the prompt.
* *testsync*: mutual exclusion, a final value of 0, termination.
* *testproc*: its table names the processes it started, in the states they are in.
* *mvar*: each letter is printed in its reader's colour, and letters go on being printed.

## 2. Modules

| Module | Models |
|---|---|
| `Scheduler` | `scheduler.c` and the scheduling half of `process.c`, as functions of the kernel state, plus boot and a most general client |
| `Semaphores` | `semaphores.c` on top of `Scheduler` |
| `KernelClients`, `MCKernel` | three kinds of arbitrary processes on top of both |
| `WaitHistory`, `MCWaitHistory` | the scheduler and a history variable: whom each process waits for |
| `MCSemaphores` | constants for the semaphores by themselves, with waiters that are killed |
| `TestSync` | the program `tests/test_sync.c`, step by step, started by the shell, on `Semaphores` and first-fit allocation |
| `TestProcesses` | the program `tests/test_processes.c` on `Scheduler` |
| `UserPrograms`, `MCUserPrograms` | one of testsync, testproc or any processes, under one timer |
| `ByteChannel` | a first-in first-out queue with a bound, which loses nothing while it is `open`: the promise of `include/pipes.h`, and what a key buffer has to be |
| `PipeManager`, `MCPipes` | `pipes.c` and the system calls that use it, with `syscall_exit`, on `Semaphores`; shown to implement `ByteChannel` |
| `Pipeline`, `MCPipeline` | the shell's `p1 \| p2` (`handle_piped_commands`), its two programs, Ctrl+C, on `PipeManager` |
| `Mvar`, `MCMvar` | the program `mvar.c` and the colour of the console, on `PipeManager` |
| `Keyboard` | `keyboard.c` on `Semaphores`; shown to implement `ByteChannel` |
| `KeyReaders`, `MCKeyReaders` | the shell and `cat` as readers of the keyboard, and the user |
| `Allocator` | the promise of `include/memoryManagement.h`, whichever manager is compiled in |
| `BitmapMemory`, `BuddyMemory` | `bitmap.c` and `buddy.c`, each shown to implement `Allocator` |
| `SequenceList` | the promise of `include/doubleLinkedList.h`: a sequence that may be edited while it is visited |
| `LinkedList` | `doubleLinkedList.c`, pointers and iterator, shown to implement `SequenceList` |
| `Console`, `MCConsole` | the screen (`video.c`) and the line that the shell edits on it (`read_line` of `stdio.c`) |
| `Parts`, `MCParts` | the two memory managers, the list and the console side by side, for one run |
| `ListLemmas` | lemmas on sequences without repetition (append, remove, first match), and induction for a set of numbers |
| `KernelProofs`, `PipeProofs`, `PipelineProofs`, `MvarProofs`, `ProgramProofs`, `KeyboardProofs`, `PartsProofs` | the theorems: each EXTENDS the modules it is about; `KernelProofs` is about the scheduler and the semaphores, and all but `PartsProofs` extend it, `PipelineProofs` and `MvarProofs` through `PipeProofs` |

`Semaphores` and `TestProcesses` EXTEND `Scheduler`; `KernelClients`, `TestSync`, `PipeManager` and
`Keyboard` EXTEND `Semaphores`; `Pipeline` and `Mvar` EXTEND `PipeManager`, `KeyReaders`
EXTENDS `Keyboard`. `BitmapMemory`, `BuddyMemory`, `PipeManager`, `Keyboard` and `LinkedList`
INSTANCE their abstract specification with a refinement mapping.

### State and actions of `Scheduler`

The variable `k` is the struct `schedulerCDT` together with the
`ProcessContext` structs its lists point to. Contexts are identified by their
address, an element of `Ctx`, because that is where the difficulties are: a pid
or an address that some list still holds may by now belong to somebody else.
Each C function `f` is an operator `F(k, ...)` that returns the state after it;
`Kill` and what calls it return the *set* of such states, because `kill()`
reads the pid in memory that may have been freed (any value of `StalePids`).
The doubly linked lists are sequences. `blockedProcess` is a count per address:
nothing ever reads its order.

Actions are the timer interrupt, Ctrl+C, and one action per system call that
changes scheduling state, made by whoever runs, in any order: a most general
client. It excludes only what the userland cannot do: no program blocks,
kills or renices idle or the shell (the built-ins refuse to, tests act on their
children), idle only halts, the shell never exits.

A process that was killed while running (by Ctrl+C) stays `TERMINATED` on its own stack and
goes on making system calls until the next `schedule()`, as in the code.

`WaitingList` entries are never removed when a waiter dies, as in the code.

### `Semaphores` and `KernelClients`

`sems` is the array of `semaphore_t`; the spinlock is not part of it, since it
is taken and released within one handler with interrupts off.

A behaviour of `KernelClients` is one of a single kind of client: *processes* (every scheduler
call, pipelines and Ctrl+C, no semaphores), *orderly* (several semaphores, nobody is killed or unblocked)
or *disturbed* (one semaphore, everything may happen). The kinds differ in what may be claimed:
after `unblock` a waiter returns from `sem_wait` without a token, by design of the code,
so "each post with a waiter wakes one" is a property of the orderly.

### `TestSync`, `TestProcesses` and `UserPrograms`

In `TestSync` `pc[c]` is the place in the program of context `c`; `slowInc` is read, yield,
write in three steps, and the timer may come between any two steps. In `TestProcesses` `at` is the
loop of the program, `rq` its index and `p_rqs` its table; each random choice is a choice of
actions, and a system call that reports an error leads to `"error"`, where the program gives up.

### `Keyboard` and `KeyReaders`

`kb` holds the static variables of the driver. `keyboardHandler` is one action whose alternatives are
those of the code, in its order (modifiers, Ctrl+C, Ctrl+D, release, key). A reader that finds a token
goes from `getchar` through `getAscii` in one action; one that sleeps is at `"inRead"`, behind
`sem_wait` and with interrupts off, until it has the processor again. `tokenLost` observes that
`kill` took a reader that had been woken for a key: that key stays in the buffer without a token, and the
properties except it. The shell is also the one that starts and kills `cat`, in the foreground and in the background.

### `Mvar`

Writers and readers are numbered from 1, as the bytes they write and the colours they print in.
Reading, setting and restoring the colour are three system calls and three actions.
`random_pause` yields once instead of one to four times: the timer may come between any two steps, so the other
yields reach nothing new. When a worker cannot be created the manager reports it under the print semaphore
(`log_spawn_error`: `LogWaits`, `LogsError`), as the readers print; its message must come out in the console's colour.

### `LinkedList`

`node` is the memory of the nodes and `list` the struct, iterator included. A loop of the kernel is
`ToBegin`, then `NextInList` and possibly `RemoveGiven`, then `Leave`. `order`, the nodes in the order
of the links, is observed only; `DoublyLinked` says that the pointers agree with it.

### `Console`

`screen` is the cursor, the font and the character buffer; a character is one of four kinds.
The shell is at its `prompt`, `reading` a line of `len` characters, or at a `command`. `read_line` erases a character with
three system calls, a backspace, a blank and a backspace, which are the three actions `Erase`, `EraseBlank` and `EraseBack`; in the phases `back` and
`blank`, after the first and the second, the process may be preempted. Other programs print, clear and erase at any moment, there too, once the
shell may have started one, and Ctrl+D is shown at any moment. `disturbed` observes that somebody moved what `read_line` counts on (a clear, a backspace by `cat`, a buffer
that is full in the middle of a line or of an erasure, a Ctrl+D that the line stores and nobody sees): what `read_line` promises is stated for undisturbed
lines, and what happens to a disturbed one is finding 5.

### `BitmapMemory`

One mark per block; the scan of `mm_alloc` is the least element of `Gaps(n)`.
Two C outcomes are two actions (`MmAllocServes`/`MmAllocFails`,
`MmFreeReleases`/`MmFreeIgnores`). `lastCall` records a call and its return
value, so that the refinement compares what callers see.

### `BuddyMemory`

The array `tree` as in the code. The recursive `findFreeNode` and `setMerge` and the
loops of `splitTree` and `getNodeIndex` are sets of nodes: where the search may end
(it takes the least), which ancestors are freed with a node, which are split.
`used` is kept as the code keeps it, drift and unsigned comparison included.
Callers free only what they hold: on any other pointer `getNodeIndex` reads
behind the tree.

### `PipeManager` and `Pipeline`

`pipes` is the array of `pipe_t`. An operation is cut where a `sem_wait` may
block: `ReadLoop`, `ReadMutex` and `ReadBody` are the code of `readPipe` from
its first `sem_wait`, from its second, and after it. If the `sem_wait` does not
block the next part follows in the same action; if it does, `call[c]` records where
`c` goes on, and `ResumeCall` continues there once `c` has the processor again.
Interrupts are off in between (`InterruptsOn`), as in the code. A system call
returns its value in `call[c].value`. `delivered` is observed only, for the refinement.

`Pipeline` adds the program counters of the shell and of the two programs. p1
writes at most `N` bytes and may exit earlier (a `filter` whose input ends); p2
reads to the end of file or exits without reading (`ps`). Either may fail to be
created; the shell does not look at that, and neither does the model.

### Faults

An operator whose comment begins with "Fault" is a plausible bug: a dropped
check, a swapped order, an off-by-one. No specification uses it.
`PROJECT.json` ("mutants") says which operator it replaces and which property
then fails; every property of every passing run has one.

## 3. Runs

| Run | Instance | Shows |
|---|---|---|
| `kernel` | 4 contexts and pids, one pipe, 2 semaphores; 339,000 states up to symmetry | list consistency, one running process, identity of pids, survival of idle and shell, FIFO ready list, no lost wake-up of `waitProcess`, the dead stay dead; counters and queues of the semaphores whatever is killed, woken or destroyed; a post of the undisturbed wakes exactly one waiter |
| `programs` | 6 contexts; testsync: one pair of workers, 3 iterations; testproc: a table of 3; any processes: 3 contexts, priorities 1 and 2; 17,000 states | mutual exclusion, final value 0 and termination of testsync; the table of testproc is true; every ready process runs; a process killed while running is freed |
| `mvar` | 6 contexts (idle, the shell, the manager, 1 writer and 3 readers, of which one finds no context until the manager is gone), a pipe of 1 byte; 567,000 states | colours never mix, not with the message about the missing reader either; letters are printed for ever |
| `keyboard` | 4 contexts, a buffer of 3, 5 codes out of 8 (Ctrl, Shift, C, D, a letter, Enter, two releases); 120,000 states | the keys come out in order and once; no key without a token; what is typed is read |
| `parts` | bitmap: 6 blocks of 2 bytes, all requests 0..11, all pointers; buddy: a tree over 8 units of which 11 bytes are managed, requests around every power of two; list: 3 nodes, 2 pointers to store; console: 5 by 5 pixels, fonts of 1 and 2, a buffer of 5, lines of 3, at most 2 Ctrl+D unread; 446,000 states | both managers implement `Allocator` and refuse only what does not fit, the bitmap counts exactly, the buddy tree is always merged and its counter never too small; the list is a sequence; undisturbed editing stays on the screen and spares the prompt |
| `pipes` | 5 contexts (three processes besides idle and shell), one pipe of 2 bytes, 2 byte values; 377,000 states up to symmetry | the pipe is a `ByteChannel`; its semaphores hold one token per byte and one per free place |
| `pipeline` | 4 contexts, 2 pipes of 2 bytes, identifiers for two pipes, 3 bytes to write, one Ctrl+C; 554,000 states | the prompt returns and means that nothing is left; the mutex stays with nobody |
| `wait_violation` | 4 contexts | *violated*: `waitProcess` returns only when its target is dead |
| `sem_kill_violation` | 4 contexts, 1 semaphore, kills | *violated*: a post with a waiter wakes a process that waits |
| `pipeline_eof_violation` | as `pipeline`, 1 byte, no Ctrl+C | *violated*: close wakes blocked readers with the end of file |
| `pipeline_background_violation` | the same, with `p1 \| p2 &` | *violated*: the shell comes back to its prompt |
| `console_violation` | the console of `parts` | *violated*: erasing a character of the line leaves the index in the character buffer (`EraseStaysInBuffer`) |

`kernel`, `programs` and `parts` each choose at the start which of several things a behaviour is about
(`client`, `program`, `part`): the state spaces add up and do not multiply.

### Why these bounds are enough

* 4 contexts are idle, the shell and two others: the least for a pipe with two
  ends, a waiter and its target, and a context that is reused while
  somebody still holds its address. The counterexamples of the violation runs need no more.
  `MAX_PROCESS` equals the number of contexts, so createProcess meets a full
  table and the smallest free pid is a reused one.
* `MAX_WAITERS`, `MAX_QUEUE`, `MAX_COUNT` cap a waiting list, a wait queue and a
  counter. 1 waiter suffices in `kernel` because entries may already be stale
  duplicates of a live address; `wait_violation` uses 2. A queue of 3 holds more entries
  than there are processes that may block.
* `StalePids` is every pid in `kernel` (freed memory may hold anything)
  and "no pid" in the others, the mildest outcome, which keeps the findings
  independent of undefined behaviour.
* 3 contexts of any processes suffice for liveness: one that may be overtaken and two that overtake it, with two quanta.
  Three entries of testproc: with the tester, the shell and idle they fill the table, so every pid is reused
  while the others are blocked, ready or dead.
* A key buffer of 3 holds two keys (the driver keeps one place free) and wraps; five codes make it full and
  still leave a Ctrl+C and a key after it. Two readers sleep while the third runs or dies.
* One writer and two readers of mvar are the least that can mix colours; a third reader is one too many for the
  contexts, so the manager reports an error while the others print. A pipe of one byte makes each of them block.
* 6 blocks hold three fragmented areas with gaps between them; sizes go past both the
  largest request and the whole heap, pointers past both ends.
  The buddy tree has four levels, and units at and beyond the end of the managed size; `MAX_USED` lets
  its drifting counter exceed that size, where the check of `mm_alloc` wraps.
* A list of 3 nodes has a head, a middle and a tail to remove, at, before and behind the iterator; two
  stored pointers make duplicates.
* On a screen of 5 by 5 pixels both fonts wrap lines and scroll, and a buffer of 5 is exceeded in the middle of a line and
  of an erasure. Two ends of file can wait to be read (`MAX_EOF`): one for the shell and one for another reader, or two for one line.
  2^16 is kept, so the index and the coordinates wrap as in the code.
* A pipe buffer of 2 bytes wraps and has a full, an empty and a mixed state; 3 bytes make the
  writer block on it. Identifiers 1..6 serve two pipes, so a third `createPipe` fails in
  the middle of its `sem_create`s, as the tenth does in the kernel. One byte per
  call is what all callers do; two values tell a byte from a stale one.
  One Ctrl+C reaches every point of a pipeline; further presses meet the same points.
* Contexts are symmetric in the runs without liveness (the code compares addresses only for
  equality); no symmetry is used for liveness. Where a program decides which context it gets (`FirstFit`) they are numbers.

### Fairness

* `ProgramsSpec`: weak fairness of the timer tick, because the PIT is periodic and programs run with
  interrupts on; and, for testsync, that the processor executes the program of the process it was given
  (strong fairness of its steps, since ticks come between them). `ReadyRuns` and `ZombieReaped` rest on the tick alone.
* `PipelineSpec`, `MvarSpec`, `ReadersSpec`: strong fairness of the tick, because it is impossible inside a system call, and
  of the steps of whoever has the processor.

The fairness asks only for steps that *change* something (`SF`, `CanGoOn`, `CanStep`): a kernel that goes round a loop
without effect satisfies it and is a violation of the liveness property, not a
behaviour that is excluded. Where `[]<>P => []<><<A>>_v` is written, `P` is what enables `A`; it stands for `SF_v(A)` and is faster to evaluate.
Nothing is assumed of any other process, of users or of the keyboard.

Deadlock checking is on wherever there is a timer, which can always tick. It is off in `parts` and
`console_violation`: the model of the console ends when the index has left the buffer, since the next
character would overwrite memory that is not modelled.

## 4. What is proved

For every number of contexts, pids, pipes, programs and stale values
(`SchedulerAssumption`, `ProgramsAssumption`):

* `Invariance`: the inductive invariant `IInv` of `Scheduler`. It conjoins
  `TypeOK`, `ListsMatchStatus`, `CurrentOwnsCpu`, `PidsIdentify` and `IdleAndShellSurvive`, which the run `kernel`
  checks, and `RolesKept`, which nothing else needs. None of them is inductive alone:
  that kill spares idle needs that idle has no descriptors and no
  foreground (`RolesKept`); that `schedule()` queues the process it interrupts just
  once (`ListsMatchStatus`) needs that it is the running one and in no list (`CurrentOwnsCpu`); that
  `findProcess` finds *the* process (`PidsIdentify`) needs that the dead are in no list. Freed fields have
  fixed values, so `TypeOK` needs nothing of them.
* `TypeCorrect`, `ListsCorrect`, `CpuCorrect`, `PidsCorrect`,
  `SurvivorsCorrect`, `RolesCorrect`: the invariants one by one.

  The argument has one lemma per kernel operator (`Schedule`, `BlockProcess`,
  `SetReadyProcess`, `Kill`, `CreateProcess`, ...), each saying that it preserves
  the invariant under its C precondition; the step theorem
  has one case per action. `kill()` is the interesting one: `Wake` of any
  set of wakeable processes, then `Bury`. It holds whatever the freed memory held.

* `SemSchedulerCorrect`: the scheduler's lists stay right under every semaphore
  operation and interrupt post: each `SemNext` step leaves `k` as a
  scheduler step would, or stutters.
* `SemTypeCorrect`, `TokensCorrect`: no counter goes below zero, every queue holds pids, and nobody is
  queued on a semaphore that has tokens (`NoTokenWithheld`), whatever is killed, unblocked, destroyed or posted by
  the keyboard. Of the purge in `sem_post` the proof needs only that it leaves a sequence of pids
  (`PurgeProperty`).
* `DeadStayDeadCorrect`, `WaitersCorrect`: the action properties `DeadStayDead`
  and `WaitersAreWoken`. A step is a chain of handlers (kill, kill of the pipe's other end, yield), so both are proved of relations between the state
  before and after a handler: `Fate` (the dead stay dead, nobody begins to wait, the living keep their waiting lists),
  `Wakes` (those who were blocked in the waiting list of one that dies no longer are) and `Spares` (nobody dies).
  `Lawful`, which is `Fate` and `Wakes`, composes, because what one handler woke the next does not block;
  `Gentle`, which is `Fate` and `Spares`, implies it. Handlers that may block their caller kill nobody and are `Mild`.
  `WaitersAreWoken` survives stale addresses in a waiting list since the loop of `kill()` reaches every waiter
  that can be woken whatever else is in the list (`WakeOrdersCover`).
* `FirstComeFirstServedCorrect`: nobody overtakes anybody in the ready list. Again a relation between the list before
  and after a handler, `InOrder`, that composes; it does only as long as whoever is in both lists was never taken out in between
  (`StillQueued`), which is where each handler has to be looked at.

The semaphores by themselves, for any number of processes, semaphores and queues (also in `KernelProofs`): a process has a
*home*, the semaphore that it is at, and the invariant `Orderly` says that each queue holds pids of processes that are blocked and at home in
it, each once; `Peaceful` adds that nobody blocked at a semaphore is also in a waiting list (`WaitersApart`). `Supply` is
the tokens of a semaphore together with the processes it let through that have not gone home since; each operation changes
it by what it should. The homes are not in the code: the invariant says that some assignment exists, and each client proves it for its own.

* `OrderlyQueuesCorrect`, `OrderlyPostCorrect` (module `ProgramProofs`): most general clients that nobody disturbs. The queues hold
  blocked processes only, each once (`OrderlyQueuesHoldTheBlocked`), and a post that meets somebody wakes a process that waits
  (`OrderlyPostWakesAWaiter`). The invariant is `Peaceful` for some homes; it also needs that everybody is on the console, since the death of the
  other end of a pipe would take a queued process away.
* `MutualExclusionCorrect`: at most one process of testsync, of any number, is between `sem_wait` and `sem_post`. The home
  of a worker follows from its program counter (`Place`); `SyncState` says that `Supply` is at most 1, that only processes
  that run have a program (`Programmed`) and that the semaphore is created before there are workers (`InTurn`).
* `PrintsZeroCorrect`: what test_sync prints is 0. Each worker owes its sign for every iteration that it has not written; the invariant
  `Accounts` says that the shared variable and the debts of all workers add up to 0 (or to `-N` between the creation of a
  decrementer and of its incrementer), and that what a worker has read is still the value when it writes, which
  takes `MutualExclusion`. Debts are counted as pairs of a worker and an iteration (`Shares`), since a sum over a set would be a fold. `Family` says whom test_sync
  has still to wait for: a worker that is not done has its pid among those left, or test_sync sleeps in its waiting list. Pids are
  reused while workers are still being created, so a pid may be there twice, and one wait may be for another worker than it was meant for.
* `TableIsTrueCorrect`: testproc never reports an error and its table is true, for any number of processes, if there is room for
  them besides idle, the shell and the program itself (`RoomForTest`; the number is an argument of the program, and with too large a one it
  does give up). `TestWorld` says that nobody is dead and not yet freed, that the program is the only foreground process
  but the shell, and the only one that somebody waits for, so that a kill wakes nobody; `TableHolds`, that each entry that is not `KILLED` has a living process
  of its own and that `processQty` counts these and three more; `InLoop`, that the slots which the first loop has still to fill are
  `KILLED`. That a pid and a context are left for one process more is a count (`LivingCount`, `FreePid`, `FreeContext`): `processQty`
  is the number of contexts whose process lives, and these have different pids.

For any number of pipes, bytes of a buffer, semaphores, readers and writers (`PipesAssumption`), of `SharingSpec`:

* `SharingInvariantHolds`: the inductive invariant `Sharing`. For each pipe that was made, `Balanced`: the bytes in the buffer are the
  `Supply` of `semReaders`, the free places that of `semWriters`, and the mutex has its token and no waiter. The home of a process
  follows from where it goes on (`Homes`). The count of a buffer is then never 0 for a reader that has got its token nor full for a writer, so the loop of
  `readPipe` never goes round and no byte is dropped; and no process ever blocks with a mutex in its hands.
* `DataTokensCorrect`, `RoomTokensCorrect`, `MutexCorrect`: `TokensMatchData`, `TokensMatchRoom`, `MutexIsFree`. The
  last one also holds under closing, exits and Ctrl+C, which the run `pipeline` checks: see `PipelineMutexCorrect` below.
* `PipesImplementChannels`: every pipe implements `ByteChannel` under `queue <- Contents(pipes[i])` and `open <- pipes[i].isOpen`.

A pipe of which `createPipe` could make only some semaphores stays open in its slot with identifiers that do not exist;
nobody gets its number. The properties speak of pipes that are `Made`.

* `PromptMeansOverCorrect` (module `PipelineProofs`): when the shell prompts again, Ctrl+C or not, both processes of `p1 | p2` are gone and no
  pipe is left that could be used (`PromptMeansOver` of `PipelineSpec`), for any number of contexts, pids, pipes and semaphores, any grounds of
  the two commands and any number of Ctrl+C. It holds for `p1 | p2 &` too because that wait, for pid 0, never ends (finding 4).
  The invariant is `Over(sh)`, sh being the shell's context, and has these parts besides the scheduler's `Inv`:
  `IsShell`: only the shell waits for anybody. `Family`: which processes may live at each point of the shell (`Expected`), and that the
  one it has just begun to wait for (`Target`), if it lives, is the one with the shell in its waiting list, and then the shell is blocked.
  `Tidy`: the semaphores of different pipes have different numbers, the mutex of a usable pipe is active and free and nobody queues there, and
  the shell is in no queue. `Calls`: nobody is blocked for the mutex of a usable pipe, and the shell and idle are in no call.
  `Fits`: at the prompt no pipe is usable, and elsewhere at most the one whose descriptor the shell has.
  While the shell does nothing, each handler takes the scheduler from one state to another by `Passes`: nobody is created, waiting lists stay,
  and the shell is woken only if one it waited for has died (`Freed`). The relation composes, so `Kept` carries the invariant
  through the parts of a pipe call, one by one. The posts with which `closePipe` signals the end of file are a fold, `SignalReaders`; `SignalKept` proves
  by induction on their number that the fold is some sequence of posts and keeps what one post keeps (`Posts`). The run `pipeline` was used to
  check parts of the invariant with TLC before the proof.
* `PipelineMutexCorrect`: `MutexIsFree` of `PipelineSpec`, from the same invariant (`Tidy` and `Calls`).
* `ColourCorrect` (module `MvarProofs`): `ColourIsOwn` of `MvarSpec`, for any number of writers, readers and contexts, whichever `createProcess`
  fails. The invariant has three parts. `World`: the print semaphore, with the processes it let in, has at most one
  token (`Placed`), those that have done more than return from `sem_wait` are awake (`HoldersAwake`), only the shell and what it
  started have programs (`Programmed`), and before the semaphore is made there are no workers (`InTurn`). `Fine`
  adds that no pipe has the print semaphore among its own, whatever its identifiers are, and that a process that goes on
  inside the kernel was reading or writing. It says nothing of where a process is that does not print: its home can be settled anew
  at each step (`SettledElsewhere`), so the colours do not depend on pipes being right. `Painted`: the colour is
  that of the reader between its second and fourth call, and else the console's, so what is saved and restored is the console's.

For every heap size, block size and set of requests and pointers (`BitmapAssumption`):

* `BitmapInvariance`: `BitmapTypeOK`, `UsedIsExact` and `Shape`: every `USED`
  block has a `FREE`-less run back to a `BORDER`. Without `Shape`, freeing one area could
  leave blocks of another that belong to nobody, and the extents would not be the areas
  that were handed out.
* `BitmapTypeCorrect`, `UsedCorrect`, `NullOnlyWhenNoRoomCorrect` (the search ends at the first run of free blocks that is
  long enough: `RoomIsServed`), and `BitmapRefinesAllocator`: every step
  of `bitmap.c` is a step of `Allocator` under the mapping
  `live <- LiveAreas`.

For every set of pointers and any number of nodes:

* `ListLinksCorrect` and `ListRefinesSequence`, from the inductive invariant `ListInv`: types, `DoublyLinked`, and that the
  iterator of a loop is at a node of the list or at its end, with what `nextInList` returned last before it. Without the
  last part a removal could free the node that the loop goes to next. The proof names the order of the nodes (`Chain`),
  shows once what adding at the end and taking out the node in place i do to it, and finds each C operation to be one of the two
  on `SequenceList`'s sequence, or to change nothing in it.

For every depth of the tree, size of the heap and set of requests (`BuddyAssumption`), all in `PartsProofs`:

* `TreeIsMergedCorrect`: the tree stays merged (`TreeIsMerged`, which is inductive). A call of `mm_alloc` is `Takes(n)` and one of `mm_free`
  `GivesBack(n)` for some node n (`AllocTakes`, `FreesGiveBack`: the node that `getNodeIndex` looks for from the pointer is used and begins there). The
  ancestors of a node are reached one level at a time (`Up`, `UpAgain`); where the way from a node that is not free first meets the way from n, it comes
  from a buddy on n's way (`WaysMeet`), so `setMerge`, which only goes on where the buddy is free, leaves nothing in use below what it frees
  (`NothingBelowMerged`).
* `UsedIsEnoughCorrect`, `BuddyTypeCorrect`: the `used` that `mm_info` reports is never less than what is in use, and this counter does not
  pass below zero, although `mm_free` subtracts half of what it should. Nothing is said of `free`, the unsigned
  difference of the size and `used`, which wraps once `used` has drifted past the size. The sum over the used nodes is a fold; it is replaced by a function on the
  sets of nodes (`Total`), of which `TotalWithout` says that any node may be added last.
* `BuddyFailsOnlyWhenNoRoomCorrect`: `mm_alloc` finds every aligned free run there is, because below each split node is a
  used one (`SplitHoldsUsed`, which is where `TreeIsMerged` is needed).
* `BuddyRefinesAllocator`: every step of `buddy.c` is a step of `Allocator`. The units of a node are those whose leaf has it on its way
  up (`UnitsAreBelow`), so two areas meet only if one node is above the other (`UnitsMeet`), and no used node is above another.

Of 2^n the provers know nothing when n is a variable. `PowNext`, from which the rest follows, is proved by counting: 2^n is the number of subsets of
`1 .. n` (`FS_SUBSET` of the library), and those of `1 .. n + 1` are those with and those without `n + 1`. Where a fact needs
induction on a number, `InductionForSet` gives it for the *set* of numbers for which the fact holds, from their least counterexample, without an operator as a parameter.

For every size of screen, fonts, buffer and messages (`ConsoleAssumption`):

* `EditingStaysOnScreenCorrect`, `PromptSurvivesCorrect`: as long as nobody disturbs the line, what is typed and erased stays on
  the screen, and the prompt stays in the buffer before it. The invariant `ConsoleInv` says that the cursor is at least as many characters after the
  top left corner as the line shows (`FarAs`): one less than `read_line` counts after the first backspace of an erasure (`Shown`), whoever
  prints before the blank and the second one (`LineGoesBack`, `EraseBlankSafe`, `EraseBackSafe`). A scroll takes it no
  further back than the longest line reaches (`NewlineFar`), and a backspace at the left edge goes to the end of the row above. Drawing the buffer anew, after a scroll
  or in another font, is a fold over its characters; it is replaced by a function on the sets of places already drawn (`Draws`, `DrawAllReaches`).

For every capacity of the buffer, key map and number of readers (`KeyboardAssumption`):

* `KeyBufferIsFifo`: the ring implements `ByteChannel` under `queue <- Typed` and `open <- ~ kb.ctrl` (only Ctrl+C empties it). The invariant is only `kb \in Driver`; the
  work is in the index arithmetic (`RingIndex`, `PutKey`, `GetKey`: the slot that is written holds no key that is
  still to be read, since one slot stays free) and in `HandlerForms`, every path of the interrupt handler. What
  semaphores and scheduler do in between is of no consequence (`SemWaitKeepsBuffer`, `SemPostKeepsBuffer`).
* `KeysHaveTokensCorrect`: as long as no reader was killed with its token, every key in the buffer has one, in the
  semaphore or with a reader that `sem_post` woke (`HasTokens`), for any number of contexts and pids. The
  difficulty is the queue of the semaphore, which keeps the pid of a killed reader until the next `sem_post`, while the pid
  is given out again: a new process that inherited a place in the queue would be woken by the post, which would not
  raise the counter, and the key would have no token. The invariant `ReadersInv(sh)`, sh being the shell's context, has these parts:
  `World`: whoever runs a program is the shell or a cat (`Labels`); only the shell waits, for one process (`Waiting`);
  while there is a cat in the foreground, one at most, the shell does not read (`Foreground`); nobody has the pid of
  a process killed while it ran (`Unclaimed`). `Sleepers`: a pid of the living is in the queue only while its process sleeps
  there, once. `Clean`: from the `sem_post` that gives the shell a key to the command the line ends with, the
  queue holds no dead. Processes are created only there, so no new one is in the queue. `DeadCat`: between two handlers the only
  dead process not yet freed is the one Ctrl+C killed as it ran. TLC checked all these parts as invariants of the
  run `keyboard` before they were proved. `Turn` (in `KernelProofs`) says what a switch of processes does, whichever way
  it came about: the one that left the processor is ready, blocked or freed as it was ready, blocked or dead, and nothing else.

Assumptions on constants beyond types, all of which the code justifies: contexts of `KeyReaders` are addresses, two at least; semaphore identifiers are naturals and those of a program are
its own (`MVAR_SEM_PRINT` is neither the keyboard's nor one that `createPipe` gives out); screen, fonts and character buffer are sizes that fit in
`uint16_t`, a message and two characters fit in the buffer, and the longest line of the shell fits above the last line of the screen in every font; the heap has room for two contexts, idle and the shell;
programs are any combination of priority, ground and descriptors (`AnyProgram`).

Only model-checked:

* liveness (`ReadyRuns`, `ZombieReaped`, `TestEnds`, `PromptReturns`, `KeysAreRead`, `LettersArePrinted`): outside the prover's reach.

## 5. Findings

1. `waitProcess` may return early (`wait_violation`): a process that dies while it
   waits stays in its target's waiting list; its address goes to a new
   process, which then is woken from its own wait by the death of the first target.
2. A semaphore token may vanish (`sem_kill_violation`): the purge in `sem_post` recognises the
   dead by pid, and the pid is reused.
3. A blocked reader never sees the end of file (`pipeline_eof_violation`): the
   close wakes it and destroys the mutex it needs next. It blocks again, and
   the exit of the writer then kills it: `cat | wc` prints no count if `wc` waits in its read when `cat` ends.
4. `p1 | p2 &` hangs the shell (`pipeline_background_violation`): it waits for pid 0.
5. The index of the character buffer wraps (`console_violation`): when `clear &` empties the buffer in the middle of a
   line, `read_line` still counts the characters it showed; the first backspace of the next erasure takes
   `_bufferIdx` from 0 to 65535 (`video.c:171`), and the blank that follows is stored outside the buffer.

Seen while modelling and not checked by a run of its own: the prompt does not return
either when one of the two processes cannot be created (`StartFailed`), nor, sometimes, after
Ctrl+C: a reader that is killed while it runs and reads an empty pipe before the next switch loops in
`readPipe` with interrupts off. `PromptReturns` excepts both, so that it says what holds otherwise.
In `buddy.c` each `mm_free` subtracts half of what `mm_alloc` added, so `used` drifts upwards until
requests that would fit are refused, and the last area of the tree may reach beyond the heap (hazards at
buddy.c:123 and :91).
`mem` labels as bytes what the bitmap manager counts in blocks of 64 bytes. The shell passes
arrays on its stack to `sys_mm_free` (`shell.c:152-154`, `:186-189`): `bitmap.c` ignores such a pointer (its block is
no `BORDER` of an area), while `getNodeIndex` of `buddy.c` does not expect it. `instruction_list` has fewer entries
than `CANT_INSTRUCTIONS` says. A reader that `kill` takes between its wake-up and its turn leaves a key without a token (`tokenLost`).

## 6. Not modelled, and why

* Exhausted memory inside list operations: `addNode` may fail and nobody looks. The kernel manages
  256 MB for at most a few dozen processes; createProcess without a free context *is* modelled.
* `changeFileDescriptors`, `clearPipe`, `addNodeInFirst` and pipe operations on more than one byte (nobody
  calls or makes them), `ps` (reads only), `readPipe`'s `NULL` and size checks (its callers cannot fail them).
* Pixels, `drawRect`, `drawLine`, `setPosition`; `printf` and `scanf` formatting; parsing of commands and arguments: pure
  functions of their input, without state that anybody shares.
* `test_mm` and `test_prio`: their system calls are among those of the most general clients of the memory
  managers and of the scheduler, and they print only.
* The clock (`sleep` and `time` compare RTC readings), the register snapshot, exceptions and their dump: device output.
* A second `mvar` while one runs: the code destroys and makes the print semaphore anew on purpose.
* testsync without its semaphore: it is there to show the race. A second testsync, or a pipe and testsync, which compete for
  semaphore 100.
* Calls of `mm_free` on pointers that `buddy.c` did not return.
* `font.h` (glyph data, 8592 lines), `bmfs.c` and the boot loader (vendored), build tools: not
  behaviour of this kernel. These two files are most of the lines that no definition names.

## 7. What is left

1. A killed reader that loops in `readPipe`, and a pipeline of which one process cannot be created, as runs
   of their own; `test_sync` and a pipe that compete for semaphore 100.
2. `BuddyMemory`: runs for the drift of `used` and for the area that reaches beyond the heap.
