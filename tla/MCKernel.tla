------------------------------- MODULE MCKernel -------------------------------
EXTENDS KernelClients

\* "p1 | p2" in the foreground, and a program at the console.
MixedPrograms ==
    {[priority |-> 1, ground |-> FOREGROUND, fds |-> << STDIN, 3 >>],
     [priority |-> 1, ground |-> FOREGROUND, fds |-> << 3, STDOUT >>],
     [priority |-> 1, ground |-> BACKGROUND, fds |-> << STDIN, STDOUT >>],
     [priority |-> 1, ground |-> FOREGROUND, fds |-> << STDIN, STDOUT >>]}

Symmetry == Permutations(Ctx)

\* Reading the pid of freed memory gives anything.
AnyPid == Pids \cup {NO_PROCESS}
=============================================================================
