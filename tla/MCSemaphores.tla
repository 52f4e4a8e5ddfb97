----------------------------- MODULE MCSemaphores -----------------------------
EXTENDS Semaphores

ConsolePrograms == {[priority |-> 1, ground |-> FOREGROUND, fds |-> << STDIN, STDOUT >>]}

Symmetry == Permutations(Ctx)

NoPid == {NO_PROCESS}
=============================================================================
