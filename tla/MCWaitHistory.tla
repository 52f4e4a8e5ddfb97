---------------------------- MODULE MCWaitHistory ----------------------------
EXTENDS WaitHistory

ConsolePrograms == {[priority |-> 1, ground |-> BACKGROUND, fds |-> << STDIN, STDOUT >>]}
Symmetry == Permutations(Ctx)

\* Reading the pid of freed memory gives no pid, the mildest outcome: what the
\* run shows does not hang on what is left there.
NoPid == {NO_PROCESS}
=============================================================================
