------------------------------- MODULE MCPipes -------------------------------
EXTENDS PipeManager

\* Readers and writers that know the pipe by its number.
BackgroundProgram ==
    {[priority |-> 1, ground |-> BACKGROUND, fds |-> << STDIN, STDOUT >>]}

Symmetry == Permutations(Ctx)

NoPid == {NO_PROCESS}
=============================================================================
