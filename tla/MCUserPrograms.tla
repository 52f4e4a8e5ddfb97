---------------------------- MODULE MCUserPrograms ----------------------------
EXTENDS UserPrograms

\* Two priorities, one in the foreground.
PriorityPrograms ==
    {[priority |-> 1, ground |-> FOREGROUND, fds |-> << STDIN, STDOUT >>],
     [priority |-> 2, ground |-> BACKGROUND, fds |-> << STDIN, STDOUT >>]}

\* Reading the pid of freed memory gives no pid: the mildest outcome.
NoPid == {NO_PROCESS}
=============================================================================
