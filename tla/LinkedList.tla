------------------------------ MODULE LinkedList ------------------------------
(***************************************************************************)
(* A list of the kernel, Kernel/utils/doubleLinkedList.c, at the level of  *)
(* its pointers, as the scheduler and the semaphores use it: nodes are     *)
(* added at the end, removed by the pointer they carry, and visited by     *)
(* toBegin / hasNext / nextInList loops, which may be left early and whose *)
(* body may remove the element that nextInList just returned, as the one   *)
(* of sem_post does.                                                       *)
(***************************************************************************)
EXTENDS Integers, Sequences, FiniteSets

CONSTANTS
    Node,       \* addresses that mm_alloc can return for a Node
    Data        \* the pointers that are stored

NIL == 0

ASSUME LinkedListAssumption == NIL \notin Node

VARIABLES
    list,       \* doubleLinkedListCDT
    node,       \* the memory of the nodes
    allocated,  \* the nodes that were allocated and not freed
    looping,    \* a loop is under way
    given,      \* what nextInList returned last in it, {} after its removal
    order       \* the nodes in the order of the list, observed only

listVars == << list, node, allocated, looping, given, order >>

ListInit ==
    /\ list = [head |-> NIL, tail |-> NIL, current |-> NIL, size |-> 0]
    /\ node = [n \in Node |-> [data |-> NIL, prev |-> NIL, next |-> NIL]]
    /\ allocated = {}
    /\ looping = FALSE
    /\ given = {}
    /\ order = << >>

-----------------------------------------------------------------------------
\* addNode.  If mm_alloc has no room it does nothing, which is a stutter here.
AddNode(d) ==
    /\ ~ looping
    /\ \E n \in Node \ allocated :
        /\ allocated' = allocated \cup {n}
        /\ node' = [m \in Node |->
                IF m = n THEN [data |-> d, prev |-> list.tail, next |-> NIL]
                ELSE IF list.size > 0 /\ m = list.tail THEN [node[m] EXCEPT !.next = n]
                ELSE node[m]]
        /\ list' = [list EXCEPT !.head = IF list.size > 0 THEN @ ELSE n,
                                !.tail = n,
                                !.size = @ + 1]
        /\ order' = Append(order, n)
    /\ UNCHANGED << looping, given >>

\* The place of the first node that carries d, as the loop of removeNode finds it:
\* the links lead through the nodes in this order, see DoublyLinked.
IsFirst(i, d) ==
    /\ node[order[i]].data = d
    /\ \A j \in 1 .. i - 1 : node[order[j]].data # d

\* Fault: the tail is not moved when the last node goes.
UnlinkKeepsTail(n) ==
    /\ node' = [m \in Node |->
            [node[m] EXCEPT
                !.next = IF node[n].prev # NIL /\ m = node[n].prev THEN node[n].next ELSE @,
                !.prev = IF node[n].next # NIL /\ m = node[n].next THEN node[n].prev ELSE @]]
    /\ list' = [list EXCEPT !.head = IF node[n].prev = NIL THEN node[n].next ELSE @,
                            !.size = @ - 1]
    /\ allocated' = allocated \ {n}

\* removeNode from the place where it has found n: the node is freed.
Unlink(n) ==
    /\ node' = [m \in Node |->
            [node[m] EXCEPT
                !.next = IF node[n].prev # NIL /\ m = node[n].prev THEN node[n].next ELSE @,
                !.prev = IF node[n].next # NIL /\ m = node[n].next THEN node[n].prev ELSE @]]
    /\ list' = [list EXCEPT !.head = IF node[n].prev = NIL THEN node[n].next ELSE @,
                            !.tail = IF node[n].next = NIL THEN node[n].prev ELSE @,
                            !.size = @ - 1]
    /\ allocated' = allocated \ {n}

RemovedAt(i) == [j \in 1 .. Len(order) - 1 |-> order[IF j < i THEN j ELSE j + 1]]

\* Outside a loop, of anything that is in the list; getFirstData is
\* removeNode(list->head->data).
RemoveNode(d) ==
    /\ ~ looping
    /\ \E i \in DOMAIN order :
        /\ IsFirst(i, d)
        /\ Unlink(order[i])
        /\ order' = RemovedAt(i)
    /\ UNCHANGED << looping, given >>

\* freeLinkedListADT, and a new list in its place.
FreeLinkedList ==
    /\ ~ looping
    /\ list' = [head |-> NIL, tail |-> NIL, current |-> NIL, size |-> 0]
    /\ allocated' = {}
    /\ order' = << >>
    /\ UNCHANGED << node, looping, given >>

ToBegin ==
    /\ ~ looping
    /\ list' = [list EXCEPT !.current = list.head]
    /\ looping' = TRUE
    /\ given' = {}
    /\ UNCHANGED << node, allocated, order >>

\* Fault: current stays at the node whose data are returned; the next call moves on.
NextInListLate ==
    /\ looping
    /\ list.current # NIL
    /\ LET n == IF given = {} THEN list.current ELSE node[list.current].next
       IN  /\ n # NIL
           /\ list' = [list EXCEPT !.current = n]
           /\ given' = {node[n].data}
    /\ UNCHANGED << node, allocated, looping, order >>

NextInList ==
    /\ looping
    /\ list.current # NIL
    /\ list' = [list EXCEPT !.current = node[@].next]
    /\ given' = {node[list.current].data}
    /\ UNCHANGED << node, allocated, looping, order >>

\* The body of the loop removes what it was given.
RemoveGiven(d) ==
    /\ looping
    /\ d \in given
    /\ \E i \in DOMAIN order :
        /\ IsFirst(i, d)
        /\ Unlink(order[i])
        /\ order' = RemovedAt(i)
    /\ given' = {}
    /\ UNCHANGED looping

\* The loop ends, or its body returns or breaks.
Leave ==
    /\ looping
    /\ looping' = FALSE
    /\ given' = {}
    /\ UNCHANGED << list, node, allocated, order >>

ListNext ==
    \/ \E d \in Data : AddNode(d) \/ RemoveNode(d) \/ RemoveGiven(d)
    \/ FreeLinkedList \/ ToBegin \/ NextInList \/ Leave

ListSpec == ListInit /\ [][ListNext]_listVars

-----------------------------------------------------------------------------
(***************************************************************************)
(* Properties.                                                             *)
(***************************************************************************)

\* The nodes are linked in both directions in one order, head and tail are its
\* ends, and no node of it was freed or lost: what removeNode must restore.
DoublyLinked ==
    /\ list.size = Len(order)
    /\ list.head = IF order = << >> THEN NIL ELSE order[1]
    /\ list.tail = IF order = << >> THEN NIL ELSE order[Len(order)]
    /\ \A i \in DOMAIN order :
        /\ node[order[i]].prev = IF i = 1 THEN NIL ELSE order[i - 1]
        /\ node[order[i]].next = IF i = Len(order) THEN NIL ELSE order[i + 1]
    /\ \A i, j \in DOMAIN order : order[i] = order[j] => i = j
    /\ allocated = {order[i] : i \in DOMAIN order}

DataOf(nodes) == [i \in DOMAIN nodes |-> node[nodes[i]].data]

\* The nodes from the iterator on, none if it is at the end.
Ahead ==
    LET at == {i \in DOMAIN order : order[i] = list.current}
    IN  IF ~ looping \/ at = {} THEN << >>
        ELSE SubSeq(order, CHOOSE i \in at : TRUE, Len(order))

\* Seen through its operations the list is a sequence, and a loop that removes
\* what it is given still visits everything once and never a freed node.
Sequence == INSTANCE SequenceList WITH
    contents <- DataOf(order), unvisited <- DataOf(Ahead)

ImplementsSequence == Sequence!Spec

=============================================================================
