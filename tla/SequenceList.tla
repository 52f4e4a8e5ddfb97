----------------------------- MODULE SequenceList -----------------------------
(***************************************************************************)
(* What doubleLinkedList.h promises: a list is a sequence of pointers,     *)
(* which a loop visits from the first to the last, each once, also when    *)
(* the body of the loop removes what it was just given.                    *)
(***************************************************************************)
EXTENDS Naturals, Sequences

CONSTANT Data

VARIABLES
    contents,
    unvisited       \* what the loop has still to visit, << >> when there is none

seqVars == << contents, unvisited >>

Init == contents = << >> /\ unvisited = << >>

Without(i) == [j \in 1 .. Len(contents) - 1 |-> contents[IF j < i THEN j ELSE j + 1]]

\* Outside a loop, or in one that has nothing left to visit.
Quiet == unvisited = << >> /\ UNCHANGED unvisited

Add == Quiet /\ \E d \in Data : contents' = Append(contents, d)

\* The first occurrence goes.
Remove ==
    /\ Quiet
    /\ \E i \in DOMAIN contents :
        /\ \A j \in 1 .. i - 1 : contents[j] # contents[i]
        /\ contents' = Without(i)

Free == Quiet /\ contents' = << >>

Begin == unvisited = << >> /\ unvisited' = contents /\ UNCHANGED contents

Visit == unvisited # << >> /\ unvisited' = Tail(unvisited) /\ UNCHANGED contents

\* The body of the loop removes an element that was visited.
RemoveVisited ==
    /\ UNCHANGED unvisited
    /\ \E i \in 1 .. Len(contents) - Len(unvisited) : contents' = Without(i)

\* The loop is left before its end.
Leave == unvisited' = << >> /\ UNCHANGED contents

Next == Add \/ Remove \/ Free \/ Begin \/ Visit \/ RemoveVisited \/ Leave

Spec == Init /\ [][Next]_seqVars

=============================================================================
