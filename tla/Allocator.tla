------------------------------ MODULE Allocator ------------------------------
(***************************************************************************)
(* What memoryManagement.h promises of mm_alloc and mm_free, whichever     *)
(* memory manager is compiled in.                                          *)
(*                                                                         *)
(* The heap is UNITS units of UNIT bytes; a pointer is a byte offset from  *)
(* the first unit, and NULL, which lies below the heap, is an offset that  *)
(* is negative.  live holds the areas that were allocated and not freed.   *)
(***************************************************************************)
EXTENDS Integers

CONSTANTS
    UNITS,
    UNIT,
    Sizes,      \* byte counts mm_alloc is called with
    Pointers,   \* what mm_free is called with
    NULL

VARIABLES
    live,       \* the set of allocated areas, each a set of units
    lastCall    \* the last call and what it returned

Area(first, n) == first .. first + n - 1

Begins(area, unit) == unit \in area /\ \A other \in area : unit <= other

Init == live = {} /\ lastCall = [op |-> "none", arg |-> 0, ret |-> NULL]

\* The caller gets an area nobody else has, with room for what it asked.
Alloc(bytes) ==
    /\ lastCall'.op = "alloc" /\ lastCall'.arg = bytes
    /\ \E first \in 0 .. UNITS - 1, n \in 1 .. UNITS :
        /\ lastCall' = [op |-> "alloc", arg |-> bytes, ret |-> first * UNIT]
        /\ bytes > 0 /\ n * UNIT >= bytes
        /\ first + n <= UNITS
        /\ \A area \in live : area \cap Area(first, n) = {}
        /\ live' = live \cup {Area(first, n)}

Refuse(bytes) ==
    /\ lastCall' = [op |-> "alloc", arg |-> bytes, ret |-> NULL]
    /\ UNCHANGED live

\* The area that begins at ptr is free again, and no other.
Free(ptr) ==
    /\ lastCall' = [op |-> "free", arg |-> ptr, ret |-> NULL]
    /\ live' = {area \in live : ~ Begins(area, ptr \div UNIT)}

Next ==
    \/ \E bytes \in Sizes : Alloc(bytes) \/ Refuse(bytes)
    \/ \E ptr \in Pointers : Free(ptr)

Spec == Init /\ [][Next]_<< live, lastCall >>

=============================================================================
