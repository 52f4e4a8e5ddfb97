----------------------------- MODULE BitmapMemory -----------------------------
(***************************************************************************)
(* The memory manager with a bitmap: Kernel/utils/memory/bitmap.c.         *)
(*                                                                         *)
(* One bitmap entry per block says whether it is free, the first block of  *)
(* an allocation (BORDER) or a later one (USED).  mm_alloc takes the first *)
(* gap that is large enough; mm_free trusts the bitmap to know where the   *)
(* allocation ends.  Pointers are byte offsets from realMemStart.          *)
(*                                                                         *)
(* Operators whose comment begins with "Fault" are wrong variants of the   *)
(* operator that follows them; no specification uses them.                 *)
(***************************************************************************)
EXTENDS Integers, FiniteSets, FiniteSetsExt

CONSTANTS
    BLOCK_COUNT,    \* manager->blockCount
    BLOCK_SIZE,
    MAX_BYTES,      \* the largest request: POW2(17)
    Sizes,          \* what callers ask for
    Pointers        \* what callers free, valid or not

\* Address 0 lies below realMemStart.
NULL == -1

ASSUME BitmapAssumption ==
    /\ BLOCK_COUNT \in Nat \ {0} /\ BLOCK_SIZE \in Nat \ {0} /\ MAX_BYTES \in Nat
    /\ Sizes \subseteq Nat
    /\ Pointers \subseteq Int /\ NULL \in Pointers

VARIABLES
    bitmap,
    usedBlocksCount,
    lastCall        \* the last call and what it returned

bitmapVars == << bitmap, usedBlocksCount, lastCall >>

Blocks == 0 .. BLOCK_COUNT - 1
Marks  == {"FREE", "USED", "BORDER"}

Init ==
    /\ bitmap = [i \in Blocks |-> "FREE"]
    /\ usedBlocksCount = 0
    /\ lastCall = [op |-> "none", arg |-> 0, ret |-> NULL]

-----------------------------------------------------------------------------
\* Fault: a rest of less than a block is not counted.
BlocksNeededTruncated(bytes) == bytes \div BLOCK_SIZE

BlocksNeeded(bytes) == (bytes + (BLOCK_SIZE - 1)) \div BLOCK_SIZE

\* Fault: the scan stops one block early.
GapsButLast(n) ==
    {i \in Blocks : i + n < BLOCK_COUNT /\ \A j \in i .. i + n - 1 : bitmap[j] = "FREE"}

\* Fault: a used block does not reset the count of free ones.
GapsAcrossUsed(n) ==
    {i \in Blocks : /\ n > 0 /\ i + n <= BLOCK_COUNT
                   /\ bitmap[i + n - 1] = "FREE"
                   /\ Cardinality({j \in 0 .. i + n - 1 : bitmap[j] = "FREE"}) = n}

\* Where n free blocks in a row begin: mm_alloc's scan counts free blocks,
\* from 0 again after each used one, and stops at the first such place.
Gaps(n) ==
    {i \in Blocks : i + n <= BLOCK_COUNT /\ \A j \in i .. i + n - 1 : bitmap[j] = "FREE"}

Valid(bytes) ==
    /\ bytes # 0 /\ bytes <= MAX_BYTES
    /\ BlocksNeeded(bytes) <= BLOCK_COUNT - usedBlocksCount

MmAllocServes(bytes) ==
    LET n     == BlocksNeeded(bytes)
        start == Min(Gaps(n))
    IN  /\ Valid(bytes) /\ Gaps(n) # {}
        /\ bitmap' = [i \in Blocks |-> IF i = start THEN "BORDER"
                                       ELSE IF i \in start + 1 .. start + n - 1
                                       THEN "USED" ELSE bitmap[i]]
        /\ usedBlocksCount' = usedBlocksCount + n
        /\ lastCall' = [op |-> "alloc", arg |-> bytes, ret |-> start * BLOCK_SIZE]

MmAllocFails(bytes) ==
    /\ ~ Valid(bytes) \/ Gaps(BlocksNeeded(bytes)) = {}
    /\ lastCall' = [op |-> "alloc", arg |-> bytes, ret |-> NULL]
    /\ UNCHANGED << bitmap, usedBlocksCount >>

\* The checks of mm_free: the pointer lies in the first block of an allocation.
IsAllocation(ptr) ==
    /\ ptr # NULL /\ ptr >= 0 /\ ptr \div BLOCK_SIZE \in Blocks
    /\ bitmap[ptr \div BLOCK_SIZE] = "BORDER"

\* A block and those that its allocation goes on to.
Extent(index) ==
    {i \in Blocks : i >= index /\ \A j \in index + 1 .. i : bitmap[j] = "USED"}

MmFreeReleases(ptr) ==
    LET freed == Extent(ptr \div BLOCK_SIZE)
    IN  /\ IsAllocation(ptr)
        /\ bitmap' = [i \in Blocks |-> IF i \in freed THEN "FREE" ELSE bitmap[i]]
        /\ usedBlocksCount' = usedBlocksCount - Cardinality(freed)
        /\ lastCall' = [op |-> "free", arg |-> ptr, ret |-> NULL]

MmFreeIgnores(ptr) ==
    /\ ~ IsAllocation(ptr)
    /\ lastCall' = [op |-> "free", arg |-> ptr, ret |-> NULL]
    /\ UNCHANGED << bitmap, usedBlocksCount >>

MmInfo ==
    [size |-> BLOCK_COUNT,
     used |-> usedBlocksCount,
     free |-> BLOCK_COUNT - usedBlocksCount]

Next ==
    \/ \E bytes \in Sizes : MmAllocServes(bytes) \/ MmAllocFails(bytes)
    \/ \E ptr \in Pointers : MmFreeReleases(ptr) \/ MmFreeIgnores(ptr)

Spec == Init /\ [][Next]_bitmapVars

-----------------------------------------------------------------------------
(***************************************************************************)
(* Properties.                                                             *)
(***************************************************************************)

\* Every field keeps its type; usedBlocksCount, an unsigned integer in the
\* code, never goes below zero or above blockCount, whatever is freed.
BitmapTypeOK ==
    /\ bitmap \in [Blocks -> Marks]
    /\ usedBlocksCount \in 0 .. BLOCK_COUNT
    /\ lastCall \in [op : {"none", "alloc", "free"}, arg : Int, ret : Int]

Occupied == {i \in Blocks : bitmap[i] # "FREE"}

\* mm_info is exact: the count that mm_alloc and mm_free keep is the number of
\* blocks that are taken.
UsedIsExact == MmInfo.used = Cardinality(Occupied)

\* mm_alloc returns NULL only if the request is empty or too large or there
\* is no gap for it, however many blocks have been allocated and freed before.
\* (A step that changes nothing, not even lastCall, is no call.)
NullOnlyWhenNoRoom ==
    [][\A bytes \in Sizes :
        /\ lastCall' # lastCall /\ MmAllocFails(bytes)
        /\ bytes # 0 /\ bytes <= MAX_BYTES
        => ~ \E first, last \in Blocks :
                /\ last >= first
                /\ (last - first + 1) * BLOCK_SIZE >= bytes
                /\ \A i \in first .. last : bitmap[i] = "FREE"]_bitmapVars

\* The areas that the bitmap says are allocated.
LiveAreas == {Extent(i) : i \in {j \in Blocks : bitmap[j] = "BORDER"}}

Heap == INSTANCE Allocator WITH
    UNITS <- BLOCK_COUNT, UNIT <- BLOCK_SIZE, live <- LiveAreas

\* bitmap.c keeps the promise of memoryManagement.h: no two callers share a
\* block, every request fits in its area, and mm_free frees the whole area that
\* begins at its pointer and nothing else.
ImplementsAllocator == Heap!Spec

=============================================================================
