----------------------------- MODULE BuddyMemory -----------------------------
(***************************************************************************)
(* The buddy memory manager: Kernel/utils/memory/buddy.c.                  *)
(*                                                                         *)
(* A complete binary tree in an array: the root is node 0, stands for      *)
(* 2^maxExp bytes, and the children of node n are 2n + 1 and 2n + 2.       *)
(* Pointers are byte offsets from treeStart.  The tree covers more bytes   *)
(* than manager->size, because it is itself stored in the heap.            *)
(*                                                                         *)
(* Callers free what mm_alloc returned and is not free yet, or NULL.       *)
(***************************************************************************)
EXTENDS Integers, FiniteSets, FiniteSetsExt

CONSTANTS
    MIN_EXP,
    MaxExp,         \* manager->maxExp
    ManagedSize,    \* manager->size
    LARGEST,        \* the largest request: POW2(17)
    Requests,       \* what callers ask for
    MAX_USED        \* model bound: nothing is allocated with more in `used`

ASSUME BuddyAssumption ==
    /\ MIN_EXP \in Nat \ {0} /\ MaxExp \in Nat /\ MIN_EXP < MaxExp
    /\ ManagedSize \in 1 .. 2 ^ MaxExp
    /\ LARGEST \in Nat /\ LARGEST < 2 ^ MaxExp
    /\ Requests \subseteq Nat /\ MAX_USED \in Nat

VARIABLES
    tree,
    used,
    buddyCall       \* the last call and what it returned

buddyVars == << tree, used, buddyCall >>

\* NULL, which lies below treeStart.
NO_BLOCK == -1

totalNodes == 2 ^ (MaxExp - MIN_EXP + 1) - 1

Nodes  == 0 .. totalNodes - 1
States == {"FREE", "USED", "SPLIT"}
Exponents == MIN_EXP .. MaxExp

BuddyInit ==
    /\ tree = [n \in Nodes |-> "FREE"]
    /\ used = 0
    /\ buddyCall = [op |-> "none", arg |-> 0, ret |-> NO_BLOCK]

-----------------------------------------------------------------------------
(***************************************************************************)
(* Nodes, exponents and offsets.                                           *)
(***************************************************************************)

\* getNodeLevel: the first node that stands for 2^e bytes.
FirstNode(e) == 2 ^ (MaxExp - e) - 1

NodesOf(e) == FirstNode(e) .. 2 * FirstNode(e)

ExponentOf == [n \in Nodes |-> CHOOSE e \in Exponents : n \in NodesOf(e)]

\* The node of 2^e bytes that contains the offset.
NodeAt(offset, e) == offset \div 2 ^ e + FirstNode(e)

OffsetOf(n, e) == (n - FirstNode(e)) * 2 ^ e

\* The ancestor d levels above n, and all of them.
Up(n, d) == (n + 1) \div 2 ^ d - 1

Ancestors == [n \in Nodes |-> {Up(n, d) : d \in 1 .. MaxExp - ExponentOf[n]}]

Buddy(n) == IF n % 2 = 0 THEN n - 1 ELSE n + 1

\* Fault: a request may be larger than its node.
ExponentForLess(size) == Max({e \in Exponents : e = MIN_EXP \/ 2 ^ e <= size})

\* getExponent: the smallest node that holds size bytes.
ExponentFor(size) == Min({e \in Exponents : size <= 2 ^ e})

-----------------------------------------------------------------------------
(***************************************************************************)
(* mm_alloc.                                                               *)
(***************************************************************************)

\* Where findFreeNode may end: it goes down through nodes that are split or
\* free, the left one first.
FreeNodes(e) ==
    {n \in NodesOf(e) : tree[n] = "FREE" /\ \A a \in Ancestors[n] : tree[a] # "USED"}

\* size and used are unsigned: their difference wraps.
ValidRequest(size) ==
    /\ size # 0 /\ size <= LARGEST
    /\ used > ManagedSize \/ size <= ManagedSize - used

BuddyAllocServes(size) ==
    LET e      == ExponentFor(size)
        n      == Min(FreeNodes(e))
        offset == OffsetOf(n, e)
    IN  /\ ValidRequest(size) /\ used <= MAX_USED
        /\ FreeNodes(e) # {}
        /\ tree' = [m \in Nodes |-> IF m = n THEN "USED"
                                    ELSE IF m \in Ancestors[n] THEN "SPLIT" ELSE tree[m]]
        /\ used' = used + 2 ^ e
        /\ buddyCall' = [op |-> "alloc", arg |-> size,
                         ret |-> IF offset < ManagedSize THEN offset ELSE NO_BLOCK]

BuddyAllocFails(size) ==
    /\ ~ ValidRequest(size) \/ FreeNodes(ExponentFor(size)) = {}
    /\ buddyCall' = [op |-> "alloc", arg |-> size, ret |-> NO_BLOCK]
    /\ UNCHANGED << tree, used >>

-----------------------------------------------------------------------------
(***************************************************************************)
(* mm_free.                                                                *)
(***************************************************************************)

\* getNodeIndex looks from the largest node that begins at the pointer down to
\* the first that is used; the exponent it reports is one less than that node's.
UsedAt(ptr) ==
    Max({e \in Exponents : ptr % 2 ^ e = 0 /\ tree[NodeAt(ptr, e)] = "USED"})

\* Fault: only one level is merged.
MergedOnce(n) ==
    {Up(n, d) : d \in {x \in 1 .. MaxExp - ExponentOf[n] :
                        x = 1 /\ tree[Buddy(n)] = "FREE" /\ tree[Up(n, 1)] = "SPLIT"}}

\* Fault: a parent is merged whatever its other child is.
MergedBlindly(n) == {Up(n, d) : d \in 1 .. MaxExp - ExponentOf[n]}

\* The ancestors that setMerge frees with n: up to the first one that is not
\* split or has another child that is not free.
Merged(n) ==
    {Up(n, d) : d \in {x \in 1 .. MaxExp - ExponentOf[n] :
        \A y \in 1 .. x : tree[Buddy(Up(n, y - 1))] = "FREE" /\ tree[Up(n, y)] = "SPLIT"}}

\* Fault: what is subtracted is the size of the parent.
ReportedTooLarge(e) == e + 1

Reported(e) == e - 1

\* The areas that callers hold, as offsets.
Held == {OffsetOf(n, ExponentOf[n]) : n \in {m \in Nodes : tree[m] = "USED"}}
            \cap 0 .. ManagedSize - 1

BuddyFrees(ptr) ==
    LET e == UsedAt(ptr)
        n == NodeAt(ptr, e)
    IN  /\ tree' = [m \in Nodes |-> IF m = n \/ m \in Merged(n) THEN "FREE" ELSE tree[m]]
        /\ used' = used - 2 ^ Reported(e)
        /\ buddyCall' = [op |-> "free", arg |-> ptr, ret |-> NO_BLOCK]

BuddyFreesNull ==
    /\ buddyCall' = [op |-> "free", arg |-> NO_BLOCK, ret |-> NO_BLOCK]
    /\ UNCHANGED << tree, used >>

BuddyNext ==
    \/ \E size \in Requests : BuddyAllocServes(size) \/ BuddyAllocFails(size)
    \/ \E ptr \in Held : BuddyFrees(ptr)
    \/ BuddyFreesNull

BuddySpec == BuddyInit /\ [][BuddyNext]_buddyVars

-----------------------------------------------------------------------------
(***************************************************************************)
(* Properties.                                                             *)
(***************************************************************************)

\* Every field keeps its type; used, which is unsigned, never passes below zero.
BuddyTypeOK ==
    /\ tree \in [Nodes -> States]
    /\ used \in Nat
    /\ buddyCall \in [op : {"none", "alloc", "free"}, arg : Int, ret : Int]

\* splitTree and setMerge keep the tree consistent and merged as far as it can
\* be: above a used node all is split, below a used or free one all is free, and
\* of two free buddies the parent is free.
TreeIsMerged ==
    \A n \in Nodes :
        /\ tree[n] = "USED" => \A a \in Ancestors[n] : tree[a] = "SPLIT"
        /\ tree[n] = "SPLIT" => \A a \in Ancestors[n] : tree[a] = "SPLIT"
        /\ tree[n] = "SPLIT" =>
            2 * n + 2 \in Nodes /\ ~ (tree[2 * n + 1] = "FREE" /\ tree[2 * n + 2] = "FREE")

\* The units of 2^MIN_EXP bytes that a node stands for.
Units ==
    [n \in Nodes |->
        LET first == OffsetOf(n, ExponentOf[n]) \div 2 ^ MIN_EXP
        IN  first .. first + 2 ^ (ExponentOf[n] - MIN_EXP) - 1]

Taken == {n \in Nodes : tree[n] = "USED"}

\* mm_alloc returns NULL only if the request is empty or too large, the counter
\* says so, or no aligned run of free units is as long as the node it needs:
\* whatever was allocated and freed before, all free memory can be found.
\* (A step that changes nothing, not even buddyCall, is no call.)
BuddyFailsOnlyWhenNoRoom ==
    [][\A size \in Requests :
        buddyCall' # buddyCall /\ BuddyAllocFails(size) /\ ValidRequest(size) =>
            \A n \in NodesOf(ExponentFor(size)) : \E m \in Taken : Units[m] \cap Units[n] # {}
      ]_buddyVars

\* The counter that mm_alloc compares and mm_info returns in `used` is never less
\* than the nodes in use, whatever is allocated and freed, although mm_free
\* subtracts half of what mm_alloc added.  It may be far more, and even exceed the
\* size; then `free`, the unsigned difference of the two, wraps and says nothing.
UsedIsEnough == used >= MapThenSumSet(LAMBDA n : 2 ^ ExponentOf[n], Taken)

BuddyHeap == INSTANCE Allocator WITH
    UNITS    <- 2 ^ (MaxExp - MIN_EXP),
    UNIT     <- 2 ^ MIN_EXP,
    Sizes    <- Requests,
    Pointers <- -1 .. 2 ^ MaxExp - 1,
    NULL     <- NO_BLOCK,
    live     <- {Units[n] : n \in {m \in Taken : OffsetOf(m, ExponentOf[m]) < ManagedSize}},
    lastCall <- buddyCall

\* buddy.c keeps the promise of memoryManagement.h within the bytes that its
\* tree covers: no two callers share a unit, each request fits in its area, and
\* mm_free frees the area that begins at its pointer and nothing else.
BuddyImplementsAllocator == BuddyHeap!Spec

=============================================================================
