------------------------------ MODULE PartsProofs ------------------------------
(***************************************************************************)
(* Proofs about the parts of the kernel that share no state with others,   *)
(* each as large as it may be.                                             *)
(*                                                                         *)
(* The bitmap, for every number and size of blocks: the counter of used    *)
(* blocks is exact, and the bitmap implements Allocator.  What makes       *)
(* mm_free right is Shape: a USED block always goes on from a block that   *)
(* is not free, so that walking over USED blocks from a BORDER meets the   *)
(* end of the allocation and nothing of the next one.                      *)
(*                                                                         *)
(* The pointer list, for every number of nodes and every set of stored     *)
(* pointers: its links always describe one sequence of the nodes that are  *)
(* allocated, and seen through its operations it is that sequence, loops   *)
(* that remove what they visit included.                                   *)
(*                                                                         *)
(* The console, for every size of the screen, of the fonts, of the buffer  *)
(* and of its messages: as long as nobody disturbs the line, editing it    *)
(* stays on the screen and behind the prompt.  The cursor is always as     *)
(* many characters after the top of the screen as the line has (FarAs):    *)
(* a scroll takes it no further back than the longest line reaches.        *)
(*                                                                         *)
(* The buddy tree, for every depth of it: the tree stays merged, mm_alloc  *)
(* fails only when there is no room, the counter is never too small, and   *)
(* the tree implements Allocator.  All rests on the ways up from the nodes *)
(* (Up): the way from a used node meets that from n first where n joins it *)
(* (WaysMeet), and a unit lies in the nodes on the way up from its leaf.   *)
(***************************************************************************)
EXTENDS Parts, ListLemmas, FiniteSetTheorems, SequenceTheorems

Shape == \A i \in Blocks : bitmap[i] = "USED" => i - 1 \in Blocks /\ bitmap[i - 1] # "FREE"

IInv == BitmapTypeOK /\ UsedIsExact /\ Shape

-----------------------------------------------------------------------------
\* The rounding in mm_alloc: as many blocks as it takes to hold the request.
LEMMA BlocksNeededHold ==
    ASSUME NEW bytes \in Nat, bytes # 0, BLOCK_SIZE \in Nat \ {0}
    PROVE  /\ BlocksNeeded(bytes) \in Nat \ {0}
           /\ BlocksNeeded(bytes) * BLOCK_SIZE >= bytes
<1>. DEFINE d == bytes + (BLOCK_SIZE - 1)
            q == d \div BLOCK_SIZE
<1>1. d \in Nat /\ d >= BLOCK_SIZE
  OBVIOUS
<1>2. q \in Int /\ d % BLOCK_SIZE \in 0 .. BLOCK_SIZE - 1 /\ d = BLOCK_SIZE * q + (d % BLOCK_SIZE)
  BY <1>1
<1>. QED
  BY <1>1, <1>2 DEF BlocksNeeded

\* The pointer mm_alloc returns leads mm_free back to the same block.
LEMMA PointerOfBlock ==
    ASSUME NEW i \in Nat, BLOCK_SIZE \in Nat \ {0}
    PROVE  (i * BLOCK_SIZE) \div BLOCK_SIZE = i
  OBVIOUS

\* What a successful mm_alloc finds, and what it leaves in the bitmap.
Serves(bytes, start, n) ==
    /\ bytes > 0 /\ n * BLOCK_SIZE >= bytes
    /\ start + n <= BLOCK_COUNT /\ n <= BLOCK_COUNT - usedBlocksCount
    /\ \A j \in start .. start + n - 1 : j \in Blocks /\ bitmap[j] = "FREE"
    /\ bitmap' \in [Blocks -> Marks]
    /\ \A i \in Blocks : bitmap'[i] = IF i = start THEN "BORDER"
                                      ELSE IF i \in start + 1 .. start + n - 1
                                      THEN "USED" ELSE bitmap[i]
    /\ usedBlocksCount' = usedBlocksCount + n
    /\ lastCall' = [op |-> "alloc", arg |-> bytes, ret |-> start * BLOCK_SIZE]

\* mm_alloc, when it succeeds, fills a free gap of the size it rounded to.
LEMMA Served ==
    ASSUME IInv, NEW bytes \in Sizes, MmAllocServes(bytes)
    PROVE  \E start \in Blocks, n \in Nat \ {0} : Serves(bytes, start, n)
<1>. DEFINE n == BlocksNeeded(bytes)
            start == Min(Gaps(n))
<1>1. bytes \in Nat /\ bytes # 0 /\ n <= BLOCK_COUNT - usedBlocksCount
  BY BitmapAssumption DEF MmAllocServes, Valid
<1>2. n \in Nat \ {0} /\ n * BLOCK_SIZE >= bytes
  BY <1>1, BlocksNeededHold, BitmapAssumption
<1>3. start \in Gaps(n)
  <2>1. Gaps(n) \in SUBSET Nat /\ Gaps(n) # {}
    BY BitmapAssumption DEF Gaps, Blocks, MmAllocServes
  <2>. QED
    BY <2>1, MinProperty
<1>5. /\ bitmap' = [i \in Blocks |-> IF i = start THEN "BORDER"
                                     ELSE IF i \in start + 1 .. start + n - 1
                                     THEN "USED" ELSE bitmap[i]]
      /\ usedBlocksCount' = usedBlocksCount + n
      /\ lastCall' = [op |-> "alloc", arg |-> bytes, ret |-> start * BLOCK_SIZE]
  BY DEF MmAllocServes
<1>. HIDE DEF n, start
<1>4. /\ start \in Blocks /\ start + n <= BLOCK_COUNT
      /\ \A j \in start .. start + n - 1 : j \in Blocks /\ bitmap[j] = "FREE"
  BY <1>2, <1>3, BitmapAssumption DEF Gaps, Blocks
<1>6. bitmap' \in [Blocks -> Marks]
  BY <1>5 DEF IInv, BitmapTypeOK, Marks
<1>7. Serves(bytes, start, n)
  BY <1>1, <1>2, <1>4, <1>5, <1>6 DEF Serves
<1>. QED
  BY <1>2, <1>4, <1>7

\* What an mm_free that frees something finds, and what it leaves.
Releases(ptr, index) ==
    /\ index = ptr \div BLOCK_SIZE
    /\ bitmap[index] = "BORDER"
    /\ Extent(index) \subseteq Blocks /\ index \in Extent(index)
    /\ \A i \in Extent(index) : i >= index /\ bitmap[i] # "FREE"
    /\ bitmap' \in [Blocks -> Marks]
    /\ \A i \in Blocks : bitmap'[i] = IF i \in Extent(index) THEN "FREE" ELSE bitmap[i]
    /\ usedBlocksCount' = usedBlocksCount - Cardinality(Extent(index))
    /\ lastCall' = [op |-> "free", arg |-> ptr, ret |-> NULL]

\* mm_free, when it frees something, frees the blocks from a BORDER on.
LEMMA Released ==
    ASSUME IInv, NEW ptr \in Pointers, MmFreeReleases(ptr)
    PROVE  \E index \in Blocks : Releases(ptr, index)
<1>. DEFINE index == ptr \div BLOCK_SIZE
<1>1. index \in Blocks /\ bitmap[index] = "BORDER"
  BY DEF MmFreeReleases, IsAllocation
<1>2. /\ bitmap' = [i \in Blocks |-> IF i \in Extent(index) THEN "FREE" ELSE bitmap[i]]
      /\ usedBlocksCount' = usedBlocksCount - Cardinality(Extent(index))
      /\ lastCall' = [op |-> "free", arg |-> ptr, ret |-> NULL]
  BY DEF MmFreeReleases
<1>6. index = ptr \div BLOCK_SIZE
  OBVIOUS
<1>. HIDE DEF index
<1>3. Extent(index) \subseteq Blocks /\ index \in Extent(index)
  BY <1>1, BitmapAssumption DEF Extent, Blocks
<1>4. ASSUME NEW i \in Extent(index) PROVE i >= index /\ bitmap[i] # "FREE"
  BY <1>1, <1>4, BitmapAssumption DEF Extent, Blocks
<1>5. bitmap' \in [Blocks -> Marks]
  BY <1>2 DEF IInv, BitmapTypeOK, Marks
<1>7. Releases(ptr, index)
  BY <1>1, <1>2, <1>3, <1>4, <1>5, <1>6 DEF Releases
<1>. QED
  BY <1>1, <1>7

-----------------------------------------------------------------------------
\* An empty heap satisfies the invariant.
LEMMA InitInv == Init => IInv
<1>. SUFFICES ASSUME Init PROVE IInv
  OBVIOUS
<1>1. BitmapTypeOK
  BY BitmapAssumption DEF Init, BitmapTypeOK, Marks, NULL
<1>2. UsedIsExact
  <2>1. Occupied = {}
    BY DEF Occupied, Init
  <2>. QED
    BY <2>1, FS_EmptySet DEF UsedIsExact, MmInfo, Init
<1>3. Shape
  BY DEF Shape, Init
<1>. QED
  BY <1>1, <1>2, <1>3 DEF IInv

\* There are finitely many blocks.
LEMMA OccupiedFinite == IsFiniteSet(Blocks) /\ IsFiniteSet(Occupied)
<1>1. IsFiniteSet(Blocks)
  BY FS_Interval, BitmapAssumption DEF Blocks
<1>. QED
  BY <1>1, FS_Subset DEF Occupied

\* mm_alloc preserves the invariant when it succeeds.
LEMMA ServesInv ==
    ASSUME IInv, NEW bytes \in Sizes, MmAllocServes(bytes)
    PROVE  IInv'
<1>1. PICK start \in Blocks, n \in Nat \ {0} : Serves(bytes, start, n)
  BY Served
<1>. DEFINE new == start .. start + n - 1
<1>2. /\ bitmap \in [Blocks -> Marks] /\ usedBlocksCount \in 0 .. BLOCK_COUNT
      /\ usedBlocksCount = Cardinality(Occupied) /\ Shape
      /\ BLOCK_COUNT \in Nat /\ BLOCK_SIZE \in Nat /\ bytes \in Nat
  BY BitmapAssumption DEF IInv, BitmapTypeOK, UsedIsExact, MmInfo
<1>3. BitmapTypeOK'
  <2>1. start * BLOCK_SIZE \in Int
    BY <1>2 DEF Blocks
  <2>2. lastCall' \in [op : {"none", "alloc", "free"}, arg : Int, ret : Int]
    BY <1>1, <1>2, <2>1 DEF Serves
  <2>3. usedBlocksCount' \in 0 .. BLOCK_COUNT
    BY <1>1, <1>2 DEF Serves
  <2>. QED
    BY <1>1, <2>2, <2>3 DEF Serves, BitmapTypeOK
<1>4. UsedIsExact'
  <2>1. Occupied' = Occupied \cup new /\ Occupied \cap new = {}
    BY <1>1, <1>2 DEF Serves, Occupied, Blocks
  <2>2. IsFiniteSet(new) /\ Cardinality(new) = n
    <3>. DEFINE last == start + n - 1
    <3>1. start \in Int /\ last \in Int /\ ~ (start > last) /\ last - start + 1 = n
      BY <1>2 DEF Blocks
    <3>. HIDE DEF last
    <3>2. IsFiniteSet(start .. last) /\ Cardinality(start .. last) = last - start + 1
      BY <3>1, FS_Interval
    <3>. QED
      BY <3>1, <3>2 DEF last
  <2>3. Cardinality(Occupied') = Cardinality(Occupied) + n
    <3>1. Cardinality(Occupied') =
              Cardinality(Occupied) + Cardinality(new) - Cardinality(Occupied \cap new)
      BY <2>1, <2>2, OccupiedFinite, FS_Union
    <3>2. Cardinality(Occupied \cap new) = 0
      BY <2>1, FS_EmptySet
    <3>3. Cardinality(Occupied) \in Nat
      BY <1>2
    <3>. QED
      BY <2>2, <3>1, <3>2, <3>3
  <2>. QED
    BY <1>1, <1>2, <2>3 DEF Serves, UsedIsExact, MmInfo
<1>5. Shape'
  <2>. SUFFICES ASSUME NEW i \in Blocks, bitmap'[i] = "USED"
                PROVE  i - 1 \in Blocks /\ bitmap'[i - 1] # "FREE"
    BY DEF Shape
  <2>1. CASE i \in start + 1 .. start + n - 1
    <3>1. i - 1 \in new /\ i - 1 \in Blocks
      BY <1>1, <1>2, <2>1 DEF Serves, Blocks
    <3>. QED
      BY <1>1, <1>2, <2>1, <3>1 DEF Serves, Blocks
  <2>2. CASE i \notin start + 1 .. start + n - 1
    <3>1. bitmap[i] = "USED"
      BY <1>1, <2>2 DEF Serves
    <3>2. i - 1 \in Blocks /\ bitmap[i - 1] # "FREE"
      BY <1>2, <3>1 DEF Shape
    <3>. QED
      BY <1>1, <3>2 DEF Serves
  <2>. QED
    BY <2>1, <2>2
<1>. QED
  BY <1>3, <1>4, <1>5 DEF IInv

\* mm_free preserves the invariant when it frees something.
LEMMA ReleasesInv ==
    ASSUME IInv, NEW ptr \in Pointers, MmFreeReleases(ptr)
    PROVE  IInv'
<1>1. PICK index \in Blocks : Releases(ptr, index)
  BY Released
<1>2. /\ bitmap \in [Blocks -> Marks] /\ usedBlocksCount \in 0 .. BLOCK_COUNT
      /\ usedBlocksCount = Cardinality(Occupied) /\ Shape
      /\ BLOCK_COUNT \in Nat /\ ptr \in Int
  BY BitmapAssumption DEF IInv, BitmapTypeOK, UsedIsExact, MmInfo
<1>. DEFINE freed == Extent(index)
<1>3. /\ freed \subseteq Occupied /\ Occupied' = Occupied \ freed
  BY <1>1, <1>2 DEF Releases, Occupied
<1>4. Cardinality(Occupied') = Cardinality(Occupied) - Cardinality(freed)
  <2>1. Occupied \cap freed = freed
    BY <1>3
  <2>. QED
    BY <1>3, <2>1, OccupiedFinite, FS_Difference, SMTT(40)
<1>5. /\ Cardinality(freed) \in Nat /\ Cardinality(freed) <= Cardinality(Occupied)
  BY <1>3, OccupiedFinite, FS_Subset, FS_CardinalityType
<1>6. UsedIsExact'
  BY <1>1, <1>2, <1>4 DEF Releases, UsedIsExact, MmInfo
<1>7. BitmapTypeOK'
  <2>1. usedBlocksCount' \in 0 .. BLOCK_COUNT
    BY <1>1, <1>2, <1>5 DEF Releases
  <2>2. lastCall' \in [op : {"none", "alloc", "free"}, arg : Int, ret : Int]
    BY <1>1, <1>2 DEF Releases, NULL
  <2>. QED
    BY <1>1, <2>1, <2>2 DEF Releases, BitmapTypeOK
<1>8. Shape'
  <2>. SUFFICES ASSUME NEW i \in Blocks, bitmap'[i] = "USED"
                PROVE  i - 1 \in Blocks /\ bitmap'[i - 1] # "FREE"
    BY DEF Shape
  <2>1. i \notin freed /\ bitmap[i] = "USED"
    BY <1>1 DEF Releases
  <2>2. i - 1 \in Blocks /\ bitmap[i - 1] # "FREE"
    BY <1>2, <2>1 DEF Shape
  <2>3. i - 1 \notin freed
    <3>1. SUFFICES ASSUME i - 1 \in freed PROVE i \in freed
      BY <2>1
    <3>2. i >= index /\ \A j \in index + 1 .. i : bitmap[j] = "USED"
      BY <1>1, <1>2, <2>1, <3>1 DEF Extent, Blocks
    <3>. QED
      BY <3>2 DEF Extent
  <2>. QED
    BY <1>1, <2>2, <2>3 DEF Releases
<1>. QED
  BY <1>6, <1>7, <1>8 DEF IInv

\* Calls that return NULL or free nothing preserve the invariant.
LEMMA IdleInv ==
    ASSUME IInv, UNCHANGED << bitmap, usedBlocksCount >>,
           lastCall' \in [op : {"none", "alloc", "free"}, arg : Int, ret : Int]
    PROVE  IInv'
  BY DEF IInv, BitmapTypeOK, UsedIsExact, MmInfo, Occupied, Shape

\* Every call preserves the invariant.
LEMMA NextInv == IInv /\ [Next]_bitmapVars => IInv'
<1>. SUFFICES ASSUME IInv, [Next]_bitmapVars PROVE IInv'
  OBVIOUS
<1>1. ASSUME NEW bytes \in Sizes, MmAllocServes(bytes) PROVE IInv'
  BY <1>1, ServesInv
<1>2. ASSUME NEW bytes \in Sizes, MmAllocFails(bytes) PROVE IInv'
  BY <1>2, IdleInv, BitmapAssumption DEF MmAllocFails, NULL
<1>3. ASSUME NEW ptr \in Pointers, MmFreeReleases(ptr) PROVE IInv'
  BY <1>3, ReleasesInv
<1>4. ASSUME NEW ptr \in Pointers, MmFreeIgnores(ptr) PROVE IInv'
  BY <1>4, IdleInv, BitmapAssumption DEF MmFreeIgnores, NULL
<1>5. CASE UNCHANGED bitmapVars
  BY <1>5 DEF bitmapVars, IInv, BitmapTypeOK, UsedIsExact, MmInfo, Occupied, Shape
<1>. QED
  BY <1>1, <1>2, <1>3, <1>4, <1>5 DEF Next

\* The inductive invariant holds in every reachable state of the bitmap manager.
THEOREM BitmapInvariance == Spec => []IInv
  BY InitInv, NextInv, PTL DEF Spec

\* mm_alloc and mm_free keep every type; usedBlocksCount never wraps around.
THEOREM BitmapTypeCorrect == Spec => []BitmapTypeOK
<1>1. IInv => BitmapTypeOK
  BY DEF IInv
<1>. QED
  BY <1>1, BitmapInvariance, PTL

\* What mm_info reports as used is exact after any sequence of calls.
THEOREM UsedCorrect == Spec => []UsedIsExact
<1>1. IInv => UsedIsExact
  BY DEF IInv
<1>. QED
  BY <1>1, BitmapInvariance, PTL

-----------------------------------------------------------------------------
\* No fewer blocks would hold the request.
LEMMA LeastBlocks ==
    ASSUME NEW bytes \in Nat, NEW n \in Nat, BLOCK_SIZE \in Nat \ {0}, n * BLOCK_SIZE >= bytes
    PROVE  BlocksNeeded(bytes) <= n
<1>. DEFINE d == bytes + (BLOCK_SIZE - 1)
            q == d \div BLOCK_SIZE
<1>1. d \in Nat /\ d < (n + 1) * BLOCK_SIZE
  OBVIOUS
<1>2. q \in Int /\ d % BLOCK_SIZE \in 0 .. BLOCK_SIZE - 1 /\ d = BLOCK_SIZE * q + (d % BLOCK_SIZE)
  BY <1>1
<1>3. ASSUME q >= n + 1 PROVE FALSE
  <2>1. BLOCK_SIZE * q >= BLOCK_SIZE * (n + 1)
    BY <1>2, <1>3
  <2>. QED BY <2>1, <1>1, <1>2
<1>. QED
  BY <1>2, <1>3 DEF BlocksNeeded

\* A gap in which the request fits is a reason for mm_alloc to serve it: the
\* free blocks are counted exactly, and the scan does not miss the gap.
LEMMA RoomIsServed ==
    ASSUME IInv, NEW bytes \in Sizes, bytes # 0, bytes <= MAX_BYTES,
           NEW first \in Blocks, NEW last \in Blocks, last >= first,
           (last - first + 1) * BLOCK_SIZE >= bytes,
           \A i \in first .. last : bitmap[i] = "FREE"
    PROVE  Valid(bytes) /\ Gaps(BlocksNeeded(bytes)) # {}
<1>. DEFINE n == BlocksNeeded(bytes)
<1>1. /\ bytes \in Nat /\ BLOCK_SIZE \in Nat \ {0} /\ BLOCK_COUNT \in Nat \ {0}
      /\ first \in Nat /\ last \in Nat /\ last <= BLOCK_COUNT - 1
  BY BitmapAssumption DEF Blocks
<1>2. n \in Nat \ {0}
  BY <1>1, BlocksNeededHold
<1>3. last - first + 1 \in Nat
  BY <1>1
<1>4. n <= last - first + 1
  BY <1>1, <1>3, LeastBlocks
<1>. HIDE DEF n
<1>5. first \in Gaps(n)
  <2>1. first + n <= BLOCK_COUNT /\ first .. first + n - 1 \subseteq first .. last
    BY <1>1, <1>2, <1>4
  <2>. QED BY <2>1 DEF Gaps
<1>6. usedBlocksCount <= BLOCK_COUNT - n
  <2>1. first .. last \subseteq Blocks /\ Occupied \subseteq Blocks \ (first .. last)
    BY <1>1 DEF Blocks, Occupied
  <2>2. IsFiniteSet(Blocks) /\ Cardinality(Blocks) = BLOCK_COUNT
    <3>1. 0 \in Int /\ BLOCK_COUNT - 1 \in Int /\ ~ (0 > BLOCK_COUNT - 1)
      BY <1>1
    <3>2. Cardinality(0 .. BLOCK_COUNT - 1) = (BLOCK_COUNT - 1) - 0 + 1
      BY <3>1, FS_Interval
    <3>. QED BY <1>1, <3>2, OccupiedFinite DEF Blocks
  <2>3. Cardinality(first .. last) = last - first + 1
    BY <1>1, FS_Interval
  <2>4. Blocks \cap (first .. last) = first .. last
    BY <2>1
  <2>5. /\ IsFiniteSet(Blocks \ (first .. last))
        /\ Cardinality(Blocks \ (first .. last)) = BLOCK_COUNT - (last - first + 1)
    <3>1. /\ IsFiniteSet(Blocks \ (first .. last))
          /\ Cardinality(Blocks \ (first .. last))
                = Cardinality(Blocks) - Cardinality(Blocks \cap (first .. last))
      BY <2>2, FS_Difference, Zenon
    <3>. QED BY <2>2, <2>3, <2>4, <3>1
  <2>6. Cardinality(Occupied) <= Cardinality(Blocks \ (first .. last))
    BY <2>1, <2>5, FS_Subset
  <2>7. Cardinality(Occupied) = usedBlocksCount /\ usedBlocksCount \in Nat
    BY DEF IInv, UsedIsExact, MmInfo, BitmapTypeOK
  <2>. QED BY <1>1, <1>2, <1>4, <2>5, <2>6, <2>7
<1>7. usedBlocksCount \in Nat
  BY DEF IInv, BitmapTypeOK
<1>. QED
  BY <1>1, <1>2, <1>5, <1>6, <1>7 DEF Valid, n

\* mm_alloc returns NULL only for an empty request, one larger than the limit
\* or one that no gap of the heap can hold, after any sequence of calls.
THEOREM NullOnlyWhenNoRoomCorrect == Spec => NullOnlyWhenNoRoom
<1>. DEFINE Room(bytes) == \E first, last \in Blocks :
                /\ last >= first
                /\ (last - first + 1) * BLOCK_SIZE >= bytes
                /\ \A i \in first .. last : bitmap[i] = "FREE"
<1>1. ASSUME IInv, NEW bytes \in Sizes, bytes # 0, bytes <= MAX_BYTES, MmAllocFails(bytes)
      PROVE  ~ Room(bytes)
  BY <1>1, RoomIsServed DEF MmAllocFails
<1>2. IInv /\ [Next]_bitmapVars =>
        [\A bytes \in Sizes :
            /\ lastCall' # lastCall /\ MmAllocFails(bytes)
            /\ bytes # 0 /\ bytes <= MAX_BYTES
            => ~ Room(bytes)]_bitmapVars
  BY <1>1
<1>. QED
  BY <1>2, BitmapInvariance, PTL DEF Spec, NullOnlyWhenNoRoom

-----------------------------------------------------------------------------
(***************************************************************************)
(* The bitmap implements Allocator: the areas are the extents of BORDERs.  *)
(***************************************************************************)

\* An extent begins at its BORDER and goes on over USED blocks only.
LEMMA ExtentProperty ==
    ASSUME NEW i \in Blocks, bitmap[i] = "BORDER"
    PROVE  /\ i \in Extent(i) /\ Extent(i) \subseteq Blocks
           /\ \A j \in Extent(i) : j >= i /\ (j # i => bitmap[j] = "USED")
           /\ \A u : Heap!Begins(Extent(i), u) <=> u = i
<1>1. Extent(i) \subseteq Blocks /\ Extent(i) \subseteq Int /\ i \in Int
  BY BitmapAssumption DEF Extent, Blocks
<1>2. i \in Extent(i)
  BY <1>1 DEF Extent
<1>3. ASSUME NEW j \in Extent(i) PROVE j >= i /\ (j # i => bitmap[j] = "USED")
  BY <1>1, <1>3 DEF Extent
<1>4. ASSUME NEW u PROVE Heap!Begins(Extent(i), u) <=> u = i
  BY <1>1, <1>2, <1>3 DEF Heap!Begins
<1>. QED
  BY <1>1, <1>2, <1>3, <1>4

\* A successful mm_alloc adds an area of free blocks.
LEMMA ServesHeap ==
    ASSUME IInv, NEW bytes \in Sizes, MmAllocServes(bytes)
    PROVE  Heap!Alloc(bytes)
<1>1. PICK start \in Blocks, n \in Nat \ {0} : Serves(bytes, start, n)
  BY Served
<1>2. /\ bitmap \in [Blocks -> Marks] /\ Shape /\ BLOCK_COUNT \in Nat \ {0}
      /\ start \in Nat /\ start + n <= BLOCK_COUNT
  BY <1>1, BitmapAssumption DEF IInv, BitmapTypeOK, Serves, Blocks
<1>. DEFINE new == Heap!Area(start, n)
<1>3. \A j : j \in new <=> j \in Int /\ start <= j /\ j < start + n
  BY <1>2 DEF Heap!Area
<1>4. \A j \in new : j \in Blocks /\ bitmap[j] = "FREE"
  BY <1>1 DEF Serves, Heap!Area
<1>5. /\ bitmap'[start] = "BORDER"
      /\ \A i \in Blocks : i \in new /\ i # start => bitmap'[i] = "USED"
      /\ \A i \in Blocks : i \notin new => bitmap'[i] = bitmap[i]
  BY <1>1, <1>2, <1>3 DEF Serves, Blocks
<1>. HIDE DEF new
<1>6. \A i \in Blocks : bitmap'[i] = "BORDER" <=> bitmap[i] = "BORDER" \/ i = start
  BY <1>4, <1>5
<1>7. ASSUME NEW i \in Blocks, bitmap[i] = "BORDER" PROVE Extent(i)' = Extent(i)
  <2>1. i \notin new
    BY <1>4, <1>7
  <2>2. ASSUME NEW j \in Extent(i) PROVE j \in Extent(i)'
    <3>1. j \in Blocks /\ j >= i /\ \A m \in i + 1 .. j : m \in Blocks /\ bitmap[m] = "USED"
      BY <1>2, <2>2 DEF Extent, Blocks
    <3>2. \A m \in i + 1 .. j : bitmap'[m] = "USED"
      BY <1>4, <1>5, <3>1
    <3>. QED
      BY <3>1, <3>2 DEF Extent
  <2>3. ASSUME NEW j \in Extent(i)' PROVE j \in Extent(i)
    <3>1. j \in Blocks /\ j >= i /\ \A m \in i + 1 .. j : m \in Blocks /\ bitmap'[m] = "USED"
      BY <1>2, <2>3 DEF Extent, Blocks
    <3>2. start \notin i + 1 .. j
      BY <1>5, <3>1
    <3>3. ASSUME NEW m \in i + 1 .. j PROVE m \notin new
      <4>1. i \in Int /\ j \in Int /\ m \in Int /\ i < m /\ m <= j
        BY <1>2, <3>1, <3>3 DEF Blocks
      <4>2. ~ (i < start /\ start <= j) /\ ~ (start <= i /\ i < start + n)
        BY <1>2, <1>3, <2>1, <3>2, <4>1
      <4>. QED
        BY <1>2, <1>3, <4>1, <4>2
    <3>. QED
      BY <1>5, <3>1, <3>3 DEF Extent
  <2>. QED
    BY <2>2, <2>3
<1>8. Extent(start)' = new
  <2>1. ASSUME NEW j \in new PROVE j \in Extent(start)'
    <3>1. \A m \in start + 1 .. j : m \in new /\ m # start /\ m \in Blocks
      BY <1>2, <1>3, <1>4, <2>1
    <3>. QED
      BY <1>2, <1>3, <1>4, <1>5, <2>1, <3>1 DEF Extent
  <2>2. ASSUME NEW j \in Extent(start)' PROVE j \in new
    <3>1. j \in Blocks /\ j >= start /\ \A m \in start + 1 .. j : bitmap'[m] = "USED"
      BY <2>2 DEF Extent
    <3>2. SUFFICES ASSUME j \notin new PROVE FALSE
      OBVIOUS
    <3>3. start + n \in start + 1 .. j /\ start + n \in Blocks /\ start + n \notin new
      BY <1>2, <1>3, <3>1, <3>2 DEF Blocks
    <3>4. bitmap[start + n] = "USED"
      BY <1>5, <3>1, <3>3
    <3>5. bitmap[start + n - 1] # "FREE"
      BY <1>2, <3>3, <3>4 DEF Shape
    <3>6. start + n - 1 \in new
      BY <1>2, <1>3
    <3>. QED
      BY <1>4, <3>5, <3>6
  <2>. QED
    BY <2>1, <2>2
<1>9. LiveAreas' = LiveAreas \cup {new}
  BY <1>6, <1>7, <1>8 DEF LiveAreas
<1>10. \A area \in LiveAreas : area \cap new = {}
  <2>1. ASSUME NEW i \in Blocks, bitmap[i] = "BORDER" PROVE Extent(i) \cap new = {}
    BY <1>4, <2>1, ExtentProperty
  <2>. QED
    BY <2>1 DEF LiveAreas
<1>11. /\ bytes > 0 /\ n * BLOCK_SIZE >= bytes
       /\ lastCall' = [op |-> "alloc", arg |-> bytes, ret |-> start * BLOCK_SIZE]
  BY <1>1 DEF Serves
<1>12. start \in 0 .. BLOCK_COUNT - 1 /\ n \in 1 .. BLOCK_COUNT
  BY <1>2
<1>. QED
  BY <1>2, <1>9, <1>10, <1>11, <1>12 DEF Heap!Alloc, new

\* An mm_free that frees something removes the area that begins at its pointer.
LEMMA ReleasesHeap ==
    ASSUME IInv, NEW ptr \in Pointers, MmFreeReleases(ptr)
    PROVE  Heap!Free(ptr)
<1>1. PICK index \in Blocks : Releases(ptr, index)
  BY Released
<1>2. bitmap[index] = "BORDER" /\ bitmap \in [Blocks -> Marks]
  BY <1>1 DEF Releases, IInv, BitmapTypeOK
<1>3. /\ \A i \in Extent(index) : i # index => bitmap[i] = "USED"
      /\ index \in Extent(index)
  BY <1>2, ExtentProperty
<1>4. \A i \in Blocks : bitmap'[i] = IF i \in Extent(index) THEN "FREE" ELSE bitmap[i]
  BY <1>1 DEF Releases
<1>5. \A i \in Blocks : bitmap'[i] = "BORDER" <=> bitmap[i] = "BORDER" /\ i # index
  BY <1>3, <1>4
<1>6. ASSUME NEW i \in Blocks, bitmap[i] = "BORDER", i # index PROVE Extent(i)' = Extent(i)
  <2>1. ASSUME NEW j \in Extent(i) PROVE j \in Extent(i)'
    <3>1. j \in Blocks /\ j >= i /\ \A m \in i + 1 .. j : m \in Blocks /\ bitmap[m] = "USED"
      BY <2>1, BitmapAssumption DEF Extent, Blocks
    <3>2. ASSUME NEW m \in i + 1 .. j PROVE m \notin Extent(index)
      <4>1. SUFFICES ASSUME m \in Extent(index) PROVE FALSE
        OBVIOUS
      <4>2. m > index /\ \A l \in index + 1 .. m : bitmap[l] = "USED"
        BY <1>2, <3>1, <3>2, <4>1, BitmapAssumption DEF Extent, Blocks
      <4>3. i < index
        BY <1>6, <3>2, <4>2, BitmapAssumption DEF Blocks
      <4>4. index \in i + 1 .. j
        BY <3>1, <3>2, <4>2, <4>3, BitmapAssumption DEF Blocks
      <4>. QED
        BY <1>2, <3>1, <4>4
    <3>3. \A m \in i + 1 .. j : bitmap'[m] = "USED"
      BY <1>4, <3>1, <3>2
    <3>. QED
      BY <3>1, <3>3 DEF Extent
  <2>2. ASSUME NEW j \in Extent(i)' PROVE j \in Extent(i)
    <3>1. j \in Blocks /\ j >= i /\ \A m \in i + 1 .. j : m \in Blocks /\ bitmap'[m] = "USED"
      BY <2>2, BitmapAssumption DEF Extent, Blocks
    <3>2. \A m \in i + 1 .. j : bitmap[m] = "USED"
      BY <1>4, <3>1
    <3>. QED
      BY <3>1, <3>2 DEF Extent
  <2>. QED
    BY <2>1, <2>2
<1>7. \A i \in Blocks : bitmap[i] = "BORDER" => (Heap!Begins(Extent(i), index) <=> i = index)
  BY ExtentProperty
<1>8. LiveAreas' = {area \in LiveAreas : ~ Heap!Begins(area, index)}
  <2>1. LiveAreas' = {Extent(i) : i \in {j \in Blocks : bitmap[j] = "BORDER" /\ j # index}}
    BY <1>5, <1>6 DEF LiveAreas
  <2>. QED
    BY <1>7, <2>1 DEF LiveAreas
<1>. QED
  BY <1>1, <1>8 DEF Releases, Heap!Free

\* An mm_free of any other pointer leaves every area as it is.
LEMMA IgnoresHeap ==
    ASSUME IInv, NEW ptr \in Pointers, MmFreeIgnores(ptr)
    PROVE  Heap!Free(ptr)
<1>. DEFINE index == ptr \div BLOCK_SIZE
<1>1. ptr \in Int /\ BLOCK_SIZE \in Nat \ {0}
  BY BitmapAssumption
<1>2. index \in Blocks => ptr >= 0
  <2>1. index \in Int /\ ptr % BLOCK_SIZE \in 0 .. BLOCK_SIZE - 1
        /\ ptr = BLOCK_SIZE * index + (ptr % BLOCK_SIZE)
    BY <1>1
  <2>. QED
    BY <1>1, <2>1 DEF Blocks
<1>3. ~ (index \in Blocks /\ bitmap[index] = "BORDER")
  BY <1>1, <1>2 DEF MmFreeIgnores, IsAllocation, NULL
<1>. HIDE DEF index
<1>4. \A area \in LiveAreas : ~ Heap!Begins(area, index)
  BY <1>3, ExtentProperty DEF LiveAreas
<1>5. LiveAreas' = LiveAreas
  BY DEF MmFreeIgnores, LiveAreas, Extent
<1>. QED
  BY <1>4, <1>5 DEF MmFreeIgnores, Heap!Free, index

\* bitmap.c implements what memoryManagement.h promises: mm_alloc returns an
\* area nobody else has and large enough, mm_free frees that area and no other.
THEOREM BitmapRefinesAllocator == Spec => ImplementsAllocator
<1>1. Init => Heap!Init
  BY DEF Init, Heap!Init, LiveAreas
<1>2. IInv /\ [Next]_bitmapVars => [Heap!Next]_<< LiveAreas, lastCall >>
  <2>. SUFFICES ASSUME IInv, [Next]_bitmapVars
                PROVE  [Heap!Next]_<< LiveAreas, lastCall >>
    OBVIOUS
  <2>1. ASSUME NEW bytes \in Sizes, MmAllocServes(bytes) PROVE Heap!Next
    BY <2>1, ServesHeap DEF Heap!Next
  <2>2. ASSUME NEW bytes \in Sizes, MmAllocFails(bytes) PROVE Heap!Next
    BY <2>2 DEF MmAllocFails, Heap!Next, Heap!Refuse, LiveAreas, Extent
  <2>3. ASSUME NEW ptr \in Pointers, MmFreeReleases(ptr) PROVE Heap!Next
    BY <2>3, ReleasesHeap DEF Heap!Next
  <2>4. ASSUME NEW ptr \in Pointers, MmFreeIgnores(ptr) PROVE Heap!Next
    BY <2>4, IgnoresHeap DEF Heap!Next
  <2>5. CASE UNCHANGED bitmapVars
    BY <2>5 DEF bitmapVars, LiveAreas, Extent
  <2>. QED
    BY <2>1, <2>2, <2>3, <2>4, <2>5 DEF Next
<1>. QED
  BY <1>1, <1>2, BitmapInvariance, PTL DEF Spec, ImplementsAllocator, Heap!Spec

-----------------------------------------------------------------------------
(***************************************************************************)
(* The pointer list.                                                       *)
(***************************************************************************)

Link == Node \cup {NIL}

ListTyped ==
    /\ list \in [head : Link, tail : Link, current : Link, size : Nat]
    /\ node \in [Node -> [data : Data \cup {NIL}, prev : Link, next : Link]]
    /\ order \in Seq(Node)

\* The iterator of a loop is at a node of the list or at its end, and what
\* nextInList returned last is before it.
Iterating ==
    /\ ~ looping => given = {}
    /\ looping => list.current = NIL \/ \E p \in DOMAIN order : order[p] = list.current
    /\ \A d \in given : \E i \in DOMAIN order :
        /\ node[order[i]].data = d
        /\ \A p \in DOMAIN order : order[p] = list.current => i < p

ListInv == ListTyped /\ DoublyLinked /\ Iterating

LEMMA ListInitInv == ListInit => ListInv
<1>. SUFFICES ASSUME ListInit PROVE ListInv
  OBVIOUS
<1>1. order = << >> /\ order \in Seq(Node) /\ Len(order) = 0 /\ DOMAIN order = {}
  BY DEF ListInit
<1>2. ListTyped
  BY <1>1 DEF ListInit, ListTyped, Link
<1>3. DoublyLinked
  BY <1>1 DEF ListInit, DoublyLinked
<1>4. Iterating
  BY <1>1 DEF ListInit, Iterating
<1>. QED
  BY <1>2, <1>3, <1>4 DEF ListInv

\* DoublyLinked in terms of the length of the list.
Chain(l, nd, nodes, s, n) ==
    /\ l.size = n
    /\ l.head = IF n = 0 THEN NIL ELSE s[1]
    /\ l.tail = IF n = 0 THEN NIL ELSE s[n]
    /\ \A i \in 1 .. n :
        /\ nd[s[i]].prev = IF i = 1 THEN NIL ELSE s[i - 1]
        /\ nd[s[i]].next = IF i = n THEN NIL ELSE s[i + 1]
    /\ \A i, j \in 1 .. n : s[i] = s[j] => i = j
    /\ nodes = {s[i] : i \in 1 .. n}

LEMMA ChainProperty ==
    order \in Seq(Node) =>
        (DoublyLinked <=> Chain(list, node, allocated, order, Len(order)))
<1>. SUFFICES ASSUME order \in Seq(Node)
              PROVE  DoublyLinked <=> Chain(list, node, allocated, order, Len(order))
  OBVIOUS
<1>1. Len(order) \in Nat /\ DOMAIN order = 1 .. Len(order) /\ (order = << >> <=> Len(order) = 0)
  OBVIOUS
<1>2. ASSUME Len(order) = 0
      PROVE  DoublyLinked <=> Chain(list, node, allocated, order, Len(order))
  <2>1. order = << >> /\ DOMAIN order = 1 .. 0 /\ DOMAIN order = {} /\ Len(order) = 0
    BY <1>1, <1>2
  <2>. QED
    BY <2>1 DEF DoublyLinked, Chain
<1>3. ASSUME Len(order) # 0
      PROVE  DoublyLinked <=> Chain(list, node, allocated, order, Len(order))
  <2>. DEFINE n == Len(order)
  <2>1. order # << >> /\ DOMAIN order = 1 .. n /\ n # 0
    BY <1>1, <1>3
  <2>. HIDE DEF n
  <2>2. DoublyLinked <=>
        /\ list.size = n
        /\ list.head = order[1]
        /\ list.tail = order[n]
        /\ \A i \in 1 .. n :
            /\ node[order[i]].prev = IF i = 1 THEN NIL ELSE order[i - 1]
            /\ node[order[i]].next = IF i = n THEN NIL ELSE order[i + 1]
        /\ \A i, j \in 1 .. n : order[i] = order[j] => i = j
        /\ allocated = {order[i] : i \in 1 .. n}
    BY <2>1, Zenon DEF DoublyLinked, n
  <2>3. Chain(list, node, allocated, order, n) <=>
        /\ list.size = n
        /\ list.head = order[1]
        /\ list.tail = order[n]
        /\ \A i \in 1 .. n :
            /\ node[order[i]].prev = IF i = 1 THEN NIL ELSE order[i - 1]
            /\ node[order[i]].next = IF i = n THEN NIL ELSE order[i + 1]
        /\ \A i, j \in 1 .. n : order[i] = order[j] => i = j
        /\ allocated = {order[i] : i \in 1 .. n}
    BY <2>1, Zenon DEF Chain
  <2>. QED
    BY <2>2, <2>3, Zenon DEF n
<1>. QED
  BY <1>2, <1>3

\* The same of the state after a step.
LEMMA ChainPropertyAfter ==
    order' \in Seq(Node) =>
        (DoublyLinked' <=> Chain(list', node', allocated', order', Len(order')))
<1>1. (order \in Seq(Node) =>
          (DoublyLinked <=> Chain(list, node, allocated, order, Len(order))))'
  BY ChainProperty, PTL
<1>. QED
  BY <1>1 DEF Chain

\* addNode hangs a new node behind the last one.
LEMMA AddNodeInv ==
    ASSUME ListInv, NEW d \in Data, NEW n \in Node \ allocated,
           ~ looping, UNCHANGED << looping, given >>,
           allocated' = allocated \cup {n},
           node' = [m \in Node |->
                IF m = n THEN [data |-> d, prev |-> list.tail, next |-> NIL]
                ELSE IF list.size > 0 /\ m = list.tail THEN [node[m] EXCEPT !.next = n]
                ELSE node[m]],
           list' = [list EXCEPT !.head = IF list.size > 0 THEN @ ELSE n,
                                !.tail = n,
                                !.size = @ + 1],
           order' = Append(order, n)
    PROVE  /\ ListInv'
           /\ \A i \in DOMAIN order : node'[order[i]].data = node[order[i]].data
           /\ node'[n].data = d
<1>. DEFINE N == Len(order)
<1>1. ListTyped /\ Iterating /\ N \in Nat /\ DOMAIN order = 1 .. N
  BY DEF ListInv, ListTyped
<1>2. Chain(list, node, allocated, order, N)
  BY <1>1, ChainProperty DEF ListInv, ListTyped
<1>3. /\ order' \in Seq(Node) /\ Len(order') = N + 1 /\ DOMAIN order' = 1 .. N + 1
      /\ \A i \in 1 .. N : order'[i] = order[i] /\ order[i] \in Node
      /\ order'[N + 1] = n
  BY <1>1 DEF ListTyped
<1>. HIDE DEF N
<1>4. /\ list.size = N /\ (N > 0 => list.tail = order[N]) /\ (N = 0 => list.tail = NIL)
      /\ \A i, j \in 1 .. N : order[i] = order[j] => i = j
      /\ \A i \in 1 .. N : order[i] # n
  BY <1>1, <1>2 DEF Chain
<1>5. /\ node'[n] = [data |-> d, prev |-> list.tail, next |-> NIL]
      /\ \A i \in 1 .. N : i # N => node'[order[i]] = node[order[i]]
      /\ N > 0 => node'[order[N]] = [node[order[N]] EXCEPT !.next = n]
  BY <1>1, <1>3, <1>4
<1>6. \A i \in 1 .. N : node[order[i]] \in [data : Data \cup {NIL}, prev : Link, next : Link]
  BY <1>1, <1>3 DEF ListTyped
<1>7. \A i \in 1 .. N : /\ node'[order[i]].prev = node[order[i]].prev
                        /\ node'[order[i]].data = node[order[i]].data
                        /\ node'[order[i]].next = IF i = N THEN n ELSE node[order[i]].next
  <2>1. ASSUME NEW i \in 1 .. N, i # N
        PROVE  node'[order[i]] = node[order[i]]
    BY <1>5, <2>1
  <2>2. ASSUME N > 0
        PROVE  /\ node'[order[N]].prev = node[order[N]].prev
               /\ node'[order[N]].data = node[order[N]].data
               /\ node'[order[N]].next = n
    <3>1. N \in 1 .. N
      BY <1>1, <2>2
    <3>2. /\ node'[order[N]] = [node[order[N]] EXCEPT !.next = n]
          /\ node[order[N]] \in [data : Data \cup {NIL}, prev : Link, next : Link]
      BY <1>5, <1>6, <2>2, <3>1
    <3>. QED
      BY <3>2
  <2>. SUFFICES ASSUME NEW i \in 1 .. N
                PROVE  /\ node'[order[i]].prev = node[order[i]].prev
                       /\ node'[order[i]].data = node[order[i]].data
                       /\ node'[order[i]].next = IF i = N THEN n ELSE node[order[i]].next
    OBVIOUS
  <2>3. CASE i = N
    BY <1>1, <2>2, <2>3
  <2>4. CASE i # N
    <3>1. node'[order[i]] = node[order[i]]
      BY <2>1, <2>4
    <3>2. node'[order[i]].next = node[order[i]].next
      BY <3>1, Zenon
    <3>3. /\ node'[order[i]].prev = node[order[i]].prev
          /\ node'[order[i]].data = node[order[i]].data
      BY <3>1, Zenon
    <3>. QED
      BY <2>4, <3>2, <3>3
  <2>. QED
    BY <2>3, <2>4
<1>8. ListTyped'
  <2>1. list' \in [head : Link, tail : Link, current : Link, size : Nat]
    <3>1. list \in [head : Link, tail : Link, current : Link, size : Nat] /\ n \in Link
      BY <1>1 DEF ListTyped, Link
    <3>. DEFINE h == IF list.size > 0 THEN list.head ELSE n
                z == list.size + 1
    <3>2. list' = [list EXCEPT !.head = h, !.tail = n, !.size = z]
      OBVIOUS
    <3>3. h \in Link /\ z \in Nat
      BY <3>1
    <3>. HIDE DEF h, z
    <3>. QED
      BY <3>1, <3>2, <3>3
  <2>2. node' \in [Node -> [data : Data \cup {NIL}, prev : Link, next : Link]]
    <3>1. /\ list.tail \in Link /\ n \in Link /\ NIL \in Link
          /\ node \in [Node -> [data : Data \cup {NIL}, prev : Link, next : Link]]
      BY <1>1 DEF ListTyped, Link
    <3>. QED
      BY <3>1
  <2>. QED
    BY <1>3, <2>1, <2>2 DEF ListTyped, Link
<1>9. Chain(list', node', allocated', order', N + 1)
  <2>1. /\ list'.size = N + 1 /\ list'.tail = n
        /\ list'.head = IF N = 0 THEN n ELSE list.head
    BY <1>1, <1>4 DEF ListTyped
  <2>2. list'.head = order'[1]
    BY <1>1, <1>2, <1>3, <2>1 DEF Chain
  <2>3. \A i \in 1 .. N + 1 :
            /\ node'[order'[i]].prev = IF i = 1 THEN NIL ELSE order'[i - 1]
            /\ node'[order'[i]].next = IF i = N + 1 THEN NIL ELSE order'[i + 1]
    <3>. SUFFICES ASSUME NEW i \in 1 .. N + 1
                  PROVE  /\ node'[order'[i]].prev = IF i = 1 THEN NIL ELSE order'[i - 1]
                         /\ node'[order'[i]].next = IF i = N + 1 THEN NIL ELSE order'[i + 1]
      OBVIOUS
    <3>1. CASE i = N + 1
      BY <1>1, <1>3, <1>4, <1>5, <3>1
    <3>2. CASE i \in 1 .. N
      <4>1. /\ node[order[i]].prev = IF i = 1 THEN NIL ELSE order[i - 1]
            /\ node[order[i]].next = IF i = N THEN NIL ELSE order[i + 1]
        BY <1>2, <3>2 DEF Chain
      <4>2. order'[i] = order[i] /\ (i # 1 => order'[i - 1] = order[i - 1])
        BY <1>1, <1>3, <3>2
      <4>3. order'[i + 1] = IF i = N THEN n ELSE order[i + 1]
        BY <1>1, <1>3, <3>2
      <4>4. node'[order[i]].prev = node[order[i]].prev
            /\ node'[order[i]].next = IF i = N THEN n ELSE node[order[i]].next
        BY <1>7, <3>2
      <4>. QED
        BY <1>1, <3>2, <4>1, <4>2, <4>3, <4>4
    <3>. QED
      BY <1>1, <3>1, <3>2
  <2>4. \A i, j \in 1 .. N + 1 : order'[i] = order'[j] => i = j
    BY <1>1, <1>3, <1>4
  <2>5. allocated' = {order'[i] : i \in 1 .. N + 1}
    <3>1. allocated = {order[i] : i \in 1 .. N}
      BY <1>2 DEF Chain
    <3>2. \A m : m \in {order'[i] : i \in 1 .. N + 1} <=> m = n \/ m \in {order[i] : i \in 1 .. N}
      BY <1>1, <1>3
    <3>. QED
      BY <3>1, <3>2
  <2>6. N + 1 # 0 /\ list'.tail = order'[N + 1]
    BY <1>1, <1>3, <2>1
  <2>. QED
    BY <2>1, <2>2, <2>3, <2>4, <2>5, <2>6 DEF Chain
<1>10. DoublyLinked'
  BY <1>3, <1>9, ChainPropertyAfter
<1>11. Iterating'
  BY <1>1 DEF Iterating
<1>. QED
  BY <1>1, <1>3, <1>5, <1>7, <1>8, <1>10, <1>11 DEF ListInv

-----------------------------------------------------------------------------
(***************************************************************************)
(* removeNode takes a node out of the chain.                               *)
(***************************************************************************)

\* The order after the node in place i is gone.
LEMMA RemovedAtProperty ==
    ASSUME NEW S, order \in Seq(S), NEW i \in 1 .. Len(order)
    PROVE  /\ RemovedAt(i) \in Seq(S) /\ Len(RemovedAt(i)) = Len(order) - 1
           /\ \A j \in 1 .. Len(order) - 1 :
                RemovedAt(i)[j] = IF j < i THEN order[j] ELSE order[j + 1]
<1>. DEFINE r == [j \in 1 .. Len(order) - 1 |-> order[IF j < i THEN j ELSE j + 1]]
<1>1. r = RemovedAt(i)
  BY DEF RemovedAt
<1>2. Len(order) - 1 \in Nat /\ \A j \in 1 .. Len(order) - 1 : order[j] \in S /\ order[j + 1] \in S
  OBVIOUS
<1>3. \A j \in 1 .. Len(order) - 1 :
        order[IF j < i THEN j ELSE j + 1] = IF j < i THEN order[j] ELSE order[j + 1]
  OBVIOUS
<1>4. r \in Seq(S) /\ Len(r) = Len(order) - 1
  BY <1>2, <1>3
<1>. QED
  BY <1>1, <1>3, <1>4

LEMMA UnlinkInv ==
    ASSUME ListTyped, DoublyLinked, NEW i \in DOMAIN order,
           Unlink(order[i]), order' = RemovedAt(i)
    PROVE  /\ ListTyped' /\ DoublyLinked'
           /\ \A m \in Node : node'[m].data = node[m].data
           /\ list'.current = list.current
<1>. DEFINE N == Len(order)
            n == order[i]
<1>1. N \in Nat /\ DOMAIN order = 1 .. N /\ i \in 1 .. N
  BY DEF ListTyped
<1>2. Chain(list, node, allocated, order, N)
  BY <1>1, ChainProperty, SMTT(40) DEF ListTyped
<1>3. /\ order' \in Seq(Node) /\ Len(order') = N - 1
      /\ \A j \in 1 .. N - 1 : order'[j] = IF j < i THEN order[j] ELSE order[j + 1]
  BY <1>1, RemovedAtProperty DEF ListTyped
<1>4. \A j \in 1 .. N : order[j] \in Node /\ order[j] # NIL
  BY <1>1, LinkedListAssumption, SMTT(40) DEF ListTyped
<1>5. /\ n \in Node /\ n = order[i]
      /\ node[n].prev = IF i = 1 THEN NIL ELSE order[i - 1]
      /\ node[n].next = IF i = N THEN NIL ELSE order[i + 1]
      /\ \A j \in 1 .. N :
            /\ node[order[j]].prev = IF j = 1 THEN NIL ELSE order[j - 1]
            /\ node[order[j]].next = IF j = N THEN NIL ELSE order[j + 1]
      /\ \A a, b \in 1 .. N : order[a] = order[b] => a = b
  BY <1>1, <1>2, <1>4 DEF Chain
<1>6. /\ node' = [m \in Node |->
            [node[m] EXCEPT
                !.next = IF node[n].prev # NIL /\ m = node[n].prev THEN node[n].next ELSE @,
                !.prev = IF node[n].next # NIL /\ m = node[n].next THEN node[n].prev ELSE @]]
      /\ list' = [list EXCEPT !.head = IF node[n].prev = NIL THEN node[n].next ELSE @,
                              !.tail = IF node[n].next = NIL THEN node[n].prev ELSE @,
                              !.size = @ - 1]
      /\ allocated' = allocated \ {n}
  BY DEF Unlink
<1>. HIDE DEF N, n
<1>7. \A m \in Node : node[m] \in [data : Data \cup {NIL}, prev : Link, next : Link]
  BY DEF ListTyped
<1>8. ASSUME NEW m \in Node
      PROVE  /\ node'[m].data = node[m].data
             /\ node'[m].next = IF node[n].prev # NIL /\ m = node[n].prev
                               THEN node[n].next ELSE node[m].next
             /\ node'[m].prev = IF node[n].next # NIL /\ m = node[n].next
                               THEN node[n].prev ELSE node[m].prev
             /\ node'[m] \in [data : Data \cup {NIL}, prev : Link, next : Link]
  <2>. DEFINE x == IF node[n].prev # NIL /\ m = node[n].prev THEN node[n].next ELSE node[m].next
              y == IF node[n].next # NIL /\ m = node[n].next THEN node[n].prev ELSE node[m].prev
  <2>1. node'[m] = [node[m] EXCEPT !.next = x, !.prev = y]
    BY <1>6
  <2>2. node[m] \in [data : Data \cup {NIL}, prev : Link, next : Link] /\ x \in Link /\ y \in Link
    BY <1>5, <1>7
  <2>. HIDE DEF x, y
  <2>3. /\ node'[m].data = node[m].data /\ node'[m].next = x /\ node'[m].prev = y
        /\ node'[m] \in [data : Data \cup {NIL}, prev : Link, next : Link]
    BY <2>1, <2>2
  <2>. QED
    BY <2>3 DEF x, y
<1>9. ASSUME NEW p \in 1 .. N, p # i
      PROVE  /\ node'[order[p]].next = IF p = i - 1 THEN node[n].next ELSE node[order[p]].next
             /\ node'[order[p]].prev = IF p = i + 1 THEN node[n].prev ELSE node[order[p]].prev
  <2>1. order[p] \in Node
    BY <1>4
  <2>2. node[n].prev # NIL /\ order[p] = node[n].prev <=> p = i - 1
    BY <1>1, <1>4, <1>5
  <2>3. node[n].next # NIL /\ order[p] = node[n].next <=> p = i + 1
    BY <1>1, <1>4, <1>5
  <2>. QED
    BY <1>8, <2>1, <2>2, <2>3
<1>10. \A j \in 1 .. N - 1 : node'[order'[j]].next = IF j = N - 1 THEN NIL ELSE order'[j + 1]
  <2>. SUFFICES ASSUME NEW j \in 1 .. N - 1
                PROVE  node'[order'[j]].next = IF j = N - 1 THEN NIL ELSE order'[j + 1]
    OBVIOUS
  <2>1. CASE j < i - 1
    <3>1. j \in 1 .. N /\ j # i /\ j # i - 1 /\ j # N /\ j # N - 1
      BY <1>1, <2>1
    <3>2. order'[j] = order[j] /\ order'[j + 1] = order[j + 1]
      BY <1>1, <1>3, <2>1
    <3>. QED
      BY <1>5, <1>9, <3>1, <3>2
  <2>2. CASE j = i - 1
    <3>1. j \in 1 .. N /\ j # i /\ (j = N - 1 <=> i = N)
      BY <1>1, <2>2
    <3>2. order'[j] = order[j] /\ (i # N => order'[j + 1] = order[i + 1])
      BY <1>1, <1>3, <2>2
    <3>. QED
      BY <1>5, <1>9, <2>2, <3>1, <3>2
  <2>3. CASE j >= i
    <3>1. j + 1 \in 1 .. N /\ j + 1 # i /\ j + 1 # i - 1 /\ (j = N - 1 <=> j + 1 = N)
      BY <1>1, <2>3
    <3>2. order'[j] = order[j + 1] /\ (j # N - 1 => order'[j + 1] = order[(j + 1) + 1])
      BY <1>1, <1>3, <2>3
    <3>3. node'[order[j + 1]].next = node[order[j + 1]].next
      BY <1>9, <3>1
    <3>4. node[order[j + 1]].next = IF j + 1 = N THEN NIL ELSE order[(j + 1) + 1]
      BY <1>5, <3>1
    <3>. QED
      BY <3>1, <3>2, <3>3, <3>4
  <2>. QED
    BY <1>1, <2>1, <2>2, <2>3
<1>11. \A j \in 1 .. N - 1 : node'[order'[j]].prev = IF j = 1 THEN NIL ELSE order'[j - 1]
  <2>. SUFFICES ASSUME NEW j \in 1 .. N - 1
                PROVE  node'[order'[j]].prev = IF j = 1 THEN NIL ELSE order'[j - 1]
    OBVIOUS
  <2>1. CASE j < i
    <3>1. j \in 1 .. N /\ j # i /\ j # i + 1
      BY <1>1, <2>1
    <3>2. order'[j] = order[j] /\ (j # 1 => order'[j - 1] = order[j - 1])
      BY <1>1, <1>3, <2>1, SMTT(40)
    <3>. QED
      BY <1>5, <1>9, <3>1, <3>2
  <2>2. CASE j = i
    <3>1. j + 1 \in 1 .. N /\ j + 1 # i /\ j + 1 = i + 1
      BY <1>1, <2>2
    <3>2. order'[j] = order[j + 1] /\ (j # 1 => order'[j - 1] = order[i - 1])
      BY <1>1, <1>3, <2>2
    <3>. QED
      BY <1>5, <1>9, <2>2, <3>1, <3>2
  <2>3. CASE j > i
    <3>1. j + 1 \in 1 .. N /\ j + 1 # i /\ j + 1 # i + 1 /\ j # 1 /\ j + 1 # 1
      BY <1>1, <2>3
    <3>2. order'[j] = order[j + 1] /\ order'[j - 1] = order[(j + 1) - 1]
      BY <1>1, <1>3, <2>3
    <3>3. node'[order[j + 1]].prev = node[order[j + 1]].prev
      BY <1>9, <3>1
    <3>4. node[order[j + 1]].prev = order[(j + 1) - 1]
      BY <1>5, <3>1
    <3>. QED
      BY <3>1, <3>2, <3>3, <3>4
  <2>. QED
    BY <1>1, <2>1, <2>2, <2>3
<1>12. \A a, b \in 1 .. N - 1 : order'[a] = order'[b] => a = b
  BY <1>1, <1>3, <1>5
<1>13. allocated' = {order'[j] : j \in 1 .. N - 1}
  <2>1. allocated = {order[j] : j \in 1 .. N}
    BY <1>2 DEF Chain
  <2>2. ASSUME NEW j \in 1 .. N - 1 PROVE order'[j] \in allocated \ {n}
    <3>1. PICK p \in 1 .. N : p # i /\ order'[j] = order[p]
      BY <1>1, <1>3
    <3>. QED
      BY <1>1, <1>5, <2>1, <3>1
  <2>3. ASSUME NEW m \in allocated \ {n} PROVE m \in {order'[j] : j \in 1 .. N - 1}
    <3>1. PICK p \in 1 .. N : m = order[p] /\ p # i
      BY <1>5, <2>1
    <3>2. CASE p < i
      BY <1>1, <1>3, <3>1, <3>2
    <3>3. CASE p > i
      <4>1. p - 1 \in 1 .. N - 1 /\ ~ (p - 1 < i) /\ (p - 1) + 1 = p
        BY <1>1, <3>3
      <4>2. order'[p - 1] = order[p]
        BY <1>3, <4>1
      <4>. QED
        BY <3>1, <4>1, <4>2
    <3>. QED
      BY <1>1, <3>1, <3>2, <3>3
  <2>. QED
    BY <1>6, <2>2, <2>3
<1>14. /\ list'.size = N - 1 /\ list'.current = list.current
       /\ list'.head = IF i = 1 THEN node[n].next ELSE list.head
       /\ list'.tail = IF i = N THEN node[n].prev ELSE list.tail
       /\ list' \in [head : Link, tail : Link, current : Link, size : Nat]
  <2>. DEFINE h == IF node[n].prev = NIL THEN node[n].next ELSE list.head
              t == IF node[n].next = NIL THEN node[n].prev ELSE list.tail
              z == list.size - 1
  <2>1. list' = [list EXCEPT !.head = h, !.tail = t, !.size = z]
    BY <1>6
  <2>2. list \in [head : Link, tail : Link, current : Link, size : Nat]
    BY DEF ListTyped
  <2>3. list.size = N
    BY <1>2 DEF Chain
  <2>4. h = IF i = 1 THEN node[n].next ELSE list.head
    BY <1>1, <1>4, <1>5
  <2>5. t = IF i = N THEN node[n].prev ELSE list.tail
    BY <1>1, <1>4, <1>5
  <2>6. h \in Link /\ t \in Link /\ z \in Nat /\ z = N - 1
    BY <1>1, <1>5, <1>7, <2>2, <2>3
  <2>. HIDE DEF h, t, z
  <2>7. /\ list'.size = z /\ list'.head = h /\ list'.tail = t /\ list'.current = list.current
        /\ list' \in [head : Link, tail : Link, current : Link, size : Nat]
    BY <2>1, <2>2, <2>6
  <2>. QED
    BY <2>4, <2>5, <2>6, <2>7
<1>15. Chain(list', node', allocated', order', N - 1)
  <2>1. list'.head = IF N - 1 = 0 THEN NIL ELSE order'[1]
    <3>1. list.head = order[1]
      BY <1>1, <1>2 DEF Chain
    <3>. QED
      BY <1>1, <1>3, <1>5, <1>14, <3>1
  <2>2. list'.tail = IF N - 1 = 0 THEN NIL ELSE order'[N - 1]
    <3>1. list.tail = order[N]
      BY <1>1, <1>2 DEF Chain
    <3>. QED
      BY <1>1, <1>3, <1>5, <1>14, <3>1
  <2>. QED
    BY <1>10, <1>11, <1>12, <1>13, <1>14, <2>1, <2>2 DEF Chain
<1>16. DoublyLinked'
  BY <1>3, <1>15, ChainPropertyAfter
<1>17. ListTyped'
  <2>1. node' \in [Node -> [data : Data \cup {NIL}, prev : Link, next : Link]]
    BY <1>6, <1>8
  <2>. QED
    BY <1>3, <1>14, <2>1 DEF ListTyped, Link
<1>. QED
  BY <1>8, <1>14, <1>16, <1>17

\* The body of a loop only removes what is before the iterator.
LEMMA RemoveGivenInv ==
    ASSUME ListInv, NEW d \in Data, d \in given, NEW i \in DOMAIN order, looping,
           IsFirst(i, d), Unlink(order[i]), order' = RemovedAt(i), given' = {}
    PROVE  /\ ListInv'
           /\ \A p \in DOMAIN order : order[p] = list.current =>
                /\ i < p /\ p - 1 \in DOMAIN order' /\ order'[p - 1] = list'.current
           /\ \A m \in Node : node'[m].data = node[m].data
           /\ list'.current = list.current
<1>1. /\ ListTyped /\ DoublyLinked /\ Iterating
      /\ DOMAIN order = 1 .. Len(order) /\ Len(order) \in Nat /\ i \in 1 .. Len(order)
  BY DEF ListInv, ListTyped
<1>2. /\ ListTyped' /\ DoublyLinked' /\ list'.current = list.current
      /\ \A m \in Node : node'[m].data = node[m].data
  BY <1>1, UnlinkInv
<1>3. /\ Len(order') = Len(order) - 1 /\ DOMAIN order' = 1 .. Len(order) - 1
      /\ \A j \in 1 .. Len(order) - 1 : order'[j] = IF j < i THEN order[j] ELSE order[j + 1]
  <2>1. /\ order' \in Seq(Node) /\ Len(order') = Len(order) - 1
        /\ \A j \in 1 .. Len(order) - 1 : order'[j] = IF j < i THEN order[j] ELSE order[j + 1]
    BY <1>1, RemovedAtProperty DEF ListTyped
  <2>2. DOMAIN order' = 1 .. Len(order')
    BY <2>1
  <2>. QED
    BY <2>1, <2>2, SMTT(40)
<1>4. PICK b \in 1 .. Len(order) :
            /\ node[order[b]].data = d
            /\ \A p \in DOMAIN order : order[p] = list.current => b < p
  BY <1>1 DEF Iterating
<1>5. i <= b
  BY <1>1, <1>4 DEF IsFirst
<1>6. ASSUME NEW p \in DOMAIN order, order[p] = list.current
      PROVE  /\ i < p /\ p - 1 \in DOMAIN order' /\ order'[p - 1] = list'.current
  <2>1. p \in 1 .. Len(order) /\ i < p
    BY <1>1, <1>4, <1>5, <1>6
  <2>2. p - 1 \in 1 .. Len(order) - 1 /\ ~ (p - 1 < i) /\ (p - 1) + 1 = p
    BY <1>1, <2>1
  <2>. QED
    BY <1>2, <1>3, <1>6, <2>1, <2>2
<1>7. Iterating'
  BY <1>1, <1>2, <1>6 DEF Iterating
<1>. QED
  BY <1>2, <1>6, <1>7 DEF ListInv

\* nextInList moves the iterator behind the node whose pointer it returns.
LEMMA NextInListInv ==
    ASSUME ListInv, NextInList
    PROVE  /\ ListInv'
           /\ \E p \in DOMAIN order :
                /\ order[p] = list.current
                /\ list'.current = IF p = Len(order) THEN NIL ELSE order[p + 1]
<1>. DEFINE N == Len(order)
<1>1. /\ ListTyped /\ DoublyLinked /\ Iterating /\ DOMAIN order = 1 .. N /\ N \in Nat
      /\ Chain(list, node, allocated, order, N)
  BY ChainProperty DEF ListInv, ListTyped
<1>2. /\ looping /\ looping' /\ UNCHANGED << node, allocated, order >>
      /\ list.current # NIL
      /\ list' = [list EXCEPT !.current = node[list.current].next]
      /\ given' = {node[list.current].data}
  BY DEF NextInList
<1>. HIDE DEF N
<1>3. PICK p \in 1 .. N : order[p] = list.current
  BY <1>1, <1>2 DEF Iterating
<1>4. /\ order[p] \in Node
      /\ node[order[p]].next = IF p = N THEN NIL ELSE order[p + 1]
      /\ \A a, b \in 1 .. N : order[a] = order[b] => a = b
      /\ \A a \in 1 .. N : order[a] # NIL
  <2>1. \A a \in 1 .. N : order[a] \in Node
    BY <1>1 DEF ListTyped, N
  <2>2. /\ \A a \in 1 .. N : node[order[a]].next = IF a = N THEN NIL ELSE order[a + 1]
        /\ \A a, b \in 1 .. N : order[a] = order[b] => a = b
    BY <1>1 DEF Chain
  <2>. QED
    BY <2>1, <2>2, LinkedListAssumption
<1>5. /\ list' \in [head : Link, tail : Link, current : Link, size : Nat]
      /\ list'.current = node[order[p]].next
      /\ list'.head = list.head /\ list'.tail = list.tail /\ list'.size = list.size
  <2>1. /\ list \in [head : Link, tail : Link, current : Link, size : Nat]
        /\ node[order[p]].next \in Link
    BY <1>1, <1>4 DEF ListTyped
  <2>. QED
    BY <1>2, <1>3, <2>1
<1>6. ListTyped'
  BY <1>1, <1>2, <1>5 DEF ListTyped, Link
<1>7. DoublyLinked'
  <2>1. Chain(list', node', allocated', order', N)
    BY <1>1, <1>2, <1>5 DEF Chain
  <2>. QED
    BY <1>2, <1>6, <2>1, ChainPropertyAfter DEF ListTyped, N
<1>8. Iterating'
  <2>1. list'.current = NIL \/ \E a \in DOMAIN order' : order'[a] = list'.current
    BY <1>1, <1>2, <1>4, <1>5
  <2>2. \A a \in DOMAIN order' : order'[a] = list'.current => p < a
    BY <1>1, <1>2, <1>4, <1>5
  <2>3. given' = {node'[order'[p]].data} /\ p \in DOMAIN order'
    BY <1>1, <1>2, <1>3
  <2>. QED
    BY <1>2, <2>1, <2>2, <2>3 DEF Iterating
<1>. QED
  BY <1>1, <1>3, <1>4, <1>5, <1>6, <1>7, <1>8 DEF ListInv, N

\* Every operation keeps the chain.
LEMMA ListNextInv == ListInv /\ [ListNext]_listVars => ListInv'
<1>. SUFFICES ASSUME ListInv, [ListNext]_listVars PROVE ListInv'
  OBVIOUS
<1>1. ASSUME NEW d \in Data, AddNode(d) PROVE ListInv'
  BY <1>1, AddNodeInv DEF AddNode
<1>2. ASSUME NEW d \in Data, RemoveNode(d) PROVE ListInv'
  <2>1. ListTyped' /\ DoublyLinked'
    BY <1>2, UnlinkInv DEF RemoveNode, ListInv
  <2>2. ~ looping' /\ given' = {}
    BY <1>2 DEF RemoveNode, ListInv, Iterating
  <2>. QED
    BY <2>1, <2>2 DEF ListInv, Iterating
<1>3. ASSUME NEW d \in Data, RemoveGiven(d) PROVE ListInv'
  BY <1>3, RemoveGivenInv DEF RemoveGiven
<1>4. CASE FreeLinkedList
  <2>1. order' = << >> /\ order' \in Seq(Node) /\ Len(order') = 0 /\ DOMAIN order' = {}
    BY <1>4 DEF FreeLinkedList
  <2>2. ListTyped'
    BY <1>4, <2>1 DEF FreeLinkedList, ListInv, ListTyped, Link
  <2>3. DoublyLinked'
    BY <1>4, <2>1 DEF FreeLinkedList, DoublyLinked
  <2>4. Iterating'
    BY <1>4, <2>1 DEF FreeLinkedList, ListInv, Iterating
  <2>. QED
    BY <2>2, <2>3, <2>4 DEF ListInv
<1>5. CASE ToBegin
  <2>1. /\ list' = [list EXCEPT !.current = list.head] /\ given' = {}
        /\ looping' /\ UNCHANGED << node, allocated, order >>
        /\ ListTyped /\ DoublyLinked
    BY <1>5 DEF ToBegin, ListInv
  <2>2. /\ list' \in [head : Link, tail : Link, current : Link, size : Nat]
        /\ list'.current = list.head /\ list'.size = list.size
        /\ list'.head = list.head /\ list'.tail = list.tail
    BY <2>1 DEF ListTyped
  <2>3. ListTyped'
    BY <2>1, <2>2 DEF ListTyped, Link
  <2>4. DoublyLinked'
    BY <2>1, <2>2 DEF DoublyLinked
  <2>5. list.head = NIL \/ \E p \in DOMAIN order : order[p] = list.head
    <3>1. order = << >> \/ 1 \in DOMAIN order
      BY <2>1 DEF ListTyped
    <3>. QED
      BY <2>1, <3>1 DEF DoublyLinked
  <2>6. Iterating'
    BY <2>1, <2>2, <2>5 DEF Iterating
  <2>. QED
    BY <2>3, <2>4, <2>6 DEF ListInv
<1>6. CASE NextInList
  BY <1>6, NextInListInv
<1>7. CASE Leave
  <2>1. ListTyped' /\ DoublyLinked'
    BY <1>7 DEF Leave, ListInv, ListTyped, DoublyLinked, Link
  <2>2. Iterating'
    BY <1>7 DEF Leave, Iterating
  <2>. QED
    BY <2>1, <2>2 DEF ListInv
<1>8. CASE UNCHANGED listVars
  BY <1>8 DEF listVars, ListInv, ListTyped, DoublyLinked, Iterating, Link
<1>. QED
  BY <1>1, <1>2, <1>3, <1>4, <1>5, <1>6, <1>7, <1>8 DEF ListNext

LEMMA ListInvariance == ListSpec => []ListInv
BY ListInitInv, ListNextInv, PTL DEF ListSpec

\* Head, tail, size and the links in both directions agree with one order of
\* the nodes that are allocated, after any sequence of additions, removals and
\* loops: no node is lost, freed twice or reached after it was freed.
THEOREM ListLinksCorrect == ListSpec => []DoublyLinked
<1>1. ListInv => DoublyLinked
  BY DEF ListInv
<1>. QED
  BY <1>1, ListInvariance, PTL

-----------------------------------------------------------------------------
(***************************************************************************)
(* The list is a sequence: the pointers stored in its nodes, in order.     *)
(***************************************************************************)

Pointer == Data \cup {NIL}

\* The pointers stored in a sequence of nodes.
LEMMA StoredProperty ==
    ASSUME NEW nd, NEW s \in Seq(Node), \A n \in Node : nd[n].data \in Pointer
    PROVE  /\ [i \in DOMAIN s |-> nd[s[i]].data] \in Seq(Pointer)
           /\ Len([i \in DOMAIN s |-> nd[s[i]].data]) = Len(s)
           /\ \A i \in 1 .. Len(s) : [j \in DOMAIN s |-> nd[s[j]].data][i] = nd[s[i]].data
<1>. DEFINE r == [i \in 1 .. Len(s) |-> nd[s[i]].data]
<1>1. Len(s) \in Nat /\ DOMAIN s = 1 .. Len(s) /\ \A i \in 1 .. Len(s) : s[i] \in Node
  OBVIOUS
<1>2. \A i \in 1 .. Len(s) : nd[s[i]].data \in Pointer
  BY <1>1
<1>3. r \in Seq(Pointer) /\ Len(r) = Len(s)
  BY <1>1, <1>2
<1>. QED
  BY <1>1, <1>3

StoresOrder ==
    /\ DataOf(order) \in Seq(Pointer) /\ Len(DataOf(order)) = Len(order)
    /\ \A i \in 1 .. Len(order) : DataOf(order)[i] = node[order[i]].data

LEMMA DataOfProperty == ListInv => StoresOrder
<1>. SUFFICES ASSUME ListInv PROVE StoresOrder
  OBVIOUS
<1>1. order \in Seq(Node) /\ \A n \in Node : node[n].data \in Pointer
  BY DEF ListInv, ListTyped, Pointer
<1>. QED
  BY <1>1, StoredProperty DEF DataOf, StoresOrder

\* What a loop has still to visit.
VisitsFromIterator ==
    /\ ~ looping => DataOf(Ahead) = << >>
    /\ list.current = NIL => DataOf(Ahead) = << >>
    /\ \A p \in 1 .. Len(order) :
        looping /\ order[p] = list.current =>
            /\ DataOf(Ahead) \in Seq(Pointer)
            /\ Len(DataOf(Ahead)) = Len(order) - p + 1
            /\ \A j \in 1 .. Len(order) - p + 1 :
                    DataOf(Ahead)[j] = node[order[p + j - 1]].data

LEMMA AheadProperty == ListInv => VisitsFromIterator
<1>. SUFFICES ASSUME ListInv PROVE VisitsFromIterator
  OBVIOUS
<1>1. /\ order \in Seq(Node) /\ \A n \in Node : node[n].data \in Pointer
      /\ Len(order) \in Nat /\ DOMAIN order = 1 .. Len(order)
      /\ \A i \in 1 .. Len(order) : order[i] \in Node
  BY DEF ListInv, ListTyped, Pointer
<1>2. DataOf(<< >>) = << >>
  BY DEF DataOf
<1>3. ASSUME list.current = NIL PROVE Ahead = << >>
  <2>1. {i \in DOMAIN order : order[i] = list.current} = {}
    BY <1>1, <1>3, LinkedListAssumption
  <2>. QED
    BY <2>1 DEF Ahead
<1>4. ASSUME ~ looping PROVE Ahead = << >>
  BY <1>4 DEF Ahead
<1>5. ASSUME NEW p \in 1 .. Len(order), looping, order[p] = list.current
      PROVE  /\ DataOf(Ahead) \in Seq(Pointer)
             /\ Len(DataOf(Ahead)) = Len(order) - p + 1
             /\ \A j \in 1 .. Len(order) - p + 1 :
                        DataOf(Ahead)[j] = node[order[p + j - 1]].data
  <2>1. {i \in DOMAIN order : order[i] = list.current} = {p}
    BY <1>1, <1>5 DEF ListInv, DoublyLinked
  <2>2. Ahead = SubSeq(order, p, Len(order))
    BY <1>5, <2>1 DEF Ahead
  <2>3. /\ Ahead \in Seq(Node) /\ Len(Ahead) = Len(order) - p + 1
        /\ \A j \in 1 .. Len(order) - p + 1 : Ahead[j] = order[p + j - 1]
    BY <1>1, <2>2
  <2>4. /\ DataOf(Ahead) \in Seq(Pointer) /\ Len(DataOf(Ahead)) = Len(Ahead)
        /\ \A i \in 1 .. Len(Ahead) : DataOf(Ahead)[i] = node[Ahead[i]].data
    BY <1>1, <2>3, StoredProperty DEF DataOf
  <2>. QED
    BY <2>3, <2>4
<1>. QED
  BY <1>2, <1>3, <1>4, <1>5 DEF VisitsFromIterator

\* The same of the state after a step.
LEMMA AfterStep == ListInv' => StoresOrder' /\ VisitsFromIterator'
<1>1. (ListInv => StoresOrder)'
  BY DataOfProperty, PTL
<1>2. (ListInv => VisitsFromIterator)'
  BY AheadProperty, PTL
<1>. QED
  BY <1>1, <1>2

\* Taking out a node takes out its pointer.
LEMMA RemovalOfPointer ==
    ASSUME ListInv, ListInv', NEW i \in 1 .. Len(order), order' = RemovedAt(i),
           \A m \in Node : node'[m].data = node[m].data
    PROVE  DataOf(order)' = Sequence!Without(i)
<1>. DEFINE C == DataOf(order)
            N == Len(order)
<1>1. /\ C \in Seq(Pointer) /\ Len(C) = N /\ N \in Nat
      /\ \A j \in 1 .. N : C[j] = node[order[j]].data /\ order[j] \in Node
  BY DataOfProperty DEF StoresOrder, ListInv, ListTyped
<1>2. /\ Len(order') = N - 1
      /\ \A j \in 1 .. N - 1 : order'[j] = IF j < i THEN order[j] ELSE order[j + 1]
  BY RemovedAtProperty DEF ListInv, ListTyped
<1>3. /\ C' \in Seq(Pointer) /\ Len(C') = N - 1
      /\ \A j \in 1 .. N - 1 : C'[j] = node'[order'[j]].data
  BY <1>2, AfterStep DEF StoresOrder
<1>4. Sequence!Without(i) = [j \in 1 .. Len(C) - 1 |-> C[IF j < i THEN j ELSE j + 1]]
  BY DEF Sequence!Without
<1>. HIDE DEF C, N
<1>5. \A j \in 1 .. N - 1 : C'[j] = C[IF j < i THEN j ELSE j + 1]
  <2>. SUFFICES ASSUME NEW j \in 1 .. N - 1
                PROVE  C'[j] = C[IF j < i THEN j ELSE j + 1]
    OBVIOUS
  <2>. DEFINE q == IF j < i THEN j ELSE j + 1
  <2>1. q \in 1 .. N /\ order'[j] = order[q]
    BY <1>1, <1>2
  <2>. HIDE DEF q
  <2>2. C'[j] = node'[order[q]].data /\ order[q] \in Node
    BY <1>1, <1>3, <2>1
  <2>. QED
    BY <1>1, <2>1, <2>2 DEF q
<1>6. C' = [j \in 1 .. N - 1 |-> C'[j]]
  BY <1>3
<1>. QED
  BY <1>1, <1>4, <1>5, <1>6 DEF C

\* A step of the pointer list is a step of the sequence, or changes nothing in it.
LEMMA StepsAreOfSequence ==
    ListInv /\ [ListNext]_listVars => [Sequence!Next]_<< DataOf(order), DataOf(Ahead) >>
<1>. SUFFICES ASSUME ListInv, [ListNext]_listVars
              PROVE  [Sequence!Next]_<< DataOf(order), DataOf(Ahead) >>
  OBVIOUS
<1>. DEFINE C == DataOf(order)
            U == DataOf(Ahead)
            N == Len(order)
<1>1. ListInv'
  BY ListNextInv
<1>2. /\ C \in Seq(Pointer) /\ Len(C) = N /\ N \in Nat /\ DOMAIN order = 1 .. N
      /\ \A i \in 1 .. N : C[i] = node[order[i]].data /\ order[i] \in Node
  BY DataOfProperty DEF StoresOrder, ListInv, ListTyped
<1>3. /\ C' \in Seq(Pointer) /\ Len(C') = Len(order') /\ Len(order') \in Nat
      /\ \A i \in 1 .. Len(order') : C'[i] = node'[order'[i]].data
  BY <1>1, AfterStep DEF StoresOrder, ListInv, ListTyped
<1>4. VisitsFromIterator /\ VisitsFromIterator'
  BY <1>1, AheadProperty, AfterStep
<1>5. ~ looping => U = << >>
  BY <1>4 DEF VisitsFromIterator
<1>6. ~ looping' => U' = << >>
  BY <1>4 DEF VisitsFromIterator
<1>. HIDE DEF C, U
<1>7. ASSUME NEW d \in Data, AddNode(d) PROVE Sequence!Next
  <2>1. PICK n \in Node :
            /\ order' = Append(order, n)
            /\ \A i \in DOMAIN order : node'[order[i]].data = node[order[i]].data
            /\ node'[n].data = d
    BY <1>7, AddNodeInv DEF AddNode
  <2>2. /\ Len(order') = N + 1 /\ order'[N + 1] = n
        /\ \A i \in 1 .. N : order'[i] = order[i]
    BY <1>2, <2>1 DEF ListInv, ListTyped
  <2>3. /\ Len(C') = N + 1 /\ C'[N + 1] = d
        /\ \A i \in 1 .. N : C'[i] = C[i]
    BY <1>2, <1>3, <2>1, <2>2
  <2>4. C' = Append(C, d)
    <3>. DEFINE A == Append(C, d)
    <3>1. /\ A \in Seq(Pointer) /\ Len(A) = N + 1 /\ A[N + 1] = d
          /\ \A i \in 1 .. N : A[i] = C[i]
      BY <1>2 DEF Pointer
    <3>. HIDE DEF A
    <3>2. \A i \in 1 .. Len(C') : C'[i] = A[i]
      BY <1>2, <2>3, <3>1
    <3>3. C' = A
      BY <1>3, <2>3, <3>1, <3>2, SeqEqual
    <3>. QED
      BY <3>3 DEF A
  <2>5. U = << >> /\ U' = << >>
    BY <1>5, <1>6, <1>7 DEF AddNode
  <2>. QED
    BY <2>4, <2>5 DEF Sequence!Next, Sequence!Add, Sequence!Quiet, C, U
<1>8. ASSUME NEW d \in Data, RemoveNode(d) PROVE Sequence!Next
  <2>1. PICK i \in DOMAIN order :
            IsFirst(i, d) /\ Unlink(order[i]) /\ order' = RemovedAt(i)
    BY <1>8 DEF RemoveNode
  <2>2. C' = Sequence!Without(i)
    BY <1>1, <1>2, <2>1, UnlinkInv, RemovalOfPointer DEF ListInv, C
  <2>3. i \in DOMAIN C /\ \A j \in 1 .. i - 1 : C[j] # C[i]
    BY <1>2, <2>1 DEF IsFirst
  <2>4. U = << >> /\ U' = << >>
    BY <1>5, <1>6, <1>8 DEF RemoveNode
  <2>. QED
    BY <2>2, <2>3, <2>4 DEF Sequence!Next, Sequence!Remove, Sequence!Quiet, C, U
<1>9. ASSUME NEW d \in Data, RemoveGiven(d) PROVE Sequence!Next
  <2>1. PICK i \in DOMAIN order :
            IsFirst(i, d) /\ Unlink(order[i]) /\ order' = RemovedAt(i)
    BY <1>9 DEF RemoveGiven
  <2>2. /\ \A p \in DOMAIN order : order[p] = list.current =>
                /\ i < p /\ p - 1 \in DOMAIN order' /\ order'[p - 1] = list'.current
        /\ \A m \in Node : node'[m].data = node[m].data
        /\ list'.current = list.current /\ looping /\ looping'
    BY <1>9, <2>1, RemoveGivenInv DEF RemoveGiven
  <2>3. C' = Sequence!Without(i)
    BY <1>1, <1>2, <2>1, <2>2, RemovalOfPointer DEF C
  <2>4. U' = U /\ i \in 1 .. Len(C) - Len(U)
    <3>1. CASE list.current = NIL
      <4>1. U = << >> /\ U' = << >>
        BY <1>4, <2>2, <3>1 DEF VisitsFromIterator, U
      <4>. QED
        BY <1>2, <4>1
    <3>2. CASE list.current # NIL
      <4>1. PICK p \in 1 .. N : order[p] = list.current
        BY <1>2, <2>2, <3>2 DEF ListInv, Iterating
      <4>2. /\ Len(order') = N - 1
            /\ \A j \in 1 .. N - 1 : order'[j] = IF j < i THEN order[j] ELSE order[j + 1]
        BY <1>2, <2>1, RemovedAtProperty DEF ListInv, ListTyped
      <4>3. i < p /\ p - 1 \in 1 .. Len(order') /\ order'[p - 1] = list'.current
        BY <1>2, <2>2, <4>1, <4>2
      <4>4. /\ U \in Seq(Pointer) /\ Len(U) = N - p + 1
            /\ \A j \in 1 .. N - p + 1 : U[j] = node[order[p + j - 1]].data
        BY <1>4, <2>2, <4>1 DEF VisitsFromIterator, U
      <4>5. /\ U' \in Seq(Pointer) /\ Len(U') = Len(order') - (p - 1) + 1
            /\ \A j \in 1 .. Len(order') - (p - 1) + 1 :
                    U'[j] = node'[order'[(p - 1) + j - 1]].data
        BY <1>4, <2>2, <4>3 DEF VisitsFromIterator, U
      <4>6. ASSUME NEW j \in 1 .. N - p + 1 PROVE U'[j] = U[j]
        <5>. DEFINE q == (p - 1) + j - 1
        <5>1. q \in 1 .. N - 1 /\ ~ (q < i) /\ q + 1 = p + j - 1 /\ p + j - 1 \in 1 .. N
          BY <1>2, <4>3
        <5>2. order'[q] = order[p + j - 1]
          BY <4>2, <5>1
        <5>3. U'[j] = node'[order'[q]].data
          BY <1>2, <4>2, <4>5
        <5>. QED
          BY <1>2, <2>2, <4>4, <5>1, <5>2, <5>3
      <4>7. Len(U') = Len(U)
        BY <1>2, <4>2, <4>4, <4>5
      <4>8. U' = U
        BY <4>4, <4>5, <4>6, <4>7, SeqEqual
      <4>. QED
        BY <1>2, <4>3, <4>4, <4>8
    <3>. QED
      BY <3>1, <3>2
  <2>. QED
    BY <2>3, <2>4 DEF Sequence!Next, Sequence!RemoveVisited, C, U
<1>10. CASE FreeLinkedList
  <2>1. order' = << >> /\ U = << >> /\ U' = << >>
    BY <1>5, <1>6, <1>10 DEF FreeLinkedList
  <2>2. C' = << >>
    BY <2>1 DEF DataOf, C
  <2>. QED
    BY <2>1, <2>2 DEF Sequence!Next, Sequence!Free, Sequence!Quiet, C, U
<1>11. CASE ToBegin
  <2>1. /\ U = << >> /\ looping' /\ UNCHANGED << node, allocated, order >>
        /\ list' = [list EXCEPT !.current = list.head]
    BY <1>5, <1>11 DEF ToBegin
  <2>2. C' = C
    BY <2>1 DEF DataOf, C
  <2>3. list'.current = list.head
    BY <2>1 DEF ListInv, ListTyped
  <2>4. U' = C
    <3>1. CASE N = 0
      <4>1. list'.current = NIL
        BY <1>2, <2>3, <3>1, ChainProperty DEF ListInv, ListTyped, Chain
      <4>2. U' = << >>
        BY <1>4, <4>1 DEF VisitsFromIterator, U
      <4>. QED
        BY <1>2, <3>1, <4>2
    <3>2. CASE N # 0
      <4>1. 1 \in 1 .. Len(order') /\ order'[1] = list'.current /\ Len(order') = N
        BY <1>2, <2>1, <2>3, <3>2, ChainProperty DEF ListInv, ListTyped, Chain
      <4>2. /\ U' \in Seq(Pointer) /\ Len(U') = N - 1 + 1
            /\ \A j \in 1 .. N - 1 + 1 : U'[j] = node'[order'[1 + j - 1]].data
        BY <1>4, <2>1, <4>1 DEF VisitsFromIterator, U
      <4>3. Len(U') = N /\ \A j \in 1 .. N : U'[j] = C[j]
        BY <1>2, <2>1, <4>2
      <4>. QED
        BY <1>2, <4>2, <4>3, SeqEqual
    <3>. QED
      BY <3>1, <3>2
  <2>. QED
    BY <2>1, <2>2, <2>4 DEF Sequence!Next, Sequence!Begin, C, U
<1>12. CASE NextInList
  <2>1. PICK p \in 1 .. N :
            /\ order[p] = list.current
            /\ list'.current = IF p = N THEN NIL ELSE order[p + 1]
    BY <1>2, <1>12, NextInListInv
  <2>2. looping /\ looping' /\ UNCHANGED << node, allocated, order >>
    BY <1>12 DEF NextInList
  <2>3. C' = C
    BY <2>2 DEF DataOf, C
  <2>4. /\ U \in Seq(Pointer) /\ Len(U) = N - p + 1
        /\ \A j \in 1 .. N - p + 1 : U[j] = node[order[p + j - 1]].data
    BY <1>4, <2>1, <2>2 DEF VisitsFromIterator, U
  <2>. DEFINE T == Tail(U)
  <2>5. U # << >> /\ T \in Seq(Pointer) /\ Len(T) = N - p
        /\ \A j \in 1 .. N - p : T[j] = U[j + 1]
    BY <1>2, <2>4
  <2>. HIDE DEF T
  <2>6. U' = T
    <3>1. CASE p = N
      <4>1. U' = << >>
        BY <1>4, <2>1, <3>1 DEF VisitsFromIterator, U
      <4>. QED
        BY <1>2, <2>5, <3>1, <4>1
    <3>2. CASE p # N
      <4>1. p + 1 \in 1 .. Len(order') /\ order'[p + 1] = list'.current /\ Len(order') = N
        BY <1>2, <2>1, <2>2, <3>2
      <4>2. /\ U' \in Seq(Pointer) /\ Len(U') = N - (p + 1) + 1
            /\ \A j \in 1 .. N - (p + 1) + 1 : U'[j] = node'[order'[(p + 1) + j - 1]].data
        BY <1>4, <2>2, <4>1 DEF VisitsFromIterator, U
      <4>3. ASSUME NEW j \in 1 .. N - p PROVE U'[j] = T[j]
        <5>1. /\ j \in 1 .. N - (p + 1) + 1 /\ j + 1 \in 1 .. N - p + 1
              /\ (p + 1) + j - 1 = p + (j + 1) - 1
          BY <1>2
        <5>. QED
          BY <2>2, <2>4, <2>5, <4>2, <5>1
      <4>4. Len(U') = N - p
        BY <1>2, <4>2
      <4>. QED
        BY <2>5, <4>2, <4>3, <4>4, SeqEqual
    <3>. QED
      BY <3>1, <3>2
  <2>. QED
    BY <2>3, <2>5, <2>6 DEF Sequence!Next, Sequence!Visit, C, U, T
<1>13. CASE Leave
  <2>1. U' = << >> /\ UNCHANGED << node, order >>
    BY <1>6, <1>13 DEF Leave
  <2>. QED
    BY <2>1 DEF Sequence!Next, Sequence!Leave, DataOf, U
<1>14. CASE UNCHANGED listVars
  BY <1>14 DEF listVars, DataOf, Ahead
<1>. QED
  BY <1>7, <1>8, <1>9, <1>10, <1>11, <1>12, <1>13, <1>14 DEF ListNext, C, U

\* Seen through its operations the pointer list is a sequence of pointers: added
\* at the end, removed at their first occurrence, visited once each and in order
\* by a loop that may remove what it was given, for any number of nodes.
THEOREM ListRefinesSequence == ListSpec => ImplementsSequence
<1>1. ListInit => Sequence!Init
  BY DEF ListInit, Sequence!Init, DataOf, Ahead
<1>. QED
  BY <1>1, ListInvariance, StepsAreOfSequence, PTL
  DEF ListSpec, ImplementsSequence, Sequence!Spec, Sequence!seqVars

-----------------------------------------------------------------------------
(***************************************************************************)
(* The console.  A text that is drawn again is a fold over its characters: *)
(* it is solved by a function (Draws) of the sets of places that are drawn *)
(* already, which is built character by character.                         *)
(***************************************************************************)
Draws(g, s, q, m) ==
    g = [T \in SUBSET (1 .. m) |->
            IF T = {} THEN s ELSE Draw(g[T \ {Max(T)}], q[Max(T)])]

LEMMA DrawsExists ==
    ASSUME NEW s, NEW q
    PROVE  \A m \in Nat : \E g : Draws(g, s, q, m)
<1>. DEFINE S == {m \in Nat : \E g : Draws(g, s, q, m)}
<1>1. 0 \in S
  <2>. DEFINE g == [T \in SUBSET (1 .. 0) |-> s]
  <2>1. \A T \in SUBSET (1 .. 0) : T = {}
    OBVIOUS
  <2>2. g = [T \in SUBSET (1 .. 0) |->
                IF T = {} THEN s ELSE Draw(g[T \ {Max(T)}], q[Max(T)])]
    BY <2>1
  <2>3. Draws(g, s, q, 0)
    BY <2>2 DEF Draws
  <2>. QED BY <2>3
<1>2. ASSUME NEW m \in Nat, m \in S PROVE m + 1 \in S
  <2>1. PICK g : Draws(g, s, q, m)
    BY <1>2
  <2>. DEFINE old == SUBSET (1 .. m)
              new == SUBSET (1 .. m + 1)
              h == [T \in new |-> IF m + 1 \in T THEN Draw(g[T \ {m + 1}], q[m + 1]) ELSE g[T]]
  <2>2. \A T \in old : T \in new /\ m + 1 \notin T
    OBVIOUS
  <2>3. \A T \in old : h[T] = g[T]
    BY <2>2
  <2>4. \A T \in old : g[T] = IF T = {} THEN s ELSE Draw(g[T \ {Max(T)}], q[Max(T)])
    BY <2>1 DEF Draws
  <2>5. ASSUME NEW T \in new
        PROVE  h[T] = IF T = {} THEN s ELSE Draw(h[T \ {Max(T)}], q[Max(T)])
    <3>1. CASE m + 1 \in T
      <4>1. Max(T) = m + 1 /\ T \ {m + 1} \in old
        BY <3>1, LastPlace
      <4>2. h[T \ {m + 1}] = g[T \ {m + 1}]
        BY <2>3, <4>1
      <4>3. h[T] = Draw(g[T \ {m + 1}], q[m + 1])
        BY <3>1
      <4>. HIDE DEF h
      <4>. QED BY <3>1, <4>1, <4>2, <4>3
    <3>2. CASE m + 1 \notin T
      <4>1. T \in old /\ T \ {Max(T)} \in old
        BY <3>2, FewerPlaces
      <4>2. h[T] = g[T] /\ h[T \ {Max(T)}] = g[T \ {Max(T)}]
        BY <2>3, <4>1
      <4>. HIDE DEF h
      <4>. QED BY <2>4, <4>1, <4>2
    <3>. QED BY <3>1, <3>2
  <2>6. h = [T \in new |-> IF T = {} THEN s ELSE Draw(h[T \ {Max(T)}], q[Max(T)])]
    <3>1. h = [T \in new |-> h[T]]
      OBVIOUS
    <3>. HIDE DEF h
    <3>. QED BY <2>5, <3>1
  <2>7. Draws(h, s, q, m + 1)
    <3>. HIDE DEF h
    <3>. QED BY <2>6 DEF Draws
  <2>. QED BY <2>7
<1>. HIDE DEF S
<1>3. \A m \in Nat : m \in S
  BY <1>1, <1>2, InductionForSet
<1>. QED
  BY <1>3 DEF S

\* Whatever holds before, and after each character if it held before it, holds at the end.
LEMMA DrawAllReaches ==
    ASSUME NEW q \in Seq(Kinds), NEW F, NEW s \in F[0],
           \A m \in 0 .. Len(q) - 1 : \A t \in F[m] : Draw(t, q[m + 1]) \in F[m + 1]
    PROVE  DrawAll(s, q) \in F[Len(q)]
<1>. DEFINE n == Len(q)
            g == CHOOSE h : Draws(h, s, q, n)
<1>1. DOMAIN q = 1 .. n /\ n \in Nat
  OBVIOUS
<1>2. DrawAll(s, q) = g[1 .. n]
  BY <1>1 DEF DrawAll, FoldLeft, MapThenFoldSet, Draws
<1>3. Draws(g, s, q, n)
  BY <1>1, DrawsExists
<1>. DEFINE S == {m \in Nat : m <= n => g[1 .. m] \in F[m]}
<1>. HIDE DEF g, n
<1>4. \A T \in SUBSET (1 .. n) :
        g[T] = IF T = {} THEN s ELSE Draw(g[T \ {Max(T)}], q[Max(T)])
  BY <1>3 DEF Draws
<1>5. 0 \in S
  <2>1. 1 .. 0 = {} /\ {} \in SUBSET (1 .. n)
    OBVIOUS
  <2>. QED BY <1>4, <2>1
<1>6. ASSUME NEW m \in Nat, m \in S PROVE m + 1 \in S
  <2>. SUFFICES ASSUME m + 1 <= n PROVE g[1 .. m + 1] \in F[m + 1]
    OBVIOUS
  <2>1. m <= n /\ g[1 .. m] \in F[m] /\ m \in 0 .. n - 1
    BY <1>1, <1>6
  <2>2. (1 .. m + 1) \in SUBSET (1 .. n) /\ (1 .. m + 1) # {} /\ m + 1 \in (1 .. m + 1)
    <3>1. \A i \in 1 .. m + 1 : i \in 1 .. n
      BY <1>1
    <3>2. m + 1 \in (1 .. m + 1)
      OBVIOUS
    <3>. QED BY <3>1, <3>2
  <2>3. Max(1 .. m + 1) = m + 1
    BY <2>2, LastPlace
  <2>4. (1 .. m + 1) \ {m + 1} = 1 .. m
    OBVIOUS
  <2>5. g[1 .. m + 1] = Draw(g[1 .. m], q[m + 1])
    BY <1>4, <2>2, <2>3, <2>4
  <2>. QED BY <2>1, <2>5 DEF n
<1>. HIDE DEF S
<1>7. n \in S
  BY <1>1, <1>5, <1>6, InductionForSet
<1>. QED
  BY <1>1, <1>2, <1>7 DEF S, n

LEMMA P16 == 2^16 = 65536
OBVIOUS

Screens == [X : Int, Y : Int, font : Fonts, charBuffer : Seq(Kinds), bufferIdx : Int]

\* The updates of the driver's variables.
GoTo(s, x, y)   == [s EXCEPT !.X = x, !.Y = y]
Put(s, x)       == [s EXCEPT !.charBuffer = Append(@, x), !.bufferIdx = @ + 1]
TakeBack(s)     == [s EXCEPT !.charBuffer = IF @ = << >> THEN @ ELSE Front(@),
                             !.bufferIdx  = (@ - 1) % 2^16]

LEMMA GoToFields ==
    ASSUME NEW s \in Screens, NEW x \in Int, NEW y \in Int, NEW t, t = GoTo(s, x, y)
    PROVE  /\ t \in Screens /\ t.font = s.font /\ t.charBuffer = s.charBuffer
           /\ t.bufferIdx = s.bufferIdx /\ t.X = x /\ t.Y = y
BY DEF GoTo, Screens

LEMMA PutFields ==
    ASSUME NEW s \in Screens, NEW x \in Kinds, NEW t, t = Put(s, x)
    PROVE  /\ t \in Screens /\ t.font = s.font /\ t.charBuffer = Append(s.charBuffer, x)
           /\ t.bufferIdx = s.bufferIdx + 1 /\ t.X = s.X /\ t.Y = s.Y
<1>. DEFINE q == Append(s.charBuffer, x)
            i == s.bufferIdx + 1
<1>1. s.charBuffer \in Seq(Kinds) /\ s.bufferIdx \in Int
  BY DEF Screens
<1>2. q \in Seq(Kinds) /\ i \in Int
  BY <1>1
<1>3. t = [s EXCEPT !.charBuffer = q, !.bufferIdx = i]
  BY DEF Put
<1>. HIDE DEF q, i
<1>4. /\ t \in Screens /\ t.font = s.font /\ t.X = s.X /\ t.Y = s.Y
      /\ t.charBuffer = q /\ t.bufferIdx = i
  BY <1>2, <1>3 DEF Screens
<1>. QED
  BY <1>4 DEF q, i

LEMMA Mod16 ==
    ASSUME NEW i \in Int
    PROVE  i % 2^16 \in Int /\ (0 <= i /\ i < 2^16 => i % 2^16 = i)
BY P16

LEMMA FrontIsShorter ==
    ASSUME NEW q \in Seq(Kinds), q # << >>
    PROVE  Front(q) \in Seq(Kinds) /\ Len(Front(q)) = Len(q) - 1
<1>1. Len(q) \in Nat /\ Len(q) >= 1
  OBVIOUS
<1>2. PICK k \in Nat : k = Len(q) - 1
  BY <1>1
<1>3. SubSeq(q, 1, k) \in Seq(Kinds) /\ Len(SubSeq(q, 1, k)) = k
  BY <1>1, <1>2
<1>4. Front(q) = SubSeq(q, 1, k)
  BY <1>2 DEF Front
<1>. QED
  BY <1>2, <1>3, <1>4

LEMMA TakeBackFields ==
    ASSUME NEW s \in Screens, NEW t, t = TakeBack(s)
    PROVE  /\ t \in Screens /\ t.font = s.font /\ t.X = s.X /\ t.Y = s.Y
           /\ t.charBuffer = IF s.charBuffer = << >> THEN s.charBuffer ELSE Front(s.charBuffer)
           /\ t.bufferIdx = (s.bufferIdx - 1) % 2^16
<1>. DEFINE q == IF s.charBuffer = << >> THEN s.charBuffer ELSE Front(s.charBuffer)
            i == (s.bufferIdx - 1) % 2^16
<1>1. s.charBuffer \in Seq(Kinds) /\ s.bufferIdx - 1 \in Int
  BY DEF Screens
<1>2. q \in Seq(Kinds) /\ i \in Int
  BY <1>1, FrontIsShorter, Mod16
<1>3. t = [s EXCEPT !.charBuffer = q, !.bufferIdx = i]
  BY DEF TakeBack
<1>. HIDE DEF q, i
<1>4. /\ t \in Screens /\ t.font = s.font /\ t.X = s.X /\ t.Y = s.Y
      /\ t.charBuffer = q /\ t.bufferIdx = i
  BY <1>2, <1>3 DEF Screens
<1>. QED
  BY <1>4 DEF q, i

\* What the operations of the driver do with them.
LEMMA NewlineGoesTo ==
    ASSUME NEW s \in Screens
    PROVE  PrintNewline(s) = GoTo(s, 0, IF s.Y + 2 * charHeights[s.font] <= height
                                        THEN s.Y + charHeights[s.font] ELSE s.Y)
BY DEF PrintNewline, GoTo, Screens

LEMMA DrawGoesTo ==
    ASSUME NEW s \in Screens, NEW x \in Kinds, NEW u, u = Put(s, x),
           NEW v, v = GoTo(u, (s.X + charWidths[s.font]) % 2^16, s.Y)
    PROVE  Draw(s, x) = IF x = "newline" THEN PrintNewline(u)
                        ELSE IF (s.X + charWidths[s.font]) % 2^16 > LastColumn(s)
                        THEN PrintNewline(v) ELSE v
<1>. DEFINE right == (s.X + charWidths[s.font]) % 2^16
            moved == [u EXCEPT !.X = (@ + charWidths[s.font]) % 2^16]
<1>1. Draw(s, x) = IF x = "newline" THEN PrintNewline(u)
                   ELSE IF moved.X > LastColumn(s) THEN PrintNewline(moved) ELSE moved
  BY DEF Draw, Put
<1>2. u \in Screens /\ u.X = s.X /\ u.Y = s.Y
  BY PutFields
<1>3. moved = v /\ moved.X = right
  BY <1>2 DEF GoTo, Screens
<1>. HIDE DEF moved
<1>. QED
  BY <1>1, <1>3

LEMMA BackspaceGoesTo ==
    ASSUME NEW s \in Screens, NEW u, u = TakeBack(s)
    PROVE  Backspace(s) = IF s.X < charWidths[s.font] /\ s.Y > 0
                          THEN GoTo(u, LastColumn(s), s.Y - charHeights[s.font])
                          ELSE GoTo(u, (s.X - charWidths[s.font]) % 2^16, s.Y)
<1>1. u.X = s.X /\ u.Y = s.Y
  BY TakeBackFields
<1>2. CASE s.X < charWidths[s.font] /\ s.Y > 0
  BY <1>1, <1>2 DEF Backspace, TakeBack, GoTo, Screens
<1>3. CASE ~ (s.X < charWidths[s.font] /\ s.Y > 0)
  BY <1>1, <1>3 DEF Backspace, TakeBack, GoTo, Screens
<1>. QED
  BY <1>2, <1>3

LEMMA VideoClearFields ==
    ASSUME NEW s \in Screens, NEW t, t = VideoClear(s)
    PROVE  /\ t \in Screens /\ t.font = s.font /\ t.X = 0 /\ t.Y = 0
           /\ t.charBuffer = << >> /\ t.bufferIdx = 0
<1>. DEFINE q == << >>
<1>1. q \in Seq(Kinds)
  OBVIOUS
<1>. DEFINE i == 0
            u == GoTo(s, 0, 0)
<1>2. u \in Screens /\ u.font = s.font /\ u.X = 0 /\ u.Y = 0
  BY GoToFields
<1>3. t = [u EXCEPT !.charBuffer = q, !.bufferIdx = i]
  BY DEF VideoClear, GoTo, Screens
<1>4. i \in Int
  OBVIOUS
<1>. HIDE DEF q, u, i
<1>5. /\ t \in Screens /\ t.font = u.font /\ t.X = u.X /\ t.Y = u.Y
      /\ t.charBuffer = q /\ t.bufferIdx = i
  BY <1>1, <1>2, <1>3, <1>4 DEF Screens
<1>. QED
  BY <1>2, <1>5 DEF q, i

-----------------------------------------------------------------------------
(***************************************************************************)
(* Where the cursor is: in column c of row r.  What n says is that n       *)
(* characters can be erased before it leaves the screen at the top.        *)
(***************************************************************************)
IsAt(s, r, c) ==
    /\ r \in 0 .. Rows(s.font) - 1 /\ c \in 0 .. Columns(s.font) - 1
    /\ s.X = c * charWidths[s.font] /\ s.Y = r * charHeights[s.font]

FarAs(s, n) ==
    \E r, c \in Nat : IsAt(s, r, c) /\ r * Columns(s.font) + c >= n

\* The characters before the last line.
Room(s) == (Rows(s.font) - 1) * Columns(s.font)

\* The index is that of the buffer.
Indexed(s) == s.bufferIdx = Len(s.charBuffer)

LEMMA TimesMonotone ==
    ASSUME NEW a \in Nat, NEW b \in Nat, a <= b, NEW h \in Nat
    PROVE  a * h <= b * h
OBVIOUS

LEMMA Quotient ==
    ASSUME NEW n \in Nat, NEW d \in 1 .. n
    PROVE  /\ n \div d \in Nat /\ n \div d >= 1
           /\ (n \div d) * d <= n /\ ((n \div d) + 1) * d > n
OBVIOUS

LEMMA AsFarAs ==
    ASSUME NEW s, NEW r \in Nat, NEW c \in Nat, IsAt(s, r, c), NEW n,
           r * Columns(s.font) + c >= n
    PROVE  FarAs(s, n)
BY DEF FarAs

LEMMA ScreenSize == width \in Nat /\ height \in Nat
BY ConsoleAssumption

LEMMA Grid ==
    ASSUME NEW f \in Fonts
    PROVE  /\ charWidths[f] \in Nat /\ charWidths[f] >= 1
           /\ charHeights[f] \in Nat /\ charHeights[f] >= 1
           /\ Columns(f) \in Nat /\ Columns(f) >= 1
           /\ Rows(f) \in Nat /\ Rows(f) >= 1
           /\ Columns(f) * charWidths[f] <= width /\ width < 2^16
           /\ Rows(f) * charHeights[f] <= height
           /\ (Rows(f) + 1) * charHeights[f] > height
<1>1. /\ width \in Nat /\ charWidths[f] \in 1 .. width
      /\ height \in Nat /\ charHeights[f] \in 1 .. height
      /\ width < 2^16
  BY ConsoleAssumption
<1>2. /\ Columns(f) \in Nat /\ Columns(f) >= 1 /\ Columns(f) * charWidths[f] <= width
  BY <1>1, Quotient DEF Columns
<1>3. /\ Rows(f) \in Nat /\ Rows(f) >= 1 /\ Rows(f) * charHeights[f] <= height
  BY <1>1, Quotient DEF Rows
<1>4. (Rows(f) + 1) * charHeights[f] > height
  BY <1>1, Quotient DEF Rows
<1>. QED
  BY <1>1, <1>2, <1>3, <1>4

\* The next row is on the screen, or it is the last one already.
LEMMA NextRow ==
    ASSUME NEW rows \in Nat, NEW h \in Nat, h >= 1, NEW high \in Nat,
           rows * h <= high, (rows + 1) * h > high, NEW r \in Nat, r < rows
    PROVE  /\ r * h + 2 * h <= high <=> r + 2 <= rows
           /\ r * h + h = (r + 1) * h
<1>1. r * h + 2 * h = (r + 2) * h /\ r * h + h = (r + 1) * h
  OBVIOUS
<1>2. r + 2 <= rows => (r + 2) * h <= rows * h
  BY TimesMonotone
<1>3. ~ (r + 2 <= rows) => (rows + 1) * h <= (r + 2) * h
  BY TimesMonotone
<1>4. rows * h \in Nat /\ (rows + 1) * h \in Nat /\ (r + 2) * h \in Nat
  OBVIOUS
<1>. QED
  BY <1>1, <1>2, <1>3, <1>4

LEMMA NewlineMoves ==
    ASSUME NEW s \in Screens, NEW r \in Nat, r < Rows(s.font), s.Y = r * charHeights[s.font],
           NEW t, t = PrintNewline(s)
    PROVE  /\ t \in Screens /\ t.font = s.font /\ t.charBuffer = s.charBuffer
           /\ t.bufferIdx = s.bufferIdx
           /\ IsAt(t, IF r + 2 <= Rows(s.font) THEN r + 1 ELSE r, 0)
<1>. DEFINE h == charHeights[s.font]
            y == IF r + 2 <= Rows(s.font) THEN (r + 1) * h ELSE r * h
<1>1. s.font \in Fonts
  BY DEF Screens
<1>2. h \in Nat /\ h >= 1 /\ Rows(s.font) \in Nat /\ Rows(s.font) * h <= height
      /\ (Rows(s.font) + 1) * h > height /\ Columns(s.font) \in Nat /\ Columns(s.font) >= 1
      /\ charWidths[s.font] \in Nat /\ height \in Nat
  BY <1>1, Grid, ScreenSize
<1>3. s.Y + 2 * h <= height <=> r + 2 <= Rows(s.font)
  <2>1. s.Y = r * h
    OBVIOUS
  <2>. HIDE DEF h
  <2>. QED BY <1>2, <2>1, NextRow
<1>4. s.Y + h = (r + 1) * h
  <2>1. s.Y = r * h
    OBVIOUS
  <2>. HIDE DEF h
  <2>. QED BY <1>2, <2>1, NextRow
<1>5. t = GoTo(s, 0, y)
  BY <1>3, <1>4, NewlineGoesTo
<1>6. y \in Int /\ 0 \in Int
  BY <1>2
<1>. HIDE DEF y
<1>7. /\ t \in Screens /\ t.font = s.font /\ t.charBuffer = s.charBuffer
      /\ t.bufferIdx = s.bufferIdx /\ t.X = 0 /\ t.Y = y
  BY <1>5, <1>6, GoToFields
<1>8. 0 * charWidths[s.font] = 0
  BY <1>2
<1>. QED
  BY <1>2, <1>7, <1>8 DEF IsAt, y

\* A character is put at the end of the buffer, and the cursor goes on: as far
\* as before and one more, or to the start of the last line.
LEMMA DrawMoves ==
    ASSUME NEW s \in Screens, NEW r \in Nat, NEW c \in Nat, IsAt(s, r, c),
           NEW x \in Kinds, NEW t, t = Draw(s, x)
    PROVE  /\ t \in Screens /\ t.font = s.font /\ t.charBuffer = Append(s.charBuffer, x)
           /\ t.bufferIdx = s.bufferIdx + 1
           /\ \/ c + 1 < Columns(s.font) /\ IsAt(t, r, c + 1)
              \/ IsAt(t, IF r + 2 <= Rows(s.font) THEN r + 1 ELSE r, 0)
<1>. DEFINE f     == s.font
            w     == charWidths[f]
            right == (c + 1) * w
            put   == Put(s, x)
            moved == GoTo(put, right, s.Y)
<1>1. f \in Fonts /\ s.Y \in Int
  BY DEF Screens
<1>2. /\ w \in Nat /\ w >= 1 /\ Columns(f) \in Nat /\ Columns(f) >= 1 /\ Columns(f) * w <= width
      /\ width < 2^16
  BY <1>1, Grid
<1>3. width \in Nat /\ Rows(f) \in Nat
  BY <1>1, Grid, ScreenSize
<1>4. r < Rows(f) /\ c + 1 <= Columns(f) /\ s.X = c * w /\ s.Y = r * charHeights[f]
  BY <1>2, <1>3 DEF IsAt
<1>5. /\ put \in Screens /\ put.font = f /\ put.charBuffer = Append(s.charBuffer, x)
      /\ put.bufferIdx = s.bufferIdx + 1 /\ put.X = s.X /\ put.Y = s.Y
  BY PutFields
<1>6. (s.X + w) % 2^16 = right /\ right \in Nat
  <2>1. c * w + w = right /\ right \in Nat /\ c * w \in Nat
    BY <1>2
  <2>2. right <= Columns(f) * w
    BY <1>2, <1>4, TimesMonotone
  <2>3. right < 2^16
    <3>1. Columns(f) * w \in Nat /\ 2^16 \in Nat
      BY <1>2, P16
    <3>. HIDE DEF right
    <3>. QED BY <1>2, <1>3, <2>1, <2>2, <3>1
  <2>. HIDE DEF right
  <2>. QED BY <1>4, <2>1, <2>3, Mod16
<1>7. LastColumn(s) = (Columns(f) - 1) * w
  BY DEF LastColumn
<1>8. t = IF x = "newline" THEN PrintNewline(put)
          ELSE IF right > LastColumn(s) THEN PrintNewline(moved) ELSE moved
  BY <1>6, DrawGoesTo
<1>. HIDE DEF put, right
<1>9. /\ moved \in Screens /\ moved.font = f /\ moved.charBuffer = Append(s.charBuffer, x)
      /\ moved.bufferIdx = s.bufferIdx + 1 /\ moved.X = right /\ moved.Y = s.Y
  BY <1>1, <1>5, <1>6, GoToFields
<1>. HIDE DEF moved
<1>10. CASE x = "newline"
  BY <1>4, <1>5, <1>8, <1>10, NewlineMoves
<1>11. CASE x # "newline" /\ right > LastColumn(s)
  BY <1>4, <1>8, <1>9, <1>11, NewlineMoves
<1>12. CASE x # "newline" /\ ~ (right > LastColumn(s))
  <2>1. t = moved
    BY <1>8, <1>12
  <2>2. c + 1 < Columns(f)
    <3>1. CASE c + 1 = Columns(f)
      <4>1. (Columns(f) - 1) * w = c * w /\ right = c * w + w /\ c * w \in Nat
        BY <1>2, <3>1 DEF right
      <4>2. right > LastColumn(s)
        BY <1>2, <1>7, <4>1
      <4>. QED BY <1>12, <4>2
    <3>. QED BY <1>2, <1>4, <3>1
  <2>3. IsAt(t, r, c + 1)
    BY <1>2, <1>3, <1>4, <1>9, <2>1, <2>2 DEF IsAt, right
  <2>. QED BY <1>9, <2>1, <2>2, <2>3
<1>. QED
  BY <1>10, <1>11, <1>12

\* A row has all its columns.
LEMMA RowFollows ==
    ASSUME NEW cols \in Nat, NEW r \in Nat, NEW c \in Nat, c + 1 <= cols
    PROVE  (r + 1) * cols >= r * cols + c + 1 /\ (r + 1) * cols + 0 >= r * cols + c + 1
<1>1. (r + 1) * cols = r * cols + cols /\ r * cols \in Nat
  OBVIOUS
<1>. QED
  BY <1>1

LEMMA DrawFar ==
    ASSUME NEW s \in Screens, NEW n \in Nat, FarAs(s, n), NEW x \in Kinds,
           NEW t, t = Draw(s, x), NEW m \in Nat, m <= n + 1, m <= Room(s)
    PROVE  /\ t \in Screens /\ t.font = s.font /\ t.charBuffer = Append(s.charBuffer, x)
           /\ t.bufferIdx = s.bufferIdx + 1 /\ FarAs(t, m)
<1>. DEFINE cols == Columns(s.font)
            rows == Rows(s.font)
<1>1. PICK r \in Nat, c \in Nat : IsAt(s, r, c) /\ r * cols + c >= n
  BY DEF FarAs
<1>2. /\ t \in Screens /\ t.font = s.font /\ t.charBuffer = Append(s.charBuffer, x)
      /\ t.bufferIdx = s.bufferIdx + 1
      /\ \/ c + 1 < cols /\ IsAt(t, r, c + 1)
         \/ IsAt(t, IF r + 2 <= rows THEN r + 1 ELSE r, 0)
  BY <1>1, DrawMoves
<1>3. s.font \in Fonts
  BY DEF Screens
<1>4. cols \in Nat /\ rows \in Nat /\ r < rows /\ c + 1 <= cols /\ r * cols \in Nat
  BY <1>1, <1>3, Grid DEF IsAt
<1>. HIDE DEF cols, rows
<1>5. CASE IsAt(t, r, c + 1)
  <2>1. r * cols + (c + 1) >= m
    BY <1>1, <1>4
  <2>. QED BY <1>2, <1>4, <1>5, <2>1 DEF FarAs, cols
<1>6. CASE IsAt(t, IF r + 2 <= rows THEN r + 1 ELSE r, 0)
  <2>1. CASE r + 2 <= rows
    <3>1. (r + 1) * cols + 0 >= r * cols + c + 1 /\ (r + 1) * cols \in Nat
      BY <1>4, RowFollows
    <3>2. (r + 1) * cols + 0 >= m
      BY <1>1, <1>4, <3>1
    <3>. QED BY <1>2, <1>4, <1>6, <2>1, <3>2 DEF FarAs, cols
  <2>2. CASE ~ (r + 2 <= rows)
    <3>1. r = rows - 1
      BY <1>4, <2>2
    <3>2. r * cols + 0 >= m
      BY <1>4, <3>1 DEF Room, cols, rows
    <3>. QED BY <1>2, <1>4, <1>6, <2>2, <3>2 DEF FarAs, cols
  <2>. QED BY <2>1, <2>2
<1>. QED
  BY <1>2, <1>5, <1>6

LEMMA NewlineFar ==
    ASSUME NEW s \in Screens, NEW n \in Nat, FarAs(s, n), n <= Room(s),
           NEW t, t = PrintNewline(s)
    PROVE  /\ t \in Screens /\ t.font = s.font /\ t.charBuffer = s.charBuffer
           /\ t.bufferIdx = s.bufferIdx /\ FarAs(t, n)
<1>. DEFINE cols == Columns(s.font)
            rows == Rows(s.font)
<1>1. PICK r \in Nat, c \in Nat : IsAt(s, r, c) /\ r * cols + c >= n
  BY DEF FarAs
<1>2. s.font \in Fonts
  BY DEF Screens
<1>3. cols \in Nat /\ rows \in Nat /\ r < rows /\ c + 1 <= cols /\ r * cols \in Nat
  BY <1>1, <1>2, Grid DEF IsAt
<1>4. /\ t \in Screens /\ t.font = s.font /\ t.charBuffer = s.charBuffer
      /\ t.bufferIdx = s.bufferIdx /\ IsAt(t, IF r + 2 <= rows THEN r + 1 ELSE r, 0)
  BY <1>1, <1>3, NewlineMoves DEF IsAt
<1>. HIDE DEF cols, rows
<1>5. CASE r + 2 <= rows
  <2>1. (r + 1) * cols + 0 >= r * cols + c + 1 /\ (r + 1) * cols \in Nat
    BY <1>3, RowFollows
  <2>2. (r + 1) * cols + 0 >= n
    BY <1>1, <1>3, <2>1
  <2>. QED BY <1>3, <1>4, <1>5, <2>2 DEF FarAs, cols
<1>6. CASE ~ (r + 2 <= rows)
  <2>1. r = rows - 1
    BY <1>3, <1>6
  <2>2. r * cols + 0 >= n
    BY <1>3, <2>1 DEF Room, cols, rows
  <2>. QED BY <1>3, <1>4, <1>6, <2>2 DEF FarAs, cols
<1>. QED
  BY <1>4, <1>5, <1>6

\* The types, wherever the cursor is.
LEMMA TypesKept ==
    ASSUME NEW s \in Screens
    PROVE  /\ VideoClear(s) \in Screens /\ PrintNewline(s) \in Screens
           /\ Backspace(s) \in Screens /\ \A x \in Kinds : Draw(s, x) \in Screens
<1>1. s.font \in Fonts
  BY DEF Screens
<1>2. charWidths[s.font] \in Int /\ charHeights[s.font] \in Int /\ LastColumn(s) \in Int
  BY <1>1, Grid DEF LastColumn
<1>3. VideoClear(s) \in Screens
  BY VideoClearFields
<1>4. ASSUME NEW u \in Screens, u.font = s.font PROVE PrintNewline(u) \in Screens
  <2>. DEFINE y == IF u.Y + 2 * charHeights[u.font] <= height
                   THEN u.Y + charHeights[u.font] ELSE u.Y
  <2>1. y \in Int /\ 0 \in Int
    BY <1>2, <1>4 DEF Screens
  <2>2. PrintNewline(u) = GoTo(u, 0, y)
    BY NewlineGoesTo
  <2>. HIDE DEF y
  <2>. QED BY <2>1, <2>2, GoToFields
<1>5. Backspace(s) \in Screens
  <2>. DEFINE u == TakeBack(s)
              x == (s.X - charWidths[s.font]) % 2^16
  <2>1. u \in Screens
    BY TakeBackFields
  <2>2. s.Y \in Int /\ s.Y - charHeights[s.font] \in Int /\ s.X - charWidths[s.font] \in Int
    BY <1>2 DEF Screens
  <2>3. x \in Int
    BY <2>2, Mod16
  <2>4. Backspace(s) = IF s.X < charWidths[s.font] /\ s.Y > 0
                       THEN GoTo(u, LastColumn(s), s.Y - charHeights[s.font])
                       ELSE GoTo(u, x, s.Y)
    BY BackspaceGoesTo
  <2>. HIDE DEF u, x
  <2>5. GoTo(u, LastColumn(s), s.Y - charHeights[s.font]) \in Screens
    BY <1>2, <2>1, <2>2, GoToFields
  <2>6. GoTo(u, x, s.Y) \in Screens
    BY <2>1, <2>2, <2>3, GoToFields
  <2>. QED BY <2>4, <2>5, <2>6
<1>6. ASSUME NEW x \in Kinds PROVE Draw(s, x) \in Screens
  <2>. DEFINE put   == Put(s, x)
              right == (s.X + charWidths[s.font]) % 2^16
              moved == GoTo(put, right, s.Y)
  <2>1. put \in Screens /\ put.font = s.font
    BY PutFields
  <2>2. s.X + charWidths[s.font] \in Int /\ s.Y \in Int
    BY <1>2 DEF Screens
  <2>3. right \in Int
    BY <2>2, Mod16
  <2>4. Draw(s, x) = IF x = "newline" THEN PrintNewline(put)
                     ELSE IF right > LastColumn(s) THEN PrintNewline(moved) ELSE moved
    BY DrawGoesTo
  <2>. HIDE DEF put, right
  <2>5. moved \in Screens /\ moved.font = put.font
    BY <2>1, <2>2, <2>3, GoToFields
  <2>. HIDE DEF moved
  <2>. QED BY <1>4, <2>1, <2>4, <2>5
<1>. QED
  BY <1>3, <1>4, <1>5, <1>6

\* The cursor goes back one place, and the last character leaves the buffer.
LEMMA BackspaceFar ==
    ASSUME NEW s \in Screens, NEW n \in Nat, n >= 1, FarAs(s, n), Indexed(s),
           s.bufferIdx >= 1, s.bufferIdx <= MAX_RESOLUTION,
           NEW t, t = Backspace(s)
    PROVE  /\ t \in Screens /\ t.font = s.font /\ t.charBuffer = Front(s.charBuffer)
           /\ t.bufferIdx = s.bufferIdx - 1 /\ Indexed(t) /\ FarAs(t, n - 1)
<1>. DEFINE f    == s.font
            w    == charWidths[f]
            h    == charHeights[f]
            cols == Columns(f)
            q    == s.charBuffer
<1>1. PICK r \in Nat, c \in Nat : IsAt(s, r, c) /\ r * cols + c >= n
  BY DEF FarAs
<1>2. f \in Fonts /\ t \in Screens
  BY TypesKept DEF Screens
<1>3. /\ w \in Nat /\ w >= 1 /\ h \in Nat /\ h >= 1 /\ cols \in Nat /\ cols >= 1
      /\ cols * w <= width /\ width \in Nat /\ width < 2^16
      /\ Rows(f) \in Nat /\ r < Rows(f) /\ c + 1 <= cols /\ s.X = c * w /\ s.Y = r * h
  <2>1. /\ w \in Nat /\ w >= 1 /\ h \in Nat /\ h >= 1 /\ cols \in Nat /\ cols >= 1
        /\ cols * w <= width /\ width < 2^16 /\ Rows(f) \in Nat
    BY <1>2, Grid
  <2>2. width \in Nat
    BY ScreenSize
  <2>3. r \in 0 .. Rows(f) - 1 /\ c \in 0 .. cols - 1 /\ s.X = c * w /\ s.Y = r * h
    BY <1>1 DEF IsAt
  <2>. HIDE DEF w, h, cols
  <2>. QED BY <2>1, <2>2, <2>3
<1>4. q # << >> /\ Len(Front(q)) = Len(q) - 1 /\ s.bufferIdx = Len(q) /\ Len(q) \in Nat
  <2>1. q \in Seq(Kinds) /\ s.bufferIdx = Len(q)
    BY DEF Screens, Indexed
  <2>2. q # << >>
    BY <2>1
  <2>. QED BY <2>1, <2>2, FrontIsShorter
<1>5. (s.bufferIdx - 1) % 2^16 = s.bufferIdx - 1
  <2>1. s.bufferIdx - 1 \in Nat /\ s.bufferIdx - 1 < 2^16
    BY <1>4, ConsoleAssumption, P16
  <2>. QED BY <2>1, Mod16
<1>. DEFINE u == TakeBack(s)
            x == (s.X - w) % 2^16
<1>6. /\ u \in Screens /\ u.font = f /\ u.charBuffer = Front(q)
      /\ u.bufferIdx = s.bufferIdx - 1
  BY <1>4, <1>5, TakeBackFields
<1>7. /\ t.font = f /\ t.charBuffer = Front(q) /\ t.bufferIdx = s.bufferIdx - 1
      /\ t.X = IF s.X < w /\ s.Y > 0 THEN (cols - 1) * w ELSE x
      /\ t.Y = IF s.X < w /\ s.Y > 0 THEN s.Y - h ELSE s.Y
  <2>1. t = IF s.X < w /\ s.Y > 0 THEN GoTo(u, LastColumn(s), s.Y - h) ELSE GoTo(u, x, s.Y)
    BY BackspaceGoesTo
  <2>2. LastColumn(s) = (cols - 1) * w
    BY DEF LastColumn
  <2>3. s.Y \in Int /\ s.X \in Int
    BY DEF Screens
  <2>. HIDE DEF u, w, h, cols
  <2>4. LastColumn(s) \in Int /\ s.Y - h \in Int /\ s.X - w \in Int
    BY <1>3, <2>2, <2>3
  <2>5. x \in Int
    BY <2>4, Mod16
  <2>. HIDE DEF x
  <2>6. CASE s.X < w /\ s.Y > 0
    <3>1. t = GoTo(u, LastColumn(s), s.Y - h)
      BY <2>1, <2>6
    <3>2. /\ t.font = u.font /\ t.charBuffer = u.charBuffer /\ t.bufferIdx = u.bufferIdx
          /\ t.X = LastColumn(s) /\ t.Y = s.Y - h
      BY <1>6, <2>4, <3>1, GoToFields
    <3>. QED BY <1>6, <2>2, <2>6, <3>2
  <2>7. CASE ~ (s.X < w /\ s.Y > 0)
    <3>1. t = GoTo(u, x, s.Y)
      BY <2>1, <2>7
    <3>2. /\ t.font = u.font /\ t.charBuffer = u.charBuffer /\ t.bufferIdx = u.bufferIdx
          /\ t.X = x /\ t.Y = s.Y
      BY <1>6, <2>3, <2>5, <3>1, GoToFields
    <3>. QED BY <1>6, <2>7, <3>2
  <2>. QED BY <2>6, <2>7
<1>. HIDE DEF cols, w, h
<1>8. ASSUME c = 0 PROVE FarAs(t, n - 1)
  <2>1. r # 0
    BY <1>1, <1>3, <1>8
  <2>2. s.X = 0 /\ r - 1 \in Nat /\ r * h = (r - 1) * h + h /\ (r - 1) * h \in Nat
    BY <1>3, <1>8, <2>1
  <2>3. t.X = (cols - 1) * w /\ t.Y = (r - 1) * h
    BY <1>3, <1>7, <2>2 DEF x
  <2>4. IsAt(t, r - 1, cols - 1) /\ cols - 1 \in Nat
    <3>1. r - 1 \in 0 .. Rows(f) - 1 /\ cols - 1 \in 0 .. cols - 1 /\ cols - 1 \in Nat
      BY <1>3, <2>2
    <3>. QED BY <1>7, <2>3, <3>1 DEF IsAt, cols, w, h
  <2>5. (r - 1) * cols + (cols - 1) >= n - 1
    <3>1. r * cols = (r - 1) * cols + cols /\ (r - 1) * cols \in Nat
      BY <1>3, <2>2
    <3>. QED BY <1>1, <1>3, <1>8, <3>1
  <2>6. (r - 1) * Columns(t.font) + (cols - 1) >= n - 1
    BY <1>7, <2>5 DEF cols
  <2>. QED BY <2>2, <2>4, <2>6, AsFarAs
<1>9. ASSUME c # 0 PROVE FarAs(t, n - 1)
  <2>1. c - 1 \in Nat /\ c * w = (c - 1) * w + w /\ (c - 1) * w \in Nat
    BY <1>3, <1>9
  <2>2. (c - 1) * w < 2^16
    <3>1. c - 1 <= cols /\ (c - 1) * w <= cols * w
      BY <1>3, <2>1, TimesMonotone
    <3>. QED BY <1>3, <2>1, <3>1, P16
  <2>3. ((c - 1) * w) % 2^16 = (c - 1) * w
    BY <2>1, <2>2, P16
  <2>4. ~ (s.X < w) /\ s.X - w = (c - 1) * w
    BY <1>3, <2>1
  <2>5. t.X = (c - 1) * w /\ t.Y = r * h
    BY <1>3, <1>7, <2>3, <2>4
  <2>6. IsAt(t, r, c - 1)
    <3>1. r \in 0 .. Rows(f) - 1 /\ c - 1 \in 0 .. cols - 1
      BY <1>1, <1>3, <2>1 DEF IsAt, cols
    <3>. QED BY <1>7, <2>5, <3>1 DEF IsAt, cols, w, h
  <2>7. r * cols + (c - 1) >= n - 1 /\ r * cols \in Nat
    BY <1>1, <1>3, <2>1
  <2>8. r * Columns(t.font) + (c - 1) >= n - 1
    BY <1>7, <2>7 DEF cols
  <2>. QED BY <2>1, <2>6, <2>8, AsFarAs
<1>10. Indexed(t)
  BY <1>4, <1>7 DEF Indexed
<1>. QED
  BY <1>2, <1>7, <1>8, <1>9, <1>10


-----------------------------------------------------------------------------
LEMMA RoomIsNat ==
    ASSUME NEW s \in Screens
    PROVE  Room(s) \in Nat /\ MAX_CHARS - 1 <= Room(s)
<1>1. s.font \in Fonts
  BY DEF Screens
<1>2. Rows(s.font) - 1 \in Nat /\ Columns(s.font) \in Nat
  BY <1>1, Grid
<1>3. MAX_CHARS - 1 <= Room(s)
  BY <1>1, ConsoleAssumption DEF Room
<1>. QED
  BY <1>2, <1>3 DEF Room

\* Nothing is drawn yet.
Fresh(s) == s \in Screens /\ FarAs(s, 0) /\ s.charBuffer = << >> /\ s.bufferIdx = 0

LEMMA Cleared ==
    ASSUME NEW s \in Screens, NEW t \in Screens, t.font = s.font, t.X = 0, t.Y = 0,
           t.charBuffer = << >>, t.bufferIdx = 0
    PROVE  Fresh(t)
<1>1. t.font \in Fonts
  BY DEF Screens
<1>2. /\ Rows(t.font) \in Nat /\ Rows(t.font) >= 1 /\ Columns(t.font) \in Nat
      /\ Columns(t.font) >= 1 /\ charWidths[t.font] \in Nat /\ charHeights[t.font] \in Nat
  BY <1>1, Grid
<1>3. 0 * charWidths[t.font] = 0 /\ 0 * charHeights[t.font] = 0 /\ 0 * Columns(t.font) + 0 >= 0
  BY <1>2
<1>4. IsAt(t, 0, 0)
  BY <1>2, <1>3 DEF IsAt
<1>5. FarAs(t, 0)
  BY <1>3, <1>4 DEF FarAs
<1>. QED
  BY <1>5 DEF Fresh

LEMMA VideoClearIsFresh ==
    ASSUME NEW s \in Screens
    PROVE  Fresh(VideoClear(s)) /\ VideoClear(s).font = s.font
<1>1. /\ VideoClear(s) \in Screens /\ VideoClear(s).font = s.font
      /\ VideoClear(s).X = 0 /\ VideoClear(s).Y = 0
      /\ VideoClear(s).charBuffer = << >> /\ VideoClear(s).bufferIdx = 0
  BY VideoClearFields
<1>. QED
  BY <1>1, Cleared

\* A text on an empty screen: the buffer holds it.
LEMMA DrawAllFresh ==
    ASSUME NEW s, Fresh(s), NEW q \in Seq(Kinds), NEW t, t = DrawAll(s, q)
    PROVE  /\ t \in Screens /\ t.font = s.font /\ Indexed(t)
           /\ t.bufferIdx = Len(q) /\ FarAs(t, 0)
<1>. DEFINE after(m) == {u \in Screens : /\ u.font = s.font /\ FarAs(u, 0)
                                         /\ u.bufferIdx = m /\ Len(u.charBuffer) = m}
            F == [m \in 0 .. Len(q) |-> after(m)]
<1>1. Len(q) \in Nat /\ \A m \in 1 .. Len(q) : q[m] \in Kinds
  OBVIOUS
<1>2. s \in F[0]
  BY <1>1 DEF Fresh
<1>3. ASSUME NEW m \in 0 .. Len(q) - 1, NEW u \in F[m]
      PROVE  Draw(u, q[m + 1]) \in F[m + 1]
  <2>1. /\ u \in Screens /\ u.font = s.font /\ FarAs(u, 0)
        /\ u.bufferIdx = m /\ Len(u.charBuffer) = m
    BY <1>1
  <2>2. q[m + 1] \in Kinds
    BY <1>1
  <2>3. Room(u) \in Nat
    BY <2>1, RoomIsNat
  <2>. DEFINE v == Draw(u, q[m + 1])
  <2>4. /\ v \in Screens /\ v.font = u.font /\ v.charBuffer = Append(u.charBuffer, q[m + 1])
        /\ v.bufferIdx = u.bufferIdx + 1 /\ FarAs(v, 0)
    <3>1. 0 <= 0 + 1 /\ 0 <= Room(u) /\ 0 \in Nat
      BY <2>3
    <3>. QED BY <2>1, <2>2, <3>1, DrawFar
  <2>. HIDE DEF v
  <2>5. Len(v.charBuffer) = m + 1
    BY <2>1, <2>2, <2>4 DEF Screens
  <2>6. v \in after(m + 1)
    BY <2>1, <2>4, <2>5
  <2>. QED BY <1>1, <2>6 DEF v
<1>. HIDE DEF F
<1>4. t \in F[Len(q)]
  BY <1>2, <1>3, DrawAllReaches
<1>5. t \in after(Len(q))
  BY <1>1, <1>4 DEF F
<1>. QED
  BY <1>5 DEF Indexed

LEMMA BeforeNulFits ==
    ASSUME NEW q \in Seq(Kinds)
    PROVE  BeforeNul(q) \in Seq(Kinds) /\ Len(BeforeNul(q)) <= Len(q)
<1>. DEFINE nuls == {i \in DOMAIN q : q[i] = "nul"}
<1>1. CASE nuls = {}
  BY <1>1 DEF BeforeNul
<1>2. CASE nuls # {}
  <2>1. DOMAIN q = 1 .. Len(q) /\ Len(q) \in Nat
    OBVIOUS
  <2>2. nuls \in SUBSET Nat
    BY <2>1
  <2>3. Min(nuls) \in nuls
    BY <1>2, <2>2, MinProperty
  <2>4. Min(nuls) \in 1 .. Len(q)
    BY <2>1, <2>3
  <2>5. BeforeNul(q) = SubSeq(q, 1, Min(nuls) - 1)
    BY <1>2 DEF BeforeNul
  <2>. HIDE DEF nuls
  <2>6. PICK k \in 1 .. Len(q) : k = Min(nuls)
    BY <2>4
  <2>7. SubSeq(q, 1, k - 1) \in Seq(Kinds) /\ Len(SubSeq(q, 1, k - 1)) = k - 1
    BY <2>1
  <2>. QED BY <2>1, <2>5, <2>6, <2>7
<1>. QED
  BY <1>1, <1>2

LEMMA SetFontSizeFar ==
    ASSUME NEW s \in Screens, NEW f \in Fonts, NEW t, t = SetFontSize(s, f)
    PROVE  /\ t \in Screens /\ Indexed(t) /\ t.bufferIdx <= Len(s.charBuffer) /\ FarAs(t, 0)
<1>. DEFINE u == [s EXCEPT !.font = f]
<1>1. u \in Screens /\ s.charBuffer \in Seq(Kinds)
  BY DEF Screens
<1>2. t = DrawAll(VideoClear(u), BeforeNul(s.charBuffer))
  BY DEF SetFontSize
<1>. HIDE DEF u
<1>3. Fresh(VideoClear(u))
  BY <1>1, VideoClearIsFresh
<1>4. BeforeNul(s.charBuffer) \in Seq(Kinds) /\ Len(BeforeNul(s.charBuffer)) <= Len(s.charBuffer)
  BY <1>1, BeforeNulFits
<1>. QED
  BY <1>2, <1>3, <1>4, DrawAllFresh


-----------------------------------------------------------------------------
(***************************************************************************)
(* A character that is printed: at the end of what is on the screen, or,   *)
(* when that exceeds the buffer, after a message on an empty one.          *)
(***************************************************************************)
Fits(s, n) ==
    s \in Screens /\ Indexed(s) /\ s.bufferIdx <= MAX_RESOLUTION /\ FarAs(s, n)

\* The prompt is before the last n characters.
Kept(q, n) == \E i \in 1 .. Len(q) - n : q[i] = "prompt"

LEMMA PrintsInTheBuffer ==
    ASSUME NEW s, NEW n \in Nat, Fits(s, n), ~ Exceeds(s), NEW x \in Kinds,
           NEW m \in Nat, m <= n + 1, m <= MAX_CHARS - 1, NEW t, t = PrintChar(s, x)
    PROVE  /\ Fits(t, m) /\ t.bufferIdx = s.bufferIdx + 1
           /\ t.charBuffer = Append(s.charBuffer, x)
<1>1. t = Draw(s, x)
  BY DEF PrintChar, Kinds
<1>2. /\ s \in Screens /\ FarAs(s, n) /\ Indexed(s) /\ s.bufferIdx <= MAX_RESOLUTION
  BY DEF Fits
<1>3. m <= Room(s)
  BY <1>2, RoomIsNat, ConsoleAssumption
<1>4. /\ t \in Screens /\ t.charBuffer = Append(s.charBuffer, x)
      /\ t.bufferIdx = s.bufferIdx + 1 /\ FarAs(t, m)
  BY <1>1, <1>2, <1>3, DrawFar
<1>5. Indexed(t) /\ s.bufferIdx \in Nat
  BY <1>2, <1>4 DEF Indexed, Screens
<1>6. t.bufferIdx <= MAX_RESOLUTION
  BY <1>2, <1>4, <1>5, ConsoleAssumption DEF Exceeds
<1>. QED
  BY <1>4, <1>5, <1>6 DEF Fits

LEMMA PrintsInANewBuffer ==
    ASSUME NEW s \in Screens, Exceeds(s), NEW x \in Kinds, NEW t, t = PrintChar(s, x)
    PROVE  /\ Fits(t, 0) /\ t.bufferIdx = Len(MSG_BUFFER_EXCEEDED) + 1
           /\ \E q \in Seq(Kinds) : t.charBuffer = Append(q, x)
<1>. DEFINE u == DrawAll(VideoClear(s), MSG_BUFFER_EXCEEDED)
<1>1. t = Draw(u, x)
  BY DEF PrintChar, Kinds
<1>2. MSG_BUFFER_EXCEEDED \in Seq(Kinds) /\ Fresh(VideoClear(s))
  BY ConsoleAssumption, VideoClearIsFresh
<1>3. /\ u \in Screens /\ Indexed(u) /\ u.bufferIdx = Len(MSG_BUFFER_EXCEEDED) /\ FarAs(u, 0)
  BY <1>2, DrawAllFresh
<1>. HIDE DEF u
<1>4. 0 <= Room(u)
  BY <1>3, RoomIsNat
<1>5. /\ t \in Screens /\ t.charBuffer = Append(u.charBuffer, x)
      /\ t.bufferIdx = u.bufferIdx + 1 /\ FarAs(t, 0)
  BY <1>1, <1>3, <1>4, DrawFar
<1>6. u.charBuffer \in Seq(Kinds)
  BY <1>3 DEF Screens
<1>7. Indexed(t)
  <2>1. Len(Append(u.charBuffer, x)) = Len(u.charBuffer) + 1
    BY <1>6
  <2>. QED BY <1>3, <1>5, <2>1 DEF Indexed
<1>8. t.bufferIdx <= MAX_RESOLUTION
  BY <1>2, <1>3, <1>5, ConsoleAssumption
<1>. QED
  BY <1>3, <1>5, <1>6, <1>7, <1>8 DEF Fits

\* In either case, for a cursor that is between two lines.
LEMMA PrintsBetweenLines ==
    ASSUME NEW s, Fits(s, 0), NEW x \in Kinds, NEW t, t = PrintChar(s, x)
    PROVE  /\ Fits(t, 0)
           /\ \E q \in Seq(Kinds) : t.charBuffer = Append(q, x)
<1>1. s \in Screens /\ s.charBuffer \in Seq(Kinds)
  BY DEF Fits, Screens
<1>2. CASE Exceeds(s)
  BY <1>1, <1>2, PrintsInANewBuffer
<1>3. CASE ~ Exceeds(s)
  <2>1. 0 \in Nat /\ 0 <= 0 + 1 /\ 0 <= MAX_CHARS - 1
    BY ConsoleAssumption
  <2>2. Fits(t, 0)
    BY <1>3, <2>1, PrintsInTheBuffer
  <2>3. t.charBuffer = Append(s.charBuffer, x)
    BY <1>3, <2>1, PrintsInTheBuffer
  <2>. QED BY <1>1, <2>2, <2>3
<1>. QED
  BY <1>2, <1>3

\* And its type, whatever is on the screen.
LEMMA PrintCharType ==
    ASSUME NEW s \in Screens, NEW x \in Kinds
    PROVE  PrintChar(s, x) \in Screens
<1>1. CASE Exceeds(s)
  BY <1>1, PrintsInANewBuffer DEF Fits
<1>2. CASE ~ Exceeds(s)
  BY <1>2, TypesKept DEF PrintChar, Kinds
<1>. QED
  BY <1>1, <1>2

LEMMA AppendKeeps ==
    ASSUME NEW q \in Seq(Kinds), NEW n \in Nat, Kept(q, n), NEW x \in Kinds
    PROVE  Kept(Append(q, x), n + 1) /\ Kept(Append(q, x), n)
<1>1. PICK i \in 1 .. Len(q) - n : q[i] = "prompt"
  BY DEF Kept
<1>2. /\ Len(q) \in Nat /\ Len(Append(q, x)) = Len(q) + 1
      /\ \A j \in 1 .. Len(q) : Append(q, x)[j] = q[j]
  OBVIOUS
<1>3. i \in 1 .. Len(q)
  BY <1>1, <1>2
<1>4. Append(q, x)[i] = "prompt"
  BY <1>1, <1>2, <1>3
<1>5. i \in 1 .. Len(Append(q, x)) - (n + 1) /\ i \in 1 .. Len(Append(q, x)) - n
  BY <1>1, <1>2
<1>. QED
  BY <1>4, <1>5 DEF Kept

LEMMA PromptIsKept ==
    ASSUME NEW q \in Seq(Kinds)
    PROVE  Kept(Append(q, "prompt"), 0)
<1>1. Len(q) \in Nat /\ Len(Append(q, "prompt")) = Len(q) + 1
      /\ Append(q, "prompt")[Len(q) + 1] = "prompt"
  OBVIOUS
<1>2. Len(q) + 1 \in 1 .. Len(Append(q, "prompt")) - 0
  BY <1>1
<1>. QED
  BY <1>1, <1>2 DEF Kept

LEMMA FrontKeeps ==
    ASSUME NEW q \in Seq(Kinds), NEW n \in Nat, n >= 1, Kept(q, n)
    PROVE  /\ Len(q) >= 2 /\ Front(q) \in Seq(Kinds) /\ Kept(Front(q), n - 1)
           /\ \A x \in Kinds : Front(Append(Front(q), x)) = Front(q)
<1>1. PICK i \in 1 .. Len(q) - n : q[i] = "prompt"
  BY DEF Kept
<1>2. Len(q) \in Nat /\ Len(q) >= 2 /\ i \in 1 .. Len(q) - 1
  BY <1>1
<1>3. /\ Front(q) \in Seq(Kinds) /\ Len(Front(q)) = Len(q) - 1
      /\ \A j \in 1 .. Len(q) - 1 : Front(q)[j] = q[j]
  BY <1>2 DEF Front
<1>4. i \in 1 .. Len(Front(q)) - (n - 1) /\ Front(q)[i] = "prompt"
  BY <1>1, <1>2, <1>3
<1>5. Kept(Front(q), n - 1)
  BY <1>4 DEF Kept
<1>6. ASSUME NEW p \in Seq(Kinds), NEW x \in Kinds PROVE Front(Append(p, x)) = p
  BY DEF Front
<1>. QED
  BY <1>2, <1>3, <1>5, <1>6


-----------------------------------------------------------------------------
(***************************************************************************)
(* The invariant.  Types hold always; the rest as long as the line is not  *)
(* disturbed, among it that there is a prompt before the line, so that     *)
(* there is something to erase whenever the line is not empty.             *)
(***************************************************************************)
LineFits(s, inLine, n) == Fits(s, n) /\ (inLine => Kept(s.charBuffer, n))

ConsoleTypes ==
    /\ screen \in Screens /\ disturbed \in BOOLEAN
    /\ len \in Nat /\ len <= MAX_CHARS - 1
    /\ ~ InLine => len = 0
    /\ phase \in {"back", "blank"} => len >= 1

ConsoleInv == ConsoleTypes /\ (~ disturbed => LineFits(screen, InLine, Shown))

LEMMA ShownIsShort ==
    ASSUME ConsoleTypes
    PROVE  /\ Shown \in Nat /\ Shown <= MAX_CHARS - 1 /\ (~ InLine => Shown = 0)
           /\ phase \in {"reading", "blank"} => Shown = len /\ InLine
           /\ phase = "back" => Shown = len - 1 /\ len >= 1 /\ InLine
<1>1. MAX_CHARS \in Nat
  BY ConsoleAssumption
<1>. QED
  BY <1>1 DEF ConsoleTypes, Shown, InLine

LEMMA ConsoleStarts == ConsoleInit => ConsoleInv
<1>. SUFFICES ASSUME ConsoleInit PROVE ConsoleInv
  OBVIOUS
<1>. DEFINE s == [X |-> 0, Y |-> 0, font |-> 0, charBuffer |-> << >>, bufferIdx |-> 0]
<1>1. screen = DrawAll(s, WELCOME) /\ phase = "prompt" /\ len = 0 /\ ~ disturbed
      /\ disturbed \in BOOLEAN
  BY DEF ConsoleInit
<1>2. WELCOME \in Seq(Kinds) /\ Len(WELCOME) < MAX_RESOLUTION /\ 0 \in Fonts
      /\ 0 <= MAX_CHARS - 1
  BY ConsoleAssumption
<1>3. s \in Screens /\ s.font = s.font /\ s.X = 0 /\ s.Y = 0 /\ s.charBuffer = << >>
      /\ s.bufferIdx = 0
  BY <1>2 DEF Screens
<1>. HIDE DEF s
<1>4. Fresh(s)
  BY <1>3, Cleared
<1>5. /\ screen \in Screens /\ Indexed(screen) /\ screen.bufferIdx = Len(WELCOME)
      /\ FarAs(screen, 0)
  BY <1>1, <1>2, <1>4, DrawAllFresh
<1>6. Fits(screen, 0)
  BY <1>2, <1>5, ConsoleAssumption DEF Fits
<1>7. ~ InLine /\ Shown = 0 /\ phase \notin {"back", "blank"}
  BY <1>1 DEF InLine, Shown
<1>. QED
  BY <1>1, <1>2, <1>5, <1>6, <1>7 DEF ConsoleInv, ConsoleTypes, LineFits

\* A character at the end of a line that has not been disturbed.
LEMMA LinePrints ==
    ASSUME ConsoleInv, NEW x \in Kinds, Prints(x), InLine, ~ disturbed',
           NEW m \in Nat, m = Shown \/ m = Shown + 1, m <= MAX_CHARS - 1
    PROVE  LineFits(screen', TRUE, m)
<1>1. ~ Exceeds(screen) /\ ~ disturbed /\ screen' = PrintChar(screen, x)
  BY DEF Prints
<1>2. Fits(screen, Shown) /\ Kept(screen.charBuffer, Shown) /\ Shown \in Nat
  BY <1>1, ShownIsShort DEF ConsoleInv, LineFits
<1>3. m <= Shown + 1
  BY <1>2
<1>4. Fits(screen', m)
  BY <1>1, <1>2, <1>3, PrintsInTheBuffer
<1>5. screen'.charBuffer = Append(screen.charBuffer, x)
  BY <1>1, <1>2, <1>3, PrintsInTheBuffer
<1>6. screen.charBuffer \in Seq(Kinds)
  BY <1>2 DEF Fits, Screens
<1>7. Kept(screen'.charBuffer, Shown + 1) /\ Kept(screen'.charBuffer, Shown)
  BY <1>2, <1>5, <1>6, AppendKeeps
<1>. QED
  BY <1>4, <1>7 DEF LineFits

LEMMA PrintsTypes ==
    ASSUME ConsoleInv, NEW x \in Kinds, Prints(x)
    PROVE  /\ screen' \in Screens /\ disturbed' \in BOOLEAN
           /\ ~ disturbed' => ~ disturbed
<1>1. screen \in Screens /\ screen' = PrintChar(screen, x)
      /\ disturbed' = (disturbed \/ (Exceeds(screen) /\ InLine))
  BY DEF ConsoleInv, ConsoleTypes, Prints
<1>. QED
  BY <1>1, PrintCharType

LEMMA PromptSafe ==
    ASSUME ConsoleInv, Prompt
    PROVE  ConsoleInv'
<1>1. phase = "prompt" /\ Prints("prompt") /\ phase' = "reading" /\ len' = 0
      /\ "prompt" \in Kinds /\ 0 <= MAX_CHARS - 1
  BY ConsoleAssumption DEF Prompt, Kinds
<1>2. screen' \in Screens /\ disturbed' \in BOOLEAN /\ (~ disturbed' => ~ disturbed)
  BY <1>1, PrintsTypes
<1>3. Shown = 0 /\ Shown' = 0 /\ InLine'
  <2>1. ~ InLine
    BY <1>1 DEF InLine
  <2>. QED BY <1>1, <2>1, ShownIsShort DEF ConsoleInv, InLine, Shown
<1>4. ASSUME ~ disturbed' PROVE LineFits(screen', TRUE, 0)
  <2>1. Fits(screen, 0) /\ screen' = PrintChar(screen, "prompt")
    BY <1>1, <1>2, <1>3, <1>4 DEF ConsoleInv, LineFits, Prints
  <2>2. Fits(screen', 0) /\ \E q \in Seq(Kinds) : screen'.charBuffer = Append(q, "prompt")
    BY <1>1, <2>1, PrintsBetweenLines
  <2>3. Kept(screen'.charBuffer, 0)
    BY <2>2, PromptIsKept
  <2>. QED BY <2>2, <2>3 DEF LineFits
<1>. QED
  BY <1>1, <1>2, <1>3, <1>4 DEF ConsoleInv, ConsoleTypes, LineFits

LEMMA TypeCharSafe ==
    ASSUME ConsoleInv, TypeChar
    PROVE  ConsoleInv'
<1>1. phase = "reading" /\ phase' = phase /\ Prints("char") /\ len < MAX_CHARS - 1
      /\ len' = len + 1 /\ "char" \in Kinds /\ len \in Nat /\ MAX_CHARS \in Nat
  BY ConsoleAssumption DEF TypeChar, Kinds, ConsoleInv, ConsoleTypes
<1>2. len' \in Nat /\ len' <= MAX_CHARS - 1
  BY <1>1
<1>3. screen' \in Screens /\ disturbed' \in BOOLEAN
  BY <1>1, PrintsTypes
<1>4. InLine /\ Shown = len /\ InLine' /\ Shown' = len'
  BY <1>1 DEF InLine, Shown
<1>5. ASSUME ~ disturbed' PROVE LineFits(screen', TRUE, len')
  BY <1>1, <1>2, <1>4, <1>5, LinePrints
<1>. QED
  BY <1>1, <1>2, <1>3, <1>4, <1>5 DEF ConsoleInv, ConsoleTypes

LEMMA EnterSafe ==
    ASSUME ConsoleInv, Enter
    PROVE  ConsoleInv'
<1>1. phase = "reading" /\ phase' = "command" /\ Prints("newline")
      /\ len' = 0 /\ "newline" \in Kinds /\ len \in Nat /\ len <= MAX_CHARS - 1
      /\ 0 <= MAX_CHARS - 1
  BY ConsoleAssumption DEF Enter, Kinds, ConsoleInv, ConsoleTypes
<1>2. screen' \in Screens /\ disturbed' \in BOOLEAN
  BY <1>1, PrintsTypes
<1>3. InLine /\ Shown = len /\ ~ InLine' /\ Shown' = 0
  BY <1>1 DEF InLine, Shown
<1>4. ASSUME ~ disturbed' PROVE LineFits(screen', FALSE, 0)
  <2>1. Fits(screen, len) /\ ~ Exceeds(screen) /\ screen' = PrintChar(screen, "newline")
    BY <1>1, <1>3, <1>4 DEF ConsoleInv, LineFits, Prints
  <2>2. Fits(screen', 0)
    BY <1>1, <2>1, PrintsInTheBuffer
  <2>. QED BY <2>2 DEF LineFits
<1>. QED
  BY <1>1, <1>2, <1>3, <1>4 DEF ConsoleInv, ConsoleTypes, LineFits

LEMMA OtherPrintsSafe ==
    ASSUME ConsoleInv, NEW x \in {"char", "newline", "nul"}, OtherPrints(x)
    PROVE  ConsoleInv'
<1>1. Prints(x) /\ x \in Kinds /\ phase' = phase /\ len' = len
  BY DEF OtherPrints, Kinds
<1>2. Shown \in Nat /\ Shown <= MAX_CHARS - 1 /\ (~ InLine => Shown = 0)
  BY ShownIsShort DEF ConsoleInv
<1>3. screen' \in Screens /\ disturbed' \in BOOLEAN /\ (~ disturbed' => ~ disturbed)
  BY <1>1, PrintsTypes
<1>4. ASSUME ~ disturbed', InLine PROVE LineFits(screen', TRUE, Shown)
  BY <1>1, <1>2, <1>4, LinePrints
<1>5. ASSUME ~ disturbed', ~ InLine PROVE LineFits(screen', FALSE, Shown)
  <2>1. Fits(screen, 0) /\ screen' = PrintChar(screen, x)
    BY <1>1, <1>2, <1>3, <1>5 DEF ConsoleInv, LineFits, Prints
  <2>2. Fits(screen', 0)
    BY <1>1, <2>1, PrintsBetweenLines
  <2>. QED BY <1>2, <1>5, <2>2 DEF LineFits
<1>6. InLine' = InLine /\ Shown' = Shown
  BY <1>1 DEF InLine, Shown
<1>. QED
  BY <1>1, <1>3, <1>4, <1>5, <1>6 DEF ConsoleInv, ConsoleTypes, LineFits


\* A backspace takes back the last character of those the line shows.
LEMMA LineGoesBack ==
    ASSUME NEW s, NEW n \in Nat, n >= 1, Fits(s, n), Kept(s.charBuffer, n),
           NEW t, t = Backspace(s)
    PROVE  LineFits(t, TRUE, n - 1)
<1>. DEFINE q == s.charBuffer
<1>1. /\ FarAs(s, n) /\ Indexed(s) /\ s.bufferIdx <= MAX_RESOLUTION /\ s \in Screens
      /\ q \in Seq(Kinds)
  BY DEF Fits, Screens
<1>2. Len(q) >= 2 /\ Kept(Front(q), n - 1)
  BY <1>1, FrontKeeps
<1>3. s.bufferIdx >= 1 /\ s.bufferIdx \in Int
  BY <1>1, <1>2 DEF Indexed, Screens
<1>4. /\ t \in Screens /\ t.charBuffer = Front(q) /\ t.bufferIdx = s.bufferIdx - 1
      /\ Indexed(t) /\ FarAs(t, n - 1)
  BY <1>1, <1>3, BackspaceFar
<1>5. t.bufferIdx <= MAX_RESOLUTION
  BY <1>1, <1>3, <1>4, ConsoleAssumption
<1>. QED
  BY <1>2, <1>4, <1>5 DEF LineFits, Fits

\* The cursor goes back onto the character,
LEMMA EraseSafe ==
    ASSUME ConsoleInv, Erase
    PROVE  ConsoleInv'
<1>1. /\ phase = "reading" /\ phase' = "back" /\ len > 0 /\ screen' = Backspace(screen)
      /\ len' = len /\ disturbed' = disturbed
      /\ screen \in Screens /\ disturbed \in BOOLEAN /\ len \in Nat /\ len <= MAX_CHARS - 1
  BY DEF Erase, ConsoleInv, ConsoleTypes
<1>2. InLine /\ Shown = len /\ InLine' /\ Shown' = len - 1 /\ len >= 1
  BY <1>1 DEF InLine, Shown
<1>3. screen' \in Screens
  BY <1>1, TypesKept
<1>4. ASSUME ~ disturbed PROVE LineFits(screen', TRUE, len - 1)
  <2>1. Fits(screen, len) /\ Kept(screen.charBuffer, len)
    BY <1>2, <1>4 DEF ConsoleInv, LineFits
  <2>. QED BY <1>1, <1>2, <2>1, LineGoesBack
<1>. QED
  BY <1>1, <1>2, <1>3, <1>4 DEF ConsoleInv, ConsoleTypes

\* a blank covers it, or whatever place others have moved the cursor to,
LEMMA EraseBlankSafe ==
    ASSUME ConsoleInv, EraseBlank
    PROVE  ConsoleInv'
<1>1. phase = "back" /\ phase' = "blank" /\ Prints("char") /\ len' = len
      /\ "char" \in Kinds /\ len \in Nat /\ len <= MAX_CHARS - 1
  BY DEF EraseBlank, Kinds, ConsoleInv, ConsoleTypes
<1>2. InLine /\ Shown = len - 1 /\ InLine' /\ Shown' = len /\ len >= 1
  BY <1>1, ShownIsShort DEF ConsoleInv, InLine, Shown
<1>3. screen' \in Screens /\ disturbed' \in BOOLEAN
  BY <1>1, PrintsTypes
<1>4. ASSUME ~ disturbed' PROVE LineFits(screen', TRUE, len)
  <2>1. len = Shown + 1
    BY <1>1, <1>2
  <2>. QED BY <1>1, <1>2, <1>4, <2>1, LinePrints
<1>. QED
  BY <1>1, <1>2, <1>3, <1>4 DEF ConsoleInv, ConsoleTypes

\* and the blank, or what others printed after it, is taken back.
LEMMA EraseBackSafe ==
    ASSUME ConsoleInv, EraseBack
    PROVE  ConsoleInv'
<1>1. /\ phase = "blank" /\ phase' = "reading" /\ screen' = Backspace(screen)
      /\ len' = len - 1 /\ disturbed' = disturbed /\ len >= 1
      /\ screen \in Screens /\ disturbed \in BOOLEAN /\ len \in Nat /\ len <= MAX_CHARS - 1
  BY DEF EraseBack, ConsoleInv, ConsoleTypes
<1>2. InLine /\ Shown = len /\ InLine' /\ Shown' = len - 1
  BY <1>1 DEF InLine, Shown
<1>3. screen' \in Screens /\ len' \in Nat /\ len' <= MAX_CHARS - 1
  BY <1>1, TypesKept, ConsoleAssumption
<1>4. ASSUME ~ disturbed PROVE LineFits(screen', TRUE, len - 1)
  <2>1. Fits(screen, len) /\ Kept(screen.charBuffer, len)
    BY <1>2, <1>4 DEF ConsoleInv, LineFits
  <2>. QED BY <1>1, <2>1, LineGoesBack
<1>5. ConsoleTypes'
  BY <1>1, <1>2, <1>3 DEF ConsoleTypes
<1>6. ~ disturbed' => LineFits(screen', InLine', Shown')
  BY <1>1, <1>2, <1>4
<1>. QED
  BY <1>5, <1>6 DEF ConsoleInv

\* Two characters and a new line; in the middle of a line that is not disturbed
\* they fit, for the message leaves room for two, and the index would be less.
LEMMA CtrlDSafe ==
    ASSUME ConsoleInv, CtrlD
    PROVE  ConsoleInv'
<1>. DEFINE a == PrintChar(screen, "char")
            b == PrintChar(a, "char")
<1>1. /\ screen' = PrintNewline(b) /\ phase' = phase /\ len' = len /\ "char" \in Kinds
      /\ disturbed' = (disturbed \/ (screen'.bufferIdx < screen.bufferIdx /\ InLine))
      /\ screen \in Screens /\ disturbed \in BOOLEAN
  BY DEF CtrlD, Kinds, ConsoleInv, ConsoleTypes
<1>0. /\ Shown \in Nat /\ Shown <= MAX_CHARS - 1 /\ (~ InLine => Shown = 0)
      /\ InLine' = InLine /\ Shown' = Shown
  BY <1>1, ShownIsShort DEF ConsoleInv, InLine, Shown
<1>2. a \in Screens
  BY <1>1, PrintCharType
<1>3. b \in Screens
  BY <1>1, <1>2, PrintCharType
<1>4. screen' \in Screens
  BY <1>1, <1>3, TypesKept
<1>5. ASSUME ~ disturbed' PROVE Fits(screen, Shown)
  BY <1>0, <1>1, <1>5 DEF ConsoleInv, LineFits
<1>6. b.charBuffer \in Seq(Kinds) /\ screen.charBuffer \in Seq(Kinds)
      /\ a.charBuffer \in Seq(Kinds)
  BY <1>0, <1>1, <1>2, <1>3 DEF Screens
<1>7. ASSUME NEW n \in Nat, Fits(b, n), n <= MAX_CHARS - 1
      PROVE  /\ Fits(screen', n) /\ screen'.charBuffer = b.charBuffer
             /\ screen'.bufferIdx = b.bufferIdx
  <2>1. FarAs(b, n) /\ Indexed(b) /\ b.bufferIdx <= MAX_RESOLUTION /\ n <= Room(b)
    BY <1>3, <1>7, RoomIsNat, ConsoleAssumption DEF Fits
  <2>2. /\ screen'.charBuffer = b.charBuffer /\ screen'.bufferIdx = b.bufferIdx
        /\ FarAs(screen', n)
    BY <1>0, <1>1, <1>3, <2>1, NewlineFar
  <2>. QED BY <1>4, <2>1, <2>2 DEF Fits, Indexed
<1>8. ASSUME ~ disturbed', ~ InLine PROVE LineFits(screen', InLine, Shown)
  <2>1. Fits(screen, 0) /\ 0 <= MAX_CHARS - 1
    BY <1>0, <1>1, <1>5, <1>8, ConsoleAssumption
  <2>2. Fits(a, 0)
    BY <1>0, <1>1, <2>1, PrintsBetweenLines
  <2>. HIDE DEF a
  <2>3. Fits(b, 0)
    BY <1>0, <1>1, <2>2, PrintsBetweenLines
  <2>4. Fits(screen', 0)
    BY <1>7, <2>1, <2>3
  <2>. QED BY <1>0, <1>1, <1>8, <2>4 DEF LineFits
<1>9. ASSUME ~ disturbed', InLine PROVE LineFits(screen', InLine, Shown)
  <2>. DEFINE over == Len(MSG_BUFFER_EXCEEDED)
  <2>1. Fits(screen, Shown) /\ Kept(screen.charBuffer, Shown)
    BY <1>0, <1>1, <1>9 DEF ConsoleInv, LineFits
  <2>2. over \in Nat /\ over + 2 < MAX_RESOLUTION /\ MAX_RESOLUTION \in Nat /\ Shown <= Shown + 1
    BY <1>0, <1>1, ConsoleAssumption
  <2>3. screen.bufferIdx \in Int /\ a.bufferIdx \in Int /\ b.bufferIdx \in Int
        /\ screen'.bufferIdx = b.bufferIdx /\ ~ (b.bufferIdx < screen.bufferIdx)
    <3>1. screen'.bufferIdx = b.bufferIdx
      BY <1>0, <1>1, <1>3 DEF PrintNewline, Screens
    <3>2. ~ (screen'.bufferIdx < screen.bufferIdx)
      BY <1>0, <1>1, <1>9
    <3>. HIDE DEF a, b
    <3>. QED BY <1>0, <1>1, <1>2, <1>3, <3>1, <3>2 DEF Screens
  <2>4. ~ Exceeds(screen)
    <3>. SUFFICES ASSUME Exceeds(screen) PROVE FALSE
      OBVIOUS
    <3>1. Fits(a, 0) /\ a.bufferIdx = over + 1 /\ screen.bufferIdx = MAX_RESOLUTION
      BY <1>0, <1>1, PrintsInANewBuffer DEF Exceeds
    <3>. HIDE DEF a
    <3>2. ~ Exceeds(a) /\ 0 \in Nat /\ 0 <= 0 + 1 /\ 0 <= MAX_CHARS - 1
      BY <2>2, <3>1, ConsoleAssumption DEF Exceeds
    <3>3. b.bufferIdx = a.bufferIdx + 1
      BY <1>0, <1>1, <3>1, <3>2, PrintsInTheBuffer
    <3>. HIDE DEF b, over
    <3>. QED BY <2>2, <2>3, <3>1, <3>3
  <2>5. Fits(a, Shown) /\ a.bufferIdx = screen.bufferIdx + 1
    BY <1>0, <1>1, <2>1, <2>2, <2>4, PrintsInTheBuffer
  <2>6. a.charBuffer = Append(screen.charBuffer, "char")
    BY <1>0, <1>1, <2>1, <2>2, <2>4, PrintsInTheBuffer
  <2>. HIDE DEF a
  <2>7. ~ Exceeds(a)
    <3>. SUFFICES ASSUME Exceeds(a) PROVE FALSE
      OBVIOUS
    <3>1. b.bufferIdx = over + 1 /\ a.bufferIdx = MAX_RESOLUTION
      BY <1>0, <1>1, <1>2, PrintsInANewBuffer DEF Exceeds
    <3>. HIDE DEF b, over
    <3>. QED BY <2>2, <2>3, <2>5, <3>1
  <2>8. Fits(b, Shown)
    BY <1>0, <1>1, <2>2, <2>5, <2>7, PrintsInTheBuffer
  <2>9. b.charBuffer = Append(a.charBuffer, "char")
    BY <1>0, <1>1, <2>2, <2>5, <2>7, PrintsInTheBuffer
  <2>. HIDE DEF b
  <2>10. Fits(screen', Shown) /\ screen'.charBuffer = b.charBuffer
    BY <1>0, <1>1, <1>7, <2>8
  <2>11. Kept(a.charBuffer, Shown)
    BY <1>0, <1>1, <1>6, <2>1, <2>6, AppendKeeps
  <2>12. Kept(b.charBuffer, Shown)
    BY <1>0, <1>1, <1>6, <2>9, <2>11, AppendKeeps
  <2>. QED BY <1>0, <1>1, <2>10, <2>12 DEF LineFits
<1>. QED
  BY <1>0, <1>1, <1>4, <1>8, <1>9 DEF CtrlD, ConsoleInv, ConsoleTypes

LEMMA FontSizeSafe ==
    ASSUME ConsoleInv, NEW f \in Fonts, bi_fontSize(f)
    PROVE  ConsoleInv'
<1>1. /\ screen' = SetFontSize(screen, f) /\ phase = "command" /\ phase' = "prompt"
      /\ len' = len /\ disturbed' = disturbed /\ screen \in Screens /\ disturbed \in BOOLEAN
      /\ len = 0 /\ len <= MAX_CHARS - 1
  BY DEF bi_fontSize, ConsoleInv, ConsoleTypes, InLine
<1>0. ~ InLine /\ Shown = 0 /\ ~ InLine' /\ Shown' = 0
  BY <1>1 DEF InLine, Shown
<1>2. /\ screen' \in Screens /\ Indexed(screen')
      /\ screen'.bufferIdx <= Len(screen.charBuffer) /\ FarAs(screen', 0)
  BY <1>1, SetFontSizeFar
<1>3. ASSUME ~ disturbed PROVE Fits(screen', 0)
  <2>1. screen.bufferIdx = Len(screen.charBuffer) /\ screen.bufferIdx <= MAX_RESOLUTION
        /\ screen.bufferIdx \in Int /\ screen'.bufferIdx \in Int
    BY <1>1, <1>2, <1>3 DEF ConsoleInv, LineFits, Fits, Indexed, Screens
  <2>2. screen'.bufferIdx <= MAX_RESOLUTION
    BY <1>2, <2>1, ConsoleAssumption
  <2>. QED BY <1>2, <2>2 DEF Fits
<1>. QED
  BY <1>0, <1>1, <1>2, <1>3 DEF ConsoleInv, ConsoleTypes, LineFits

LEMMA ClearsSafe ==
    ASSUME ConsoleInv, Clears
    PROVE  ConsoleInv'
<1>1. /\ screen' = VideoClear(screen) /\ disturbed' = InLine /\ phase' = phase
      /\ len' = len /\ screen \in Screens
  BY DEF Clears, ConsoleInv, ConsoleTypes
<1>2. Fresh(screen')
  BY <1>1, VideoClearIsFresh
<1>3. Fits(screen', 0)
  BY <1>2, ConsoleAssumption DEF Fresh, Fits, Indexed
<1>4. disturbed' \in BOOLEAN /\ screen' \in Screens
  BY <1>1, <1>3 DEF Fits, InLine
<1>5. InLine' = InLine /\ Shown' = Shown /\ (~ InLine => Shown = 0)
  BY <1>1, ShownIsShort DEF ConsoleInv, InLine, Shown
<1>6. ASSUME ~ disturbed' PROVE LineFits(screen', FALSE, Shown) /\ ~ InLine
  BY <1>1, <1>3, <1>5, <1>6 DEF LineFits
<1>. QED
  BY <1>1, <1>4, <1>5, <1>6 DEF ConsoleInv, ConsoleTypes, LineFits

\* The steps after which the line is disturbed, and those that print nothing.
LEMMA QuietSafe ==
    ASSUME ConsoleInv,
           ReadEof \/ CommandEnds \/ OtherPrintsBackspace \/ OtherReadsEof \/ UNCHANGED consoleVars
    PROVE  ConsoleInv'
<1>1. CASE ReadEof
  BY <1>1, ConsoleAssumption DEF ReadEof, ConsoleInv, ConsoleTypes, InLine
<1>2. CASE CommandEnds
  BY <1>2 DEF CommandEnds, ConsoleInv, ConsoleTypes, LineFits, InLine, Shown
<1>3. CASE OtherPrintsBackspace
  <2>1. screen' \in Screens
    BY <1>3, TypesKept DEF OtherPrintsBackspace, ConsoleInv, ConsoleTypes
  <2>. QED BY <1>3, <2>1 DEF OtherPrintsBackspace, ConsoleInv, ConsoleTypes, InLine
<1>4. CASE OtherReadsEof
  BY <1>4 DEF OtherReadsEof, ConsoleInv, ConsoleTypes, InLine, Shown
<1>5. CASE UNCHANGED consoleVars
  BY <1>5 DEF consoleVars, ConsoleInv, ConsoleTypes, InLine, Shown
<1>. QED
  BY <1>1, <1>2, <1>3, <1>4, <1>5

LEMMA ConsoleInvariance == ConsoleSpec => []ConsoleInv
<1>1. ConsoleInv /\ [ConsoleNext]_consoleVars => ConsoleInv'
  <2>. SUFFICES ASSUME ConsoleInv, ConsoleNext \/ UNCHANGED consoleVars PROVE ConsoleInv'
    OBVIOUS
  <2>. QED
    BY PromptSafe, TypeCharSafe, EraseSafe, EraseBlankSafe, EraseBackSafe, EnterSafe, ClearsSafe, FontSizeSafe,
       OtherPrintsSafe, CtrlDSafe, QuietSafe DEF ConsoleNext
<1>. QED
  BY <1>1, ConsoleStarts, PTL DEF ConsoleSpec

LEMMA FarIsOnScreen ==
    ASSUME screen \in Screens, FarAs(screen, 0)
    PROVE  CursorOnScreen
<1>1. PICK r \in Nat, c \in Nat : IsAt(screen, r, c)
  BY DEF FarAs
<1>. QED
  BY <1>1 DEF IsAt, CursorOnScreen

LEMMA FarIsFarAsZero ==
    ASSUME NEW s \in Screens, NEW n \in Nat, FarAs(s, n)
    PROVE  FarAs(s, 0)
<1>1. PICK r \in Nat, c \in Nat : IsAt(s, r, c)
  BY DEF FarAs
<1>2. s.font \in Fonts
  BY DEF Screens
<1>3. Columns(s.font) \in Nat
  BY <1>2, Grid
<1>4. r * Columns(s.font) + c >= 0
  BY <1>3
<1>. QED
  BY <1>1, <1>4 DEF FarAs

\* As long as nobody disturbs it, editing a line keeps the cursor on the screen
\* and the index in the buffer, also between the three system calls with which
\* read_line erases: for every screen, every set of fonts, and every length of the
\* line that fits above the last line of the screen.
THEOREM EditingStaysOnScreenCorrect == ConsoleSpec => []EditingStaysOnScreen
<1>1. ConsoleInv => EditingStaysOnScreen
  <2>. SUFFICES ASSUME ConsoleInv, ~ disturbed PROVE CursorOnScreen /\ IndexInBuffer
    BY DEF EditingStaysOnScreen
  <2>1. screen \in Screens /\ Shown \in Nat /\ FarAs(screen, Shown) /\ Indexed(screen)
        /\ screen.bufferIdx <= MAX_RESOLUTION
    BY ShownIsShort DEF ConsoleInv, LineFits, Fits
  <2>2. CursorOnScreen
    BY <2>1, FarIsFarAsZero, FarIsOnScreen
  <2>3. IndexInBuffer
    <3>1. screen.charBuffer \in Seq(Kinds) /\ screen.bufferIdx = Len(screen.charBuffer)
      BY <2>1 DEF Screens, Indexed
    <3>. QED BY <2>1, <3>1, ConsoleAssumption DEF IndexInBuffer
  <2>. QED BY <2>2, <2>3
<1>. QED
  BY <1>1, ConsoleInvariance, PTL

\* Nor does it erase what was there before the line: the prompt stays in the
\* buffer, before as many characters as the line shows, whatever other programs
\* and Ctrl+D print between the three system calls with which read_line erases.
THEOREM PromptSurvivesCorrect == ConsoleSpec => []PromptSurvives
<1>1. ConsoleInv => PromptSurvives
  BY DEF ConsoleInv, LineFits, Kept, PromptSurvives
<1>. QED
  BY <1>1, ConsoleInvariance, PTL

-----------------------------------------------------------------------------
(***************************************************************************)
(* Powers of two: the prover knows nothing of them but that 2^n counts the *)
(* subsets of a set of n elements.                                         *)
(***************************************************************************)
P(n) == 2 ^ n

LEMMA PowCounts ==
    ASSUME NEW n \in Nat
    PROVE  /\ P(n) = Cardinality(SUBSET (1 .. n)) /\ IsFiniteSet(SUBSET (1 .. n))
           /\ P(n) \in Nat
<1>1. IsFiniteSet(1 .. n) /\ Cardinality(1 .. n) = n
  <2>1. IsFiniteSet(1 .. n)
    BY FS_Interval
  <2>2. Cardinality(1 .. n) = IF 1 > n THEN 0 ELSE n - 1 + 1
    BY FS_Interval
  <2>. QED BY <2>1, <2>2
<1>2. IsFiniteSet(SUBSET (1 .. n)) /\ Cardinality(SUBSET (1 .. n)) = 2 ^ Cardinality(1 .. n)
  BY <1>1, FS_SUBSET
<1>3. Cardinality(SUBSET (1 .. n)) \in Nat
  BY <1>2, FS_CardinalityType
<1>. QED
  BY <1>1, <1>2, <1>3 DEF P

LEMMA PowZero == P(0) = 1
BY DEF P

LEMMA PowNext ==
    ASSUME NEW n \in Nat
    PROVE  P(n + 1) = 2 * P(n)
<1>. DEFINE old  == SUBSET (1 .. n)
            more == {T \in SUBSET (1 .. n + 1) : n + 1 \in T}
            with == [T \in old |-> T \cup {n + 1}]
<1>1. SUBSET (1 .. n + 1) = old \cup more /\ old \cap more = {}
  <2>1. ASSUME NEW T \in SUBSET (1 .. n + 1), n + 1 \notin T PROVE T \in old
    BY <2>1
  <2>2. ASSUME NEW T \in old PROVE T \in SUBSET (1 .. n + 1) /\ n + 1 \notin T
    BY <2>2
  <2>. QED BY <2>1, <2>2
<1>2. IsFiniteSet(old) /\ Cardinality(old) = P(n) /\ P(n) \in Nat
  BY PowCounts
<1>3. with \in Bijection(old, more)
  <2>1. ASSUME NEW T \in old PROVE with[T] \in more
    BY <2>1
  <2>2. ASSUME NEW T \in old, NEW U \in old, with[T] = with[U] PROVE T = U
    <3>1. n + 1 \notin T /\ n + 1 \notin U
      BY <2>2
    <3>2. T \cup {n + 1} = U \cup {n + 1}
      BY <2>2
    <3>. QED BY <3>1, <3>2
  <2>3. ASSUME NEW U \in more PROVE \E T \in old : with[T] = U
    <3>1. U \ {n + 1} \in old
      <4>1. ASSUME NEW i \in U, i # n + 1 PROVE i \in 1 .. n
        BY <2>3, <4>1
      <4>. QED BY <4>1
    <3>2. (U \ {n + 1}) \cup {n + 1} = U
      BY <2>3
    <3>. QED BY <3>1, <3>2
  <2>4. with \in [old -> more]
    BY <2>1
  <2>. HIDE DEF old, more, with
  <2>5. with \in Injection(old, more)
    BY <2>2, <2>4 DEF Injection, IsInjective
  <2>6. with \in Surjection(old, more)
    BY <2>3, <2>4 DEF Surjection
  <2>. QED BY <2>5, <2>6 DEF Bijection
<1>4. ExistsBijection(old, more)
  BY <1>3 DEF ExistsBijection
<1>. HIDE DEF old, more, with
<1>5. IsFiniteSet(more) /\ Cardinality(more) = P(n)
  BY <1>2, <1>4, FS_Bijection
<1>6. Cardinality(old \cup more) = P(n) + P(n) - Cardinality(old \cap more)
  BY <1>2, <1>5, FS_Union
<1>7. Cardinality(old \cap more) = 0
  BY <1>1, FS_EmptySet
<1>8. P(n + 1) = Cardinality(SUBSET (1 .. n + 1))
  BY PowCounts
<1>9. P(n + 1) = Cardinality(old \cup more)
  BY <1>1, <1>8
<1>. QED
  BY <1>2, <1>6, <1>7, <1>9

LEMMA PowPositive ==
    ASSUME NEW n \in Nat
    PROVE  P(n) \in Nat /\ P(n) >= 1
<1>. DEFINE S == {m \in Nat : P(m) >= 1}
<1>1. 0 \in S
  BY PowZero
<1>2. ASSUME NEW m \in Nat, m \in S PROVE m + 1 \in S
  <2>1. P(m + 1) = 2 * P(m) /\ P(m) \in Nat
    BY PowNext, PowCounts
  <2>. QED BY <1>2, <2>1
<1>. HIDE DEF S
<1>3. n \in S
  BY <1>1, <1>2, InductionForSet
<1>. QED
  BY <1>3, PowCounts DEF S

LEMMA PowSum ==
    ASSUME NEW a \in Nat, NEW b \in Nat
    PROVE  P(a + b) = P(a) * P(b)
<1>. DEFINE S == {m \in Nat : P(a + m) = P(a) * P(m)}
<1>1. 0 \in S
  <2>1. P(a) \in Nat /\ a + 0 = a
    BY PowPositive
  <2>. QED BY <2>1, PowZero
<1>2. ASSUME NEW m \in Nat, m \in S PROVE m + 1 \in S
  <2>1. P(a + m + 1) = 2 * P(a + m) /\ P(m + 1) = 2 * P(m) /\ P(a) \in Nat /\ P(m) \in Nat
    BY PowNext, PowPositive
  <2>2. a + (m + 1) = a + m + 1
    OBVIOUS
  <2>3. P(a) * (2 * P(m)) = 2 * (P(a) * P(m))
    BY <2>1
  <2>. QED BY <1>2, <2>1, <2>2, <2>3
<1>. HIDE DEF S
<1>3. b \in S
  BY <1>1, <1>2, InductionForSet
<1>. QED
  BY <1>3 DEF S

LEMMA PowMonotone ==
    ASSUME NEW a \in Nat, NEW b \in Nat, a <= b
    PROVE  P(a) <= P(b)
<1>. DEFINE S == {m \in Nat : P(a) <= P(a + m)}
<1>1. 0 \in S
  <2>1. P(a) \in Nat /\ a + 0 = a
    BY PowPositive
  <2>. QED BY <2>1
<1>2. ASSUME NEW m \in Nat, m \in S PROVE m + 1 \in S
  <2>1. P(a + m + 1) = 2 * P(a + m) /\ P(a) \in Nat /\ P(a + m) \in Nat
        /\ a + (m + 1) = a + m + 1
    BY PowNext, PowPositive
  <2>. QED BY <1>2, <2>1
<1>. HIDE DEF S
<1>3. b - a \in Nat /\ a + (b - a) = b
  OBVIOUS
<1>4. b - a \in S
  BY <1>1, <1>2, <1>3, InductionForSet
<1>. QED
  BY <1>3, <1>4 DEF S

-----------------------------------------------------------------------------
(***************************************************************************)
(* Division.                                                               *)
(***************************************************************************)
LEMMA Divides ==
    ASSUME NEW a \in Nat, NEW d \in Nat, d >= 1
    PROVE  /\ a \div d \in Nat /\ a % d \in 0 .. d - 1
           /\ a = d * (a \div d) + (a % d)
OBVIOUS

LEMMA BelowZero ==
    ASSUME NEW a \in Int, a < 0, NEW d \in Nat, d >= 1
    PROVE  a \div d \notin Nat
<1>. DEFINE q == a \div d
<1>1. q \in Int /\ a % d \in 0 .. d - 1 /\ a = d * q + (a % d)
  OBVIOUS
<1>2. PICK r \in 0 .. d - 1 : a = d * q + r
  BY <1>1
<1>. HIDE DEF q
<1>3. ASSUME q \in Nat PROVE FALSE
  <2>1. d * q \in Nat
    BY <1>3
  <2>. QED BY <1>2, <2>1
<1>. QED
  BY <1>3 DEF q

LEMMA DivisionIs ==
    ASSUME NEW a \in Nat, NEW d \in Nat, d >= 1, NEW q \in Nat, d * q <= a, a < d * q + d
    PROVE  a \div d = q
<1>1. /\ a \div d \in Nat /\ a % d \in 0 .. d - 1 /\ a = d * (a \div d) + (a % d)
  BY Divides
<1>. DEFINE k == a \div d
<1>2. k \in Nat /\ d * k <= a /\ a < d * k + d
  BY <1>1
<1>. HIDE DEF k
<1>3. ~ (k + 1 <= q)
  <2>. SUFFICES ASSUME k + 1 <= q PROVE FALSE
    OBVIOUS
  <2>1. (k + 1) * d <= q * d
    BY <1>2, TimesMonotone
  <2>2. (k + 1) * d = d * k + d /\ q * d = d * q /\ d * k \in Nat /\ d * q \in Nat
    BY <1>2
  <2>. QED BY <1>2, <2>1, <2>2
<1>4. ~ (q + 1 <= k)
  <2>. SUFFICES ASSUME q + 1 <= k PROVE FALSE
    OBVIOUS
  <2>1. (q + 1) * d <= k * d
    BY <1>2, TimesMonotone
  <2>2. (q + 1) * d = d * q + d /\ k * d = d * k /\ d * k \in Nat /\ d * q \in Nat
    BY <1>2
  <2>. QED BY <1>2, <2>1, <2>2
<1>5. k = q
  BY <1>2, <1>3, <1>4
<1>. QED
  BY <1>5 DEF k

\* Halving what was divided.
LEMMA DivideTwice ==
    ASSUME NEW a \in Nat, NEW d \in Nat, d >= 1
    PROVE  a \div (2 * d) = (a \div d) \div 2
<1>. DEFINE k == a \div d
            h == k \div 2
<1>1. k \in Nat /\ a % d \in 0 .. d - 1 /\ a = d * k + (a % d)
  BY Divides
<1>2. PICK r \in 0 .. d - 1 : a = d * k + r
  BY <1>1
<1>. HIDE DEF k
<1>3. h \in Nat /\ k % 2 \in 0 .. 1 /\ k = 2 * h + (k % 2)
  BY <1>1, Divides
<1>4. PICK b \in 0 .. 1 : k = 2 * h + b
  BY <1>3
<1>. HIDE DEF h
<1>5. a = (2 * d) * h + (d * b + r)
  <2>1. d * (2 * h + b) = (2 * d) * h + d * b
    BY <1>3, <1>4
  <2>2. (2 * d) * h \in Nat /\ d * b \in Nat
    BY <1>3, <1>4
  <2>. QED BY <1>2, <1>4, <2>1, <2>2
<1>6. d * b + r \in Nat /\ d * b + r < 2 * d
  <2>1. b = 0 \/ b = 1
    BY <1>4
  <2>2. d * b = 0 \/ d * b = d
    BY <2>1
  <2>. QED BY <1>2, <2>2
<1>7. 2 * d \in Nat /\ 2 * d >= 1 /\ (2 * d) * h \in Nat
  <2>1. 2 * d \in Nat /\ 2 * d >= 1
    OBVIOUS
  <2>. QED BY <1>3, <2>1
<1>8. (2 * d) * h <= a /\ a < (2 * d) * h + 2 * d
  <2>. DEFINE x == (2 * d) * h
  <2>. HIDE DEF x
  <2>1. x \in Nat /\ a = x + (d * b + r)
    BY <1>5, <1>7 DEF x
  <2>2. x <= a /\ a < x + 2 * d
    BY <1>6, <2>1
  <2>. QED BY <2>2 DEF x
<1>9. a \div (2 * d) = h
  BY <1>3, <1>7, <1>8, DivisionIs
<1>. QED
  BY <1>9 DEF h, k

LEMMA MultipleDivides ==
    ASSUME NEW q \in Nat, NEW d \in Nat, d >= 1
    PROVE  (q * d) \div d = q /\ (q * d) % d = 0
<1>1. q * d \in Nat /\ d * q <= q * d /\ q * d < d * q + d
  OBVIOUS
<1>2. (q * d) \div d = q
  BY <1>1, DivisionIs
<1>3. q * d = d * ((q * d) \div d) + ((q * d) % d) /\ (q * d) % d \in Int
  <2>1. PICK a \in Nat : a = q * d
    BY <1>1
  <2>2. a % d \in 0 .. d - 1 /\ a = d * (a \div d) + (a % d)
    BY Divides
  <2>3. a % d \in Int
    BY <2>2
  <2>. QED BY <2>1, <2>2, <2>3
<1>4. d * q = q * d
  OBVIOUS
<1>. QED
  BY <1>1, <1>2, <1>3, <1>4

-----------------------------------------------------------------------------
(***************************************************************************)
(* Levels: the root has level 0, the leaves that of Depth.  The nodes of a *)
(* level are those n with P(l) <= n + 1 < P(l + 1).                        *)
(***************************************************************************)
Depth == MaxExp - MIN_EXP

IsLevel(n, l) == P(l) <= n + 1 /\ n + 1 < 2 * P(l)

LevelOf(n) == MaxExp - ExponentOf[n]

LEMMA DepthIsNat ==
    /\ MIN_EXP \in Nat /\ MIN_EXP >= 1 /\ MaxExp \in Nat /\ Depth \in Nat /\ Depth >= 1
    /\ Exponents \in SUBSET Nat
    /\ \A e \in Exponents : MaxExp - e \in 0 .. Depth /\ MaxExp - (MaxExp - e) = e
    /\ \A l \in 0 .. Depth : MaxExp - l \in Exponents /\ MaxExp - (MaxExp - l) = l
<1>1. MIN_EXP \in Nat /\ MIN_EXP >= 1 /\ MaxExp \in Nat /\ MIN_EXP < MaxExp
  BY BuddyAssumption
<1>. QED
  BY <1>1 DEF Depth, Exponents

LEMMA NodesAre ==
    /\ P(Depth) \in Nat /\ P(Depth) >= 1
    /\ totalNodes = 2 * P(Depth) - 1 /\ Nodes = 0 .. 2 * P(Depth) - 2
    /\ Nodes \in SUBSET Nat
<1>1. P(Depth) \in Nat /\ P(Depth) >= 1 /\ P(Depth + 1) = 2 * P(Depth)
  BY DepthIsNat, PowPositive, PowNext
<1>2. MaxExp - MIN_EXP + 1 = Depth + 1
  BY DEF Depth
<1>3. totalNodes = 2 * P(Depth) - 1
  BY <1>1, <1>2 DEF totalNodes, P
<1>4. 2 * P(Depth) - 1 - 1 = 2 * P(Depth) - 2
  BY <1>1
<1>. QED
  BY <1>1, <1>3, <1>4 DEF Nodes

LEMMA NodesOfLevel ==
    ASSUME NEW l \in 0 .. Depth
    PROVE  /\ FirstNode(MaxExp - l) = P(l) - 1
           /\ \A n \in Nat : n \in NodesOf(MaxExp - l) <=> IsLevel(n, l)
           /\ NodesOf(MaxExp - l) \in SUBSET Nodes
<1>1. MaxExp - (MaxExp - l) = l /\ l \in Nat /\ l <= Depth /\ Depth \in Nat
  BY DepthIsNat
<1>2. FirstNode(MaxExp - l) = P(l) - 1
  BY <1>1 DEF FirstNode, P
<1>3. P(l) \in Nat /\ P(l) >= 1 /\ P(l) <= P(Depth) /\ P(Depth) \in Nat
  BY <1>1, PowPositive, PowMonotone
<1>4. NodesOf(MaxExp - l) = P(l) - 1 .. 2 * (P(l) - 1)
  BY <1>2 DEF NodesOf
<1>5. \A n \in Nat : n \in P(l) - 1 .. 2 * (P(l) - 1) <=> IsLevel(n, l)
  BY <1>3 DEF IsLevel
<1>6. \A n \in P(l) - 1 .. 2 * (P(l) - 1) : n \in 0 .. 2 * P(Depth) - 2
  BY <1>3
<1>. QED
  BY <1>2, <1>4, <1>5, <1>6, NodesAre

LEMMA LevelIsUnique ==
    ASSUME NEW n \in Nat, NEW l \in Nat, NEW k \in Nat, IsLevel(n, l), IsLevel(n, k)
    PROVE  l = k
<1>1. ASSUME NEW a \in Nat, NEW b \in Nat, IsLevel(n, a), IsLevel(n, b) PROVE ~ (a + 1 <= b)
  <2>. SUFFICES ASSUME a + 1 <= b PROVE FALSE
    OBVIOUS
  <2>1. P(a + 1) <= P(b)
    BY PowMonotone
  <2>2. P(a + 1) = 2 * P(a) /\ P(a) \in Nat /\ P(b) \in Nat
    BY PowNext, PowPositive
  <2>. QED BY <1>1, <2>1, <2>2 DEF IsLevel
<1>2. ~ (l + 1 <= k) /\ ~ (k + 1 <= l)
  BY <1>1
<1>. QED
  BY <1>2

LEMMA LevelExists ==
    ASSUME NEW m \in Nat
    PROVE  \A n \in Nat : n + 1 < P(m) => \E l \in 0 .. m - 1 : IsLevel(n, l)
<1>. DEFINE Has(k) == \A n \in Nat : n + 1 < P(k) => \E l \in 0 .. k - 1 : IsLevel(n, l)
            S == {k \in Nat : Has(k)}
<1>1. 0 \in S
  <2>1. \A n \in Nat : ~ (n + 1 < 1)
    OBVIOUS
  <2>. QED BY <2>1, PowZero
<1>2. ASSUME NEW k \in Nat, k \in S PROVE k + 1 \in S
  <2>1. P(k + 1) = 2 * P(k) /\ P(k) \in Nat
    BY PowNext, PowPositive
  <2>2. ASSUME NEW n \in Nat, n + 1 < P(k + 1)
        PROVE  \E l \in 0 .. (k + 1) - 1 : IsLevel(n, l)
    <3>1. CASE n + 1 < P(k)
      <4>1. PICK l \in 0 .. k - 1 : IsLevel(n, l)
        BY <1>2, <3>1
      <4>2. l \in 0 .. (k + 1) - 1
        OBVIOUS
      <4>. QED BY <4>1, <4>2
    <3>2. CASE ~ (n + 1 < P(k))
      <4>1. IsLevel(n, k)
        BY <2>1, <2>2, <3>2 DEF IsLevel
      <4>2. k \in 0 .. (k + 1) - 1
        OBVIOUS
      <4>. QED BY <4>1, <4>2
    <3>. QED BY <3>1, <3>2
  <2>. QED BY <2>2
<1>. HIDE DEF S
<1>3. m \in S
  BY <1>1, <1>2, InductionForSet
<1>. QED
  BY <1>3 DEF S

\* Every node has a level, and its exponent says which.
LEMMA NodeHasLevel ==
    ASSUME NEW n \in Nodes
    PROVE  /\ LevelOf(n) \in 0 .. Depth /\ IsLevel(n, LevelOf(n))
           /\ ExponentOf[n] \in Exponents /\ ExponentOf[n] = MaxExp - LevelOf(n)
           /\ n \in NodesOf(ExponentOf[n])
<1>1. n \in Nat /\ n + 1 < 2 * P(Depth) /\ P(Depth + 1) = 2 * P(Depth) /\ Depth + 1 \in Nat
  BY NodesAre, DepthIsNat, PowNext
<1>2. PICK l \in 0 .. (Depth + 1) - 1 : IsLevel(n, l)
  BY <1>1, LevelExists
<1>3. l \in 0 .. Depth
  BY <1>2, DepthIsNat
<1>4. MaxExp - l \in Exponents /\ n \in NodesOf(MaxExp - l)
  BY <1>1, <1>2, <1>3, DepthIsNat, NodesOfLevel
<1>5. ExponentOf[n] = CHOOSE e \in Exponents : n \in NodesOf(e)
  BY DEF ExponentOf
<1>6. ExponentOf[n] \in Exponents /\ n \in NodesOf(ExponentOf[n])
  BY <1>4, <1>5
<1>7. LevelOf(n) \in 0 .. Depth /\ MaxExp - LevelOf(n) = ExponentOf[n]
  BY <1>6, DepthIsNat DEF LevelOf
<1>8. IsLevel(n, LevelOf(n))
  BY <1>1, <1>6, <1>7, NodesOfLevel
<1>. QED
  BY <1>6, <1>7, <1>8

LEMMA LevelIs ==
    ASSUME NEW n \in Nat, NEW l \in 0 .. Depth, IsLevel(n, l)
    PROVE  n \in Nodes /\ LevelOf(n) = l /\ ExponentOf[n] = MaxExp - l
<1>1. n \in Nodes
  BY NodesOfLevel
<1>2. LevelOf(n) \in 0 .. Depth /\ IsLevel(n, LevelOf(n)) /\ ExponentOf[n] = MaxExp - LevelOf(n)
  BY <1>1, NodeHasLevel
<1>3. LevelOf(n) \in Nat /\ l \in Nat
  BY <1>2, DepthIsNat
<1>4. LevelOf(n) = l
  BY <1>2, <1>3, LevelIsUnique
<1>. QED
  BY <1>1, <1>2, <1>4

-----------------------------------------------------------------------------
(***************************************************************************)
(* The ways up from a node, one level at a time.                           *)
(***************************************************************************)
LEMMA UpZero ==
    ASSUME NEW n \in Nat
    PROVE  Up(n, 0) = n
<1>1. P(0) = 1 /\ (n + 1) \div 1 = n + 1
  BY PowZero
<1>. QED
  BY <1>1 DEF Up, P

LEMMA UpNext ==
    ASSUME NEW n \in Nat, NEW d \in Nat
    PROVE  Up(n, d + 1) = Up(Up(n, d), 1)
<1>1. P(d) \in Nat /\ P(d) >= 1 /\ P(d + 1) = 2 * P(d) /\ P(1) = 2
  <2>1. P(0 + 1) = 2 * P(0) /\ 0 + 1 = 1
    BY PowNext
  <2>. QED BY <2>1, PowPositive, PowNext, PowZero
<1>2. (n + 1) \div (2 * P(d)) = ((n + 1) \div P(d)) \div 2
  BY <1>1, DivideTwice
<1>3. (n + 1) \div P(d) \in Nat
  <2>1. n + 1 \in Nat
    OBVIOUS
  <2>. QED BY <1>1, <2>1, Divides
<1>4. Up(n, d) = (n + 1) \div P(d) - 1 /\ Up(n, d + 1) = (n + 1) \div P(d + 1) - 1
      /\ Up(Up(n, d), 1) = (Up(n, d) + 1) \div P(1) - 1
  BY DEF Up, P
<1>5. Up(n, d) + 1 = (n + 1) \div P(d)
  BY <1>3, <1>4
<1>. QED
  BY <1>1, <1>2, <1>4, <1>5

LEMMA UpOne ==
    ASSUME NEW n \in Nat
    PROVE  Up(n, 1) = (n + 1) \div 2 - 1
<1>1. P(1) = 2
  <2>1. P(0 + 1) = 2 * P(0) /\ 0 + 1 = 1
    BY PowNext
  <2>. QED BY <2>1, PowZero
<1>. QED
  BY <1>1 DEF Up, P

LEMMA ParentOf ==
    ASSUME NEW n \in Nodes, LevelOf(n) >= 1
    PROVE  /\ Up(n, 1) \in Nodes /\ LevelOf(Up(n, 1)) = LevelOf(n) - 1
           /\ n = 2 * Up(n, 1) + 1 \/ n = 2 * Up(n, 1) + 2
<1>. DEFINE l == LevelOf(n)
            a == Up(n, 1)
            k == (n + 1) \div 2
<1>1. n \in Nat /\ l \in 0 .. Depth /\ IsLevel(n, l) /\ l \in Nat /\ l - 1 \in Nat
      /\ l - 1 \in 0 .. Depth
  BY NodeHasLevel, NodesAre, DepthIsNat
<1>2. k \in Nat /\ (n + 1) % 2 \in 0 .. 1 /\ n + 1 = 2 * k + ((n + 1) % 2)
  BY <1>1, Divides
<1>3. a = k - 1
  BY <1>1, UpOne
<1>4. P(l) = 2 * P(l - 1) /\ P(l - 1) \in Nat /\ P(l - 1) >= 1
  <2>1. l = (l - 1) + 1
    BY <1>1
  <2>. QED BY <1>1, <2>1, PowNext, PowPositive
<1>5. n = 2 * k \/ n + 1 = 2 * k
  <2>1. PICK b \in 0 .. 1 : n + 1 = 2 * k + b
    BY <1>2
  <2>. QED BY <1>1, <1>2, <2>1
<1>. HIDE DEF k, a, l
<1>6. P(l - 1) <= k /\ k < 2 * P(l - 1)
  BY <1>1, <1>2, <1>4, <1>5 DEF IsLevel
<1>7. a \in Nat /\ IsLevel(a, l - 1)
  BY <1>2, <1>3, <1>4, <1>6 DEF IsLevel
<1>8. a \in Nodes /\ LevelOf(a) = l - 1
  BY <1>1, <1>7, LevelIs
<1>9. n = 2 * a + 1 \/ n = 2 * a + 2
  BY <1>1, <1>2, <1>3, <1>5
<1>. QED
  BY <1>8, <1>9 DEF a, l

LEMMA UpIsNode ==
    ASSUME NEW n \in Nodes, NEW d \in 0 .. LevelOf(n)
    PROVE  Up(n, d) \in Nodes /\ LevelOf(Up(n, d)) = LevelOf(n) - d
<1>. DEFINE l == LevelOf(n)
            S == {i \in Nat : i <= l => Up(n, i) \in Nodes /\ LevelOf(Up(n, i)) = l - i}
<1>1. l \in Nat /\ n \in Nat
  BY NodeHasLevel, NodesAre, DepthIsNat
<1>. HIDE DEF l
<1>2. 0 \in S
  BY <1>1, UpZero DEF l
<1>3. ASSUME NEW i \in Nat, i \in S PROVE i + 1 \in S
  <2>. SUFFICES ASSUME i + 1 <= l
                PROVE  Up(n, i + 1) \in Nodes /\ LevelOf(Up(n, i + 1)) = l - (i + 1)
    OBVIOUS
  <2>1. Up(n, i) \in Nodes /\ LevelOf(Up(n, i)) = l - i
    BY <1>1, <1>3
  <2>2. l - i >= 1 /\ (l - i) - 1 = l - (i + 1)
    BY <1>1
  <2>3. Up(Up(n, i), 1) \in Nodes /\ LevelOf(Up(Up(n, i), 1)) = (l - i) - 1
    BY <2>1, <2>2, ParentOf
  <2>4. Up(n, i + 1) = Up(Up(n, i), 1)
    BY <1>1, UpNext
  <2>. QED BY <2>2, <2>3, <2>4
<1>. HIDE DEF S
<1>4. d \in Nat /\ d <= l
  BY <1>1 DEF l
<1>5. d \in S
  BY <1>2, <1>3, <1>4, InductionForSet
<1>. QED
  BY <1>4, <1>5 DEF S, l

LEMMA UpAgain ==
    ASSUME NEW n \in Nodes, NEW c \in 0 .. LevelOf(n), NEW d \in Nat
    PROVE  Up(Up(n, c), d) = Up(n, c + d)
<1>. DEFINE u == Up(n, c)
            S == {i \in Nat : Up(u, i) = Up(n, c + i)}
<1>1. n \in Nat /\ LevelOf(n) \in Nat
  BY NodeHasLevel, NodesAre, DepthIsNat
<1>2. c \in Nat /\ u \in Nodes
  BY <1>1, UpIsNode
<1>3. u \in Nat
  BY <1>2, NodesAre
<1>. HIDE DEF u
<1>4. 0 \in S
  <2>1. c + 0 = c
    BY <1>2
  <2>. QED BY <1>3, <2>1, UpZero DEF u
<1>5. ASSUME NEW i \in Nat, i \in S PROVE i + 1 \in S
  <2>1. Up(u, i + 1) = Up(Up(u, i), 1)
    BY <1>3, UpNext
  <2>2. Up(n, (c + i) + 1) = Up(Up(n, c + i), 1)
    BY <1>1, <1>2, UpNext
  <2>3. c + (i + 1) = (c + i) + 1
    BY <1>2
  <2>. QED BY <1>5, <2>1, <2>2, <2>3
<1>. HIDE DEF S
<1>6. d \in S
  BY <1>4, <1>5, InductionForSet
<1>. QED
  BY <1>6 DEF S, u

LEMMA AncestorsAre ==
    ASSUME NEW n \in Nodes
    PROVE  /\ Ancestors[n] = {Up(n, d) : d \in 1 .. LevelOf(n)}
           /\ Ancestors[n] \in SUBSET Nodes /\ n \notin Ancestors[n]
           /\ LevelOf(n) \in Nat
<1>1. LevelOf(n) \in Nat
  BY NodeHasLevel, DepthIsNat
<1>2. Ancestors[n] = {Up(n, d) : d \in 1 .. LevelOf(n)}
  BY DEF Ancestors, LevelOf
<1>3. ASSUME NEW a \in Ancestors[n] PROVE a \in Nodes /\ a # n
  <2>1. PICK d \in 1 .. LevelOf(n) : a = Up(n, d)
    BY <1>2
  <2>2. d \in 0 .. LevelOf(n) /\ LevelOf(n) - d # LevelOf(n)
    BY <1>1
  <2>3. a \in Nodes /\ LevelOf(a) = LevelOf(n) - d
    BY <2>1, <2>2, UpIsNode
  <2>. QED BY <2>2, <2>3
<1>. QED
  BY <1>1, <1>2, <1>3

\* Who is above an ancestor is an ancestor.
LEMMA AncestorsOfAncestors ==
    ASSUME NEW n \in Nodes, NEW a \in Ancestors[n]
    PROVE  Ancestors[a] \in SUBSET Ancestors[n]
<1>1. PICK d \in 1 .. LevelOf(n) : a = Up(n, d)
  BY AncestorsAre
<1>2. LevelOf(n) \in Nat /\ d \in 0 .. LevelOf(n)
  BY AncestorsAre
<1>3. a \in Nodes /\ LevelOf(a) = LevelOf(n) - d
  BY <1>1, <1>2, UpIsNode
<1>4. ASSUME NEW b \in Ancestors[a] PROVE b \in Ancestors[n]
  <2>1. PICK c \in 1 .. LevelOf(a) : b = Up(a, c)
    BY <1>3, AncestorsAre
  <2>2. c \in Nat /\ d + c \in 1 .. LevelOf(n)
    BY <1>2, <1>3
  <2>3. b = Up(n, d + c)
    BY <1>1, <1>2, <2>1, <2>2, UpAgain
  <2>. QED BY <2>2, <2>3, AncestorsAre
<1>. QED
  BY <1>4

LEMMA ChildOnTheWay ==
    ASSUME NEW n \in Nodes, NEW d \in 1 .. LevelOf(n), NEW a, a = Up(n, d),
           NEW c, c = Up(n, d - 1)
    PROVE  /\ a \in Nodes /\ c \in Nodes /\ Up(c, 1) = a /\ LevelOf(c) >= 1
           /\ c = 2 * a + 1 \/ c = 2 * a + 2
           /\ c = n \/ c \in Ancestors[n]
<1>1. LevelOf(n) \in Nat /\ n \in Nat
  BY AncestorsAre, NodesAre
<1>2. d - 1 \in Nat /\ d - 1 \in 0 .. LevelOf(n) /\ (d - 1) + 1 = d
  BY <1>1
<1>3. c \in Nodes /\ LevelOf(c) = LevelOf(n) - (d - 1)
  BY <1>2, UpIsNode
<1>4. LevelOf(c) >= 1
  BY <1>1, <1>3
<1>5. Up(c, 1) = a
  BY <1>1, <1>2, UpNext
<1>6. c = n \/ c \in Ancestors[n]
  <2>1. CASE d = 1
    BY <1>1, <2>1, UpZero
  <2>2. CASE d # 1
    <3>1. d - 1 \in 1 .. LevelOf(n)
      BY <1>1, <2>2
    <3>. QED BY <3>1, AncestorsAre
  <2>. QED BY <2>1, <2>2
<1>. QED
  BY <1>3, <1>4, <1>5, <1>6, ParentOf

\* The two children of a node that is not a leaf.
LEMMA ChildrenOf ==
    ASSUME NEW a \in Nodes, 2 * a + 1 \in Nodes \/ 2 * a + 2 \in Nodes,
           NEW c, c = 2 * a + 1 \/ c = 2 * a + 2
    PROVE  /\ 2 * a + 2 \in Nodes
           /\ c \in Nodes /\ Up(c, 1) = a /\ LevelOf(c) = LevelOf(a) + 1
           /\ Ancestors[c] = {a} \cup Ancestors[a]
<1>1. a \in Nat /\ P(Depth) \in Nat /\ Nodes = 0 .. 2 * P(Depth) - 2
  BY NodesAre
<1>2. 2 * a + 1 \in Nodes /\ 2 * a + 2 \in Nodes
  BY <1>1
<1>3. c \in Nodes /\ c \in Nat
  BY <1>1, <1>2
<1>4. (c + 1) \div 2 = a + 1
  <2>1. c + 1 \in Nat /\ a + 1 \in Nat /\ 2 * (a + 1) <= c + 1 /\ c + 1 < 2 * (a + 1) + 2
    BY <1>1
  <2>. QED BY <2>1, DivisionIs
<1>5. Up(c, 1) = a
  <2>1. Up(c, 1) = (c + 1) \div 2 - 1
    BY <1>3, UpOne
  <2>2. (c + 1) \div 2 - 1 = (a + 1) - 1
    BY <1>4
  <2>3. (a + 1) - 1 = a
    BY <1>1
  <2>. QED BY <2>1, <2>2, <2>3
<1>6. LevelOf(a) \in 0 .. Depth /\ IsLevel(a, LevelOf(a)) /\ LevelOf(a) \in Nat
  BY NodeHasLevel, DepthIsNat
<1>7. LevelOf(c) \in Nat /\ LevelOf(c) # 0
  <2>1. LevelOf(c) \in 0 .. Depth /\ IsLevel(c, LevelOf(c)) /\ LevelOf(c) \in Nat
    BY <1>3, NodeHasLevel, DepthIsNat
  <2>2. ~ IsLevel(c, 0)
    BY <1>1, <1>3, PowZero DEF IsLevel
  <2>. QED BY <2>1, <2>2
<1>8. LevelOf(c) = LevelOf(a) + 1
  <2>1. LevelOf(c) >= 1
    BY <1>7
  <2>2. LevelOf(Up(c, 1)) = LevelOf(c) - 1
    BY <1>3, <2>1, ParentOf
  <2>. QED BY <1>5, <1>6, <1>7, <2>2
<1>9. Ancestors[c] = {Up(c, d) : d \in 1 .. LevelOf(c)}
      /\ Ancestors[a] = {Up(a, d) : d \in 1 .. LevelOf(a)}
  BY <1>3, AncestorsAre
<1>10. ASSUME NEW d \in Nat PROVE Up(a, d) = Up(c, d + 1)
  <2>1. 1 \in 0 .. LevelOf(c) /\ 1 + d = d + 1
    BY <1>7
  <2>. QED BY <1>3, <1>5, <2>1, UpAgain
<1>11. ASSUME NEW b \in Ancestors[c] PROVE b \in {a} \cup Ancestors[a]
  <2>1. PICK d \in 1 .. LevelOf(c) : b = Up(c, d)
    BY <1>9
  <2>2. CASE d = 1
    BY <1>5, <2>1, <2>2
  <2>3. CASE d # 1
    <3>1. d - 1 \in 1 .. LevelOf(a) /\ d - 1 \in Nat /\ (d - 1) + 1 = d
      BY <1>6, <1>8, <2>3
    <3>2. b = Up(a, d - 1)
      BY <1>10, <2>1, <3>1
    <3>. QED BY <1>9, <3>1, <3>2
  <2>. QED BY <2>2, <2>3
<1>12. ASSUME NEW b \in {a} \cup Ancestors[a] PROVE b \in Ancestors[c]
  <2>1. CASE b = a
    <3>1. 1 \in 1 .. LevelOf(c)
      BY <1>7
    <3>. QED BY <1>5, <1>9, <2>1, <3>1
  <2>2. CASE b \in Ancestors[a]
    <3>1. PICK d \in 1 .. LevelOf(a) : b = Up(a, d)
      BY <1>9, <2>2
    <3>2. d \in Nat /\ d + 1 \in 1 .. LevelOf(c)
      BY <1>6, <1>8
    <3>3. b = Up(c, d + 1)
      BY <1>10, <3>1, <3>2
    <3>. QED BY <1>9, <3>2, <3>3
  <2>. QED BY <2>1, <2>2
<1>. QED
  BY <1>2, <1>3, <1>5, <1>8, <1>11, <1>12

LEMMA BuddyOf ==
    ASSUME NEW n \in Nodes, LevelOf(n) >= 1, NEW a, a = Up(n, 1), NEW b, b = Buddy(n)
    PROVE  /\ a \in Nodes /\ b \in Nodes /\ b # n /\ 2 * a + 2 \in Nodes
           /\ {n, b} = {2 * a + 1, 2 * a + 2}
<1>1. a \in Nodes /\ (n = 2 * a + 1 \/ n = 2 * a + 2)
  BY ParentOf
<1>2. a \in Nat /\ n \in Nat
  BY <1>1, NodesAre
<1>3. b = IF n % 2 = 0 THEN n - 1 ELSE n + 1
  BY DEF Buddy
<1>4. CASE n = 2 * a + 1
  <2>1. n % 2 = 1
    BY <1>2, <1>4
  <2>2. b = 2 * a + 2
    BY <1>2, <1>3, <1>4, <2>1
  <2>3. b \in Nodes
    BY <1>1, <1>4, <2>2, ChildrenOf
  <2>. QED BY <1>1, <1>2, <1>4, <2>2, <2>3
<1>5. CASE n = 2 * a + 2
  <2>1. n % 2 = 0
    BY <1>2, <1>5
  <2>2. b = 2 * a + 1
    BY <1>2, <1>3, <1>5, <2>1
  <2>3. b \in Nodes
    BY <1>1, <1>5, <2>2, ChildrenOf
  <2>. QED BY <1>1, <1>2, <1>5, <2>2, <2>3
<1>. QED
  BY <1>1, <1>4, <1>5

\* Where the way up from m meets that from n: at an ancestor of n that is m, or
\* that m reaches through the other child.
Meets(m, n, x) ==
    \E y \in 1 .. x : \/ m = Up(n, y)
                      \/ m = Buddy(Up(n, y - 1)) \/ Buddy(Up(n, y - 1)) \in Ancestors[m]

LEMMA WaysMeet ==
    ASSUME NEW m \in Nodes, NEW n \in Nodes, m # n, n \notin Ancestors[m],
           NEW x \in 1 .. LevelOf(n), m = Up(n, x) \/ Up(n, x) \in Ancestors[m]
    PROVE  Meets(m, n, x)
<1>. DEFINE joins == {y \in 1 .. x : m = Up(n, y) \/ Up(n, y) \in Ancestors[m]}
<1>1. LevelOf(n) \in Nat /\ x \in Nat /\ x \in joins
  BY AncestorsAre
<1>2. PICK y : y \in joins /\ \A z \in joins : y <= z
  <2>1. joins \in SUBSET Nat /\ joins # {}
    BY <1>1
  <2>. HIDE DEF joins
  <2>. QED BY <2>1, MinProperty
<1>3. y \in 1 .. x /\ (m = Up(n, y) \/ Up(n, y) \in Ancestors[m])
  BY <1>2
<1>4. CASE m = Up(n, y)
  BY <1>3, <1>4 DEF Meets
<1>5. CASE Up(n, y) \in Ancestors[m]
  <2>. DEFINE a == Up(n, y)
              k == Up(n, y - 1)
  <2>1. y \in 1 .. LevelOf(n)
    BY <1>1, <1>3
  <2>2. /\ a \in Nodes /\ k \in Nodes /\ Up(k, 1) = a /\ LevelOf(k) >= 1
        /\ k = 2 * a + 1 \/ k = 2 * a + 2
        /\ k = n \/ k \in Ancestors[n]
    BY <2>1, ChildOnTheWay
  <2>3. PICK d \in 1 .. LevelOf(m) : a = Up(m, d)
    BY <1>5, AncestorsAre
  <2>4. PICK c : c = Up(m, d - 1)
    OBVIOUS
  <2>5. /\ c = 2 * a + 1 \/ c = 2 * a + 2
        /\ c = m \/ c \in Ancestors[m]
    BY <2>3, <2>4, ChildOnTheWay
  <2>6. {k, Buddy(k)} = {2 * a + 1, 2 * a + 2}
    BY <2>2, BuddyOf
  <2>7. c # k
    <3>1. CASE y = 1
      <4>1. k = n
        BY <3>1, NodesAre, UpZero
      <4>. QED BY <2>5, <4>1
    <3>2. CASE y # 1
      <4>1. y - 1 \in 1 .. x /\ ~ (y <= y - 1)
        BY <1>1, <1>3, <3>2
      <4>2. y - 1 \notin joins
        BY <1>2, <4>1
      <4>3. m # k /\ k \notin Ancestors[m]
        BY <4>1, <4>2
      <4>. QED BY <2>5, <4>3
    <3>. QED BY <3>1, <3>2
  <2>8. c = Buddy(k)
    BY <2>5, <2>6, <2>7
  <2>. QED BY <1>3, <2>5, <2>8 DEF Meets
<1>. QED
  BY <1>3, <1>4, <1>5

LEMMA MaxProperty ==
    ASSUME NEW S \in SUBSET Nat, S # {}, NEW b \in Nat, \A x \in S : x <= b
    PROVE  Max(S) \in S /\ \A x \in S : x <= Max(S)
<1>. DEFINE D == {d \in Nat : b - d \in S}
<1>1. PICK s \in S : TRUE
  OBVIOUS
<1>2. D \in SUBSET Nat /\ b - s \in D
  OBVIOUS
<1>3. PICK d : d \in D /\ \A x \in D : d <= x
  BY <1>2, MinProperty
<1>4. ASSUME NEW x \in S PROVE x <= b - d
  <2>1. b - x \in D
    OBVIOUS
  <2>2. d <= b - x /\ d \in Nat /\ x \in Nat
    BY <1>3, <2>1
  <2>. QED BY <2>2
<1>5. b - d \in S /\ \A x \in S : b - d >= x
  <2>1. b - d \in S
    BY <1>3
  <2>2. ASSUME NEW x \in S PROVE b - d >= x
    BY <1>4, <2>1
  <2>. QED BY <2>1, <2>2
<1>6. Max(S) \in S /\ \A x \in S : Max(S) >= x
  BY <1>5 DEF Max
<1>. QED
  BY <1>6

-----------------------------------------------------------------------------
(***************************************************************************)
(* What the two operations find, and what they leave in the tree.          *)
(***************************************************************************)
TreeType == tree \in [Nodes -> States]

\* n is taken: it and what is above it.
Takes(n) ==
    /\ tree[n] = "FREE" /\ \A a \in Ancestors[n] : tree[a] # "USED"
    /\ tree' = [m \in Nodes |-> IF m = n THEN "USED"
                                ELSE IF m \in Ancestors[n] THEN "SPLIT" ELSE tree[m]]
    /\ used' = used + P(ExponentOf[n])

\* n is given back, and what setMerge frees with it.
GivesBack(n) ==
    /\ tree[n] = "USED"
    /\ tree' = [m \in Nodes |-> IF m = n \/ m \in Merged(n) THEN "FREE" ELSE tree[m]]
    /\ used' = used - P(ExponentOf[n] - 1)

LEMMA RequestHasNode ==
    ASSUME NEW size \in Requests, ValidRequest(size)
    PROVE  ExponentFor(size) \in Exponents /\ size <= P(ExponentFor(size))
<1>. DEFINE S == {e \in Exponents : size <= 2 ^ e}
<1>1. size \in Nat /\ size <= LARGEST /\ LARGEST \in Nat /\ LARGEST < P(MaxExp)
  BY BuddyAssumption DEF ValidRequest, P
<1>2. MaxExp \in Exponents /\ P(MaxExp) \in Nat /\ Exponents \in SUBSET Nat
  BY DepthIsNat, PowPositive DEF Exponents
<1>3. MaxExp \in S
  BY <1>1, <1>2 DEF P
<1>4. S \in SUBSET Nat /\ S # {}
  BY <1>2, <1>3
<1>. HIDE DEF S
<1>5. Min(S) \in S
  BY <1>4, MinProperty
<1>6. ExponentFor(size) = Min(S)
  BY DEF ExponentFor, S
<1>. QED
  BY <1>5, <1>6 DEF S, P

LEMMA ExponentIs ==
    ASSUME NEW e \in Exponents, NEW n \in NodesOf(e)
    PROVE  n \in Nodes /\ ExponentOf[n] = e
<1>. DEFINE l == MaxExp - e
<1>1. l \in 0 .. Depth /\ MaxExp - l = e
  BY DepthIsNat
<1>. HIDE DEF l
<1>2. n \in Nodes /\ n \in Nat
  BY <1>1, NodesOfLevel, NodesAre
<1>3. IsLevel(n, l)
  BY <1>1, <1>2, NodesOfLevel
<1>. QED
  BY <1>1, <1>2, <1>3, LevelIs

LEMMA AllocTakes ==
    ASSUME NEW size \in Requests, BuddyAllocServes(size)
    PROVE  /\ size # 0
           /\ \E n \in Nodes : Takes(n) /\ size <= P(ExponentOf[n])
                /\ buddyCall' = [op |-> "alloc", arg |-> size,
                                 ret |-> IF OffsetOf(n, ExponentOf[n]) < ManagedSize
                                         THEN OffsetOf(n, ExponentOf[n]) ELSE NO_BLOCK]
<1>. DEFINE e == ExponentFor(size)
            n == Min(FreeNodes(e))
<1>1. ValidRequest(size) /\ FreeNodes(e) # {}
  BY DEF BuddyAllocServes
<1>2. e \in Exponents /\ size <= P(e)
  BY <1>1, RequestHasNode
<1>3. /\ tree' = [m \in Nodes |-> IF m = n THEN "USED"
                                  ELSE IF m \in Ancestors[n] THEN "SPLIT" ELSE tree[m]]
      /\ used' = used + P(e)
      /\ buddyCall' = [op |-> "alloc", arg |-> size,
                       ret |-> IF OffsetOf(n, e) < ManagedSize THEN OffsetOf(n, e) ELSE NO_BLOCK]
  BY DEF BuddyAllocServes, P
<1>. HIDE DEF e
<1>4. FreeNodes(e) \in SUBSET Nat
  <2>1. NodesOf(e) \in SUBSET Nodes
    BY <1>2, ExponentIs
  <2>. QED BY <2>1, NodesAre DEF FreeNodes
<1>5. n \in FreeNodes(e)
  BY <1>1, <1>4, MinProperty
<1>. HIDE DEF n
<1>6. n \in NodesOf(e) /\ tree[n] = "FREE" /\ \A a \in Ancestors[n] : tree[a] # "USED"
  BY <1>5 DEF FreeNodes
<1>7. n \in Nodes /\ ExponentOf[n] = e
  BY <1>2, <1>6, ExponentIs
<1>8. Takes(n)
  BY <1>3, <1>6, <1>7 DEF Takes
<1>9. size # 0
  BY <1>1 DEF ValidRequest
<1>. QED
  BY <1>2, <1>3, <1>7, <1>8, <1>9

\* The node of 2^e bytes at an offset.
LEMMA NodeAtOffset ==
    ASSUME NEW e \in Exponents, NEW p \in Nat, p < P(MaxExp)
    PROVE  NodeAt(p, e) \in NodesOf(e)
<1>. DEFINE l == MaxExp - e
            q == p \div P(e)
<1>1. l \in 0 .. Depth /\ MaxExp - l = e /\ e \in Nat /\ l \in Nat /\ e + l = MaxExp
  BY DepthIsNat
<1>2. P(e) \in Nat /\ P(e) >= 1 /\ P(l) \in Nat /\ P(l) >= 1 /\ P(MaxExp) = P(e) * P(l)
  BY <1>1, PowPositive, PowSum
<1>3. q \in Nat /\ p % P(e) \in 0 .. P(e) - 1 /\ p = P(e) * q + (p % P(e))
  BY <1>2, Divides
<1>. HIDE DEF q, l
<1>4. ~ (P(l) <= q)
  <2>. SUFFICES ASSUME P(l) <= q PROVE FALSE
    OBVIOUS
  <2>1. P(l) * P(e) <= q * P(e)
    BY <1>2, <1>3, TimesMonotone
  <2>2. P(l) * P(e) = P(MaxExp) /\ q * P(e) = P(e) * q /\ P(e) * q \in Nat
        /\ P(MaxExp) \in Nat
    BY <1>2, <1>3
  <2>3. P(e) * q <= p
    BY <1>3, <2>2
  <2>. QED BY <2>1, <2>2, <2>3
<1>5. NodeAt(p, e) = q + (P(l) - 1)
  BY <1>1, NodesOfLevel DEF NodeAt, q, P
<1>6. q + (P(l) - 1) \in Nat /\ IsLevel(q + (P(l) - 1), l)
  BY <1>2, <1>3, <1>4 DEF IsLevel
<1>. QED
  BY <1>1, <1>5, <1>6, NodesOfLevel

\* A node is where its offset leads.
LEMMA OffsetOfNode ==
    ASSUME NEW n \in Nodes
    PROVE  /\ OffsetOf(n, ExponentOf[n]) \in Nat
           /\ OffsetOf(n, ExponentOf[n]) % P(ExponentOf[n]) = 0
           /\ NodeAt(OffsetOf(n, ExponentOf[n]), ExponentOf[n]) = n
<1>. DEFINE e == ExponentOf[n]
            l == LevelOf(n)
            i == n - (P(l) - 1)
<1>1. l \in 0 .. Depth /\ IsLevel(n, l) /\ e \in Exponents /\ e = MaxExp - l /\ n \in Nat
      /\ e \in Nat /\ l \in Nat
  BY NodeHasLevel, NodesAre, DepthIsNat
<1>2. P(e) \in Nat /\ P(e) >= 1 /\ P(l) \in Nat /\ P(l) >= 1
  BY <1>1, PowPositive
<1>3. FirstNode(e) = P(l) - 1
  BY <1>1, NodesOfLevel
<1>4. i \in Nat
  BY <1>1, <1>2 DEF IsLevel
<1>5. OffsetOf(n, e) = i * P(e)
  BY <1>3 DEF OffsetOf, P
<1>6. (i * P(e)) \div P(e) = i /\ (i * P(e)) % P(e) = 0
  BY <1>2, <1>4, MultipleDivides
<1>7. NodeAt(i * P(e), e) = i + (P(l) - 1)
  BY <1>3, <1>6 DEF NodeAt, P
<1>8. i + (P(l) - 1) = n
  BY <1>1, <1>2
<1>9. i * P(e) \in Nat
  BY <1>2, <1>4
<1>. QED
  BY <1>5, <1>6, <1>7, <1>8, <1>9

LEMMA FreesGiveBack ==
    ASSUME NEW ptr \in Held, BuddyFrees(ptr)
    PROVE  \E n \in Nodes : GivesBack(n) /\ ptr = OffsetOf(n, ExponentOf[n])
<1>. DEFINE S == {e \in Exponents : ptr % 2 ^ e = 0 /\ tree[NodeAt(ptr, e)] = "USED"}
            e == UsedAt(ptr)
            n == NodeAt(ptr, e)
<1>1. PICK m \in Nodes : tree[m] = "USED" /\ ptr = OffsetOf(m, ExponentOf[m])
  BY DEF Held
<1>2. ptr \in 0 .. ManagedSize - 1
  BY DEF Held
<1>3. ptr \in Nat /\ ptr < P(MaxExp)
  <2>1. ManagedSize \in 1 .. P(MaxExp) /\ P(MaxExp) \in Nat
    BY BuddyAssumption, DepthIsNat, PowPositive DEF P
  <2>. QED BY <1>2, <2>1
<1>4. ExponentOf[m] \in S
  BY <1>1, OffsetOfNode, NodeHasLevel DEF P
<1>5. S \in SUBSET Nat /\ \A x \in S : x <= MaxExp
  BY DepthIsNat DEF Exponents
<1>. HIDE DEF S
<1>6. Max(S) \in S
  BY <1>4, <1>5, DepthIsNat, MaxProperty
<1>7. e \in Exponents /\ tree[n] = "USED" /\ ptr % P(e) = 0
  BY <1>6 DEF S, UsedAt, P
<1>8. n \in Nodes /\ ExponentOf[n] = e
  BY <1>3, <1>7, NodeAtOffset, ExponentIs
<1>9. /\ tree' = [x \in Nodes |-> IF x = n \/ x \in Merged(n) THEN "FREE" ELSE tree[x]]
      /\ used' = used - P(e - 1)
  BY DEF BuddyFrees, Reported, P
<1>10. OffsetOf(n, e) = ptr
  <2>1. e \in Nat
    BY <1>7, DepthIsNat
  <2>2. P(e) \in Nat /\ P(e) >= 1
    BY <2>1, PowPositive
  <2>3. ptr \div P(e) \in Nat /\ ptr = P(e) * (ptr \div P(e)) + (ptr % P(e))
    BY <1>3, <2>2, Divides
  <2>4. FirstNode(e) \in Int
    <3>1. MaxExp - e \in 0 .. Depth /\ MaxExp - (MaxExp - e) = e
      BY <1>7, DepthIsNat
    <3>2. FirstNode(e) = P(MaxExp - e) - 1 /\ P(MaxExp - e) \in Nat
      BY <3>1, NodesOfLevel, PowPositive
    <3>. QED BY <3>2
  <2>5. n = (ptr \div P(e)) + FirstNode(e)
    BY DEF NodeAt, P
  <2>. HIDE DEF n, e
  <2>6. n - FirstNode(e) = ptr \div P(e)
    BY <2>3, <2>4, <2>5
  <2>7. OffsetOf(n, e) = (ptr \div P(e)) * P(e)
    BY <2>6 DEF OffsetOf, P
  <2>. QED BY <1>7, <2>2, <2>3, <2>7
<1>. QED
  BY <1>7, <1>8, <1>9, <1>10 DEF GivesBack

-----------------------------------------------------------------------------
(***************************************************************************)
(* The tree stays merged.                                                  *)
(***************************************************************************)
LEMMA MergedAre ==
    ASSUME NEW n \in Nodes
    PROVE  /\ Merged(n) =
                {Up(n, d) : d \in {x \in 1 .. LevelOf(n) :
                    \A y \in 1 .. x : tree[Buddy(Up(n, y - 1))] = "FREE" /\ tree[Up(n, y)] = "SPLIT"}}
           /\ \A a \in Merged(n) : a \in Ancestors[n] /\ tree[a] = "SPLIT"
<1>1. Merged(n) =
        {Up(n, d) : d \in {x \in 1 .. LevelOf(n) :
            \A y \in 1 .. x : tree[Buddy(Up(n, y - 1))] = "FREE" /\ tree[Up(n, y)] = "SPLIT"}}
  BY DEF Merged, LevelOf
<1>2. ASSUME NEW a \in Merged(n) PROVE a \in Ancestors[n] /\ tree[a] = "SPLIT"
  <2>1. PICK x \in 1 .. LevelOf(n) : a = Up(n, x) /\ \A y \in 1 .. x : tree[Up(n, y)] = "SPLIT"
    BY <1>1
  <2>2. x \in 1 .. x
    BY AncestorsAre
  <2>. QED BY <2>1, <2>2, AncestorsAre
<1>. QED
  BY <1>1, <1>2

\* What is used or split is not below anything that is merged, except n and
\* what is merged itself.
LEMMA NothingBelowMerged ==
    ASSUME TreeType, TreeIsMerged, NEW n \in Nodes, tree[n] = "USED",
           NEW m \in Nodes, m # n, m \notin Merged(n), tree[m] # "FREE",
           NEW a \in {n} \cup Merged(n)
    PROVE  a \notin Ancestors[m]
<1>. SUFFICES ASSUME a \in Ancestors[m] PROVE FALSE
  OBVIOUS
<1>1. \A b \in Ancestors[m] : tree[b] = "SPLIT"
  BY DEF TreeIsMerged, TreeType, States
<1>2. n \notin Ancestors[m]
  BY <1>1
<1>3. PICK x \in 1 .. LevelOf(n) :
        /\ a = Up(n, x)
        /\ \A y \in 1 .. x : tree[Buddy(Up(n, y - 1))] = "FREE" /\ tree[Up(n, y)] = "SPLIT"
  BY <1>2, MergedAre
<1>4. Meets(m, n, x)
  BY <1>2, <1>3, WaysMeet
<1>5. PICK y \in 1 .. x : \/ m = Up(n, y)
                          \/ m = Buddy(Up(n, y - 1)) \/ Buddy(Up(n, y - 1)) \in Ancestors[m]
  BY <1>4 DEF Meets
<1>6. CASE m = Up(n, y)
  <2>1. y \in 1 .. LevelOf(n) /\ \A z \in 1 .. y : z \in 1 .. x
    BY AncestorsAre
  <2>2. m \in Merged(n)
    BY <1>3, <1>6, <2>1, MergedAre
  <2>. QED BY <2>2
<1>7. CASE m = Buddy(Up(n, y - 1)) \/ Buddy(Up(n, y - 1)) \in Ancestors[m]
  BY <1>1, <1>3, <1>7
<1>. QED
  BY <1>5, <1>6, <1>7

LEMMA TakeKeepsMerged ==
    ASSUME TreeType, TreeIsMerged, NEW n \in Nodes, Takes(n)
    PROVE  TreeType' /\ TreeIsMerged'
<1>1. /\ tree[n] = "FREE" /\ \A a \in Ancestors[n] : tree[a] # "USED"
      /\ \A m \in Nodes : tree'[m] = IF m = n THEN "USED"
                                     ELSE IF m \in Ancestors[n] THEN "SPLIT" ELSE tree[m]
  BY DEF Takes
<1>2. TreeType'
  BY DEF TreeType, Takes, States
<1>3. n \notin Ancestors[n] /\ \A a \in Ancestors[n] : a \in Nodes
  BY AncestorsAre
<1>4. ASSUME NEW m \in Nodes, tree'[m] # "FREE" PROVE \A a \in Ancestors[m] : tree'[a] = "SPLIT"
  <2>1. \A a \in Ancestors[m] : a \in Nodes
    BY AncestorsAre
  <2>2. CASE m = n \/ m \in Ancestors[n]
    <3>1. \A a \in Ancestors[m] : a \in Ancestors[n]
      BY <2>2, AncestorsOfAncestors
    <3>. QED BY <1>1, <1>3, <2>1, <3>1
  <2>3. CASE m # n /\ m \notin Ancestors[n]
    <3>1. tree[m] # "FREE"
      BY <1>1, <1>4, <2>3
    <3>2. \A a \in Ancestors[m] : tree[a] = "SPLIT"
      BY <3>1 DEF TreeIsMerged, TreeType, States
    <3>. QED BY <1>1, <2>1, <3>2
  <2>. QED BY <2>2, <2>3
<1>5. ASSUME NEW m \in Nodes, tree'[m] = "SPLIT"
      PROVE  2 * m + 2 \in Nodes /\ ~ (tree'[2 * m + 1] = "FREE" /\ tree'[2 * m + 2] = "FREE")
  <2>1. CASE m \in Ancestors[n]
    <3>1. PICK d \in 1 .. LevelOf(n) : m = Up(n, d)
      BY <2>1, AncestorsAre
    <3>2. PICK c : c = Up(n, d - 1)
      OBVIOUS
    <3>3. /\ c \in Nodes /\ (c = 2 * m + 1 \/ c = 2 * m + 2)
          /\ c = n \/ c \in Ancestors[n]
      BY <3>1, <3>2, ChildOnTheWay
    <3>4. tree'[c] # "FREE"
      BY <1>1, <3>3
    <3>5. 2 * m + 2 \in Nodes
      BY <3>3, ChildrenOf
    <3>. QED BY <3>3, <3>4, <3>5
  <2>2. CASE m \notin Ancestors[n]
    <3>1. tree[m] = "SPLIT"
      BY <1>1, <1>5, <2>2
    <3>2. 2 * m + 2 \in Nodes /\ ~ (tree[2 * m + 1] = "FREE" /\ tree[2 * m + 2] = "FREE")
      BY <3>1 DEF TreeIsMerged
    <3>3. ASSUME NEW c, c = 2 * m + 1 \/ c = 2 * m + 2, tree'[c] = "FREE"
          PROVE  tree[c] = "FREE"
      <4>1. c \in Nodes
        BY <3>2, <3>3, ChildrenOf
      <4>. QED BY <1>1, <3>3, <4>1
    <3>. QED BY <3>2, <3>3
  <2>. QED BY <2>1, <2>2
<1>. QED
  BY <1>2, <1>4, <1>5 DEF TreeIsMerged

LEMMA GiveKeepsMerged ==
    ASSUME TreeType, TreeIsMerged, NEW n \in Nodes, GivesBack(n)
    PROVE  TreeType' /\ TreeIsMerged'
<1>1. /\ tree[n] = "USED"
      /\ \A m \in Nodes : tree'[m] = IF m = n \/ m \in Merged(n) THEN "FREE" ELSE tree[m]
  BY DEF GivesBack
<1>2. TreeType'
  BY DEF TreeType, GivesBack, States
<1>3. ASSUME NEW m \in Nodes, tree'[m] # "FREE" PROVE \A a \in Ancestors[m] : tree'[a] = "SPLIT"
  <2>1. \A a \in Ancestors[m] : a \in Nodes
    BY AncestorsAre
  <2>2. m # n /\ m \notin Merged(n) /\ tree[m] # "FREE"
    BY <1>1, <1>3
  <2>3. \A a \in Ancestors[m] : tree[a] = "SPLIT"
    BY <2>2 DEF TreeIsMerged, TreeType, States
  <2>4. \A a \in {n} \cup Merged(n) : a \notin Ancestors[m]
    BY <1>1, <2>2, NothingBelowMerged
  <2>. QED BY <1>1, <2>1, <2>3, <2>4
<1>4. ASSUME NEW m \in Nodes, tree'[m] = "SPLIT"
      PROVE  2 * m + 2 \in Nodes /\ ~ (tree'[2 * m + 1] = "FREE" /\ tree'[2 * m + 2] = "FREE")
  <2>1. tree[m] = "SPLIT" /\ m # n /\ m \notin Merged(n)
    BY <1>1, <1>4
  <2>2. 2 * m + 2 \in Nodes /\ ~ (tree[2 * m + 1] = "FREE" /\ tree[2 * m + 2] = "FREE")
    BY <2>1 DEF TreeIsMerged
  <2>3. ASSUME NEW c, c = 2 * m + 1 \/ c = 2 * m + 2
        PROVE  /\ c \in Nodes /\ Up(c, 1) = m /\ LevelOf(c) = LevelOf(m) + 1
               /\ m \in Ancestors[c] /\ LevelOf(c) >= 1
    <3>1. /\ c \in Nodes /\ Up(c, 1) = m /\ LevelOf(c) = LevelOf(m) + 1 /\ m \in Ancestors[c]
      BY <2>2, <2>3, ChildrenOf
    <3>2. LevelOf(m) \in Nat
      BY AncestorsAre
    <3>. QED BY <3>1, <3>2
  \* Of two children that are free afterwards one was not before: it is on the way.
  <2>4. SUFFICES ASSUME tree'[2 * m + 1] = "FREE", tree'[2 * m + 2] = "FREE" PROVE FALSE
    BY <2>2
  <2>5. PICK c : (c = 2 * m + 1 \/ c = 2 * m + 2) /\ tree[c] # "FREE" /\ tree'[c] = "FREE"
    BY <2>2, <2>4
  <2>6. c \in Nodes /\ Up(c, 1) = m /\ LevelOf(c) >= 1 /\ (c = n \/ c \in Merged(n))
    BY <1>1, <2>3, <2>5
  <2>7. PICK x \in 0 .. LevelOf(n) :
          /\ c = Up(n, x)
          /\ \A y \in 1 .. x : tree[Buddy(Up(n, y - 1))] = "FREE" /\ tree[Up(n, y)] = "SPLIT"
    <3>1. CASE c = n
      <4>1. 0 \in 0 .. LevelOf(n) /\ c = Up(n, 0) /\ 1 .. 0 = {}
        BY <3>1, AncestorsAre, NodesAre, UpZero
      <4>. QED BY <4>1
    <3>2. CASE c \in Merged(n)
      <4>1. PICK d \in 1 .. LevelOf(n) :
              /\ c = Up(n, d)
              /\ \A y \in 1 .. d : tree[Buddy(Up(n, y - 1))] = "FREE" /\ tree[Up(n, y)] = "SPLIT"
        BY <3>2, MergedAre
      <4>2. d \in 0 .. LevelOf(n)
        BY AncestorsAre
      <4>. QED BY <4>1, <4>2
    <3>. QED BY <2>6, <3>1, <3>2
  <2>8. LevelOf(n) \in Nat /\ n \in Nat /\ LevelOf(c) = LevelOf(n) - x /\ x \in Nat
    BY <2>7, AncestorsAre, NodesAre, UpIsNode
  <2>9. x + 1 \in 1 .. LevelOf(n) /\ Up(n, x + 1) = m /\ (x + 1) - 1 = x
    BY <2>6, <2>7, <2>8, UpNext
  \* Its buddy is not on the way, so it was free before.
  <2>. DEFINE b == Buddy(c)
  <2>10. b \in Nodes /\ b # c /\ (b = 2 * m + 1 \/ b = 2 * m + 2)
    BY <2>6, BuddyOf
  <2>11. tree'[b] = "FREE" /\ LevelOf(b) = LevelOf(c)
    BY <2>3, <2>4, <2>5, <2>10
  <2>. HIDE DEF b
  <2>12. ASSUME b = n \/ b \in Merged(n) PROVE FALSE
    <3>1. PICK d \in 0 .. LevelOf(n) : b = Up(n, d)
      <4>1. CASE b = n
        <5>1. 0 \in 0 .. LevelOf(n) /\ b = Up(n, 0)
          BY <2>8, <4>1, UpZero
        <5>. QED BY <5>1
      <4>2. CASE b \in Merged(n)
        <5>1. PICK d \in 1 .. LevelOf(n) : b = Up(n, d)
          BY <4>2, MergedAre
        <5>2. d \in 0 .. LevelOf(n)
          BY <2>8
        <5>. QED BY <5>1, <5>2
      <4>. QED BY <2>12, <4>1, <4>2
    <3>2. LevelOf(b) = LevelOf(n) - d
      BY <3>1, UpIsNode
    <3>3. d = x
      BY <2>8, <2>11, <3>2
    <3>. QED BY <2>7, <2>10, <3>1, <3>3
  <2>13. tree[b] = "FREE"
    BY <1>1, <2>10, <2>11, <2>12
  <2>14. ASSUME NEW y \in 1 .. x + 1
         PROVE  tree[Buddy(Up(n, y - 1))] = "FREE" /\ tree[Up(n, y)] = "SPLIT"
    <3>1. CASE y = x + 1
      BY <2>1, <2>7, <2>9, <2>13, <3>1 DEF b
    <3>2. CASE y # x + 1
      <4>1. y \in 1 .. x
        BY <2>8, <3>2
      <4>. QED BY <2>7, <4>1
    <3>. QED BY <3>1, <3>2
  <2>15. m \in Merged(n)
    BY <2>9, <2>14, MergedAre
  <2>. QED BY <2>1, <2>15
<1>. QED
  BY <1>2, <1>3, <1>4 DEF TreeIsMerged

LEMMA MergedAtFirst == BuddyInit => TreeType /\ TreeIsMerged
BY DEF BuddyInit, TreeType, States, TreeIsMerged

LEMMA BuddySteps ==
    ASSUME [BuddyNext]_buddyVars
    PROVE  \/ \E n \in Nodes : Takes(n) \/ GivesBack(n)
           \/ UNCHANGED << tree, used >>
<1>1. ASSUME NEW size \in Requests, BuddyAllocServes(size) PROVE \E n \in Nodes : Takes(n)
  BY <1>1, AllocTakes
<1>2. ASSUME NEW size \in Requests, BuddyAllocFails(size) PROVE UNCHANGED << tree, used >>
  BY <1>2 DEF BuddyAllocFails
<1>3. ASSUME NEW ptr \in Held, BuddyFrees(ptr) PROVE \E n \in Nodes : GivesBack(n)
  BY <1>3, FreesGiveBack
<1>4. BuddyFreesNull \/ UNCHANGED buddyVars => UNCHANGED << tree, used >>
  BY DEF BuddyFreesNull, buddyVars
<1>. QED
  BY <1>1, <1>2, <1>3, <1>4 DEF BuddyNext

-----------------------------------------------------------------------------
(***************************************************************************)
(* A sum over the nodes, which is a fold: there is one function Total that *)
(* gives it for every set of nodes, and the order of adding is no matter.  *)
(***************************************************************************)
Weight(n) == P(ExponentOf[n])

Chosen(T) == CHOOSE x \in T : TRUE

Sums(g, D) == g = [T \in D |-> IF T = {} THEN 0 ELSE Weight(Chosen(T)) + g[T \ {Chosen(T)}]]

UpToSize(k) == {T \in SUBSET Nodes : Cardinality(T) <= k}

Total == CHOOSE g : Sums(g, SUBSET Nodes)

LEMMA SomeNodes ==
    ASSUME NEW T \in SUBSET Nodes
    PROVE  /\ IsFiniteSet(T) /\ Cardinality(T) \in Nat
           /\ Cardinality(T) <= Cardinality(Nodes) /\ Cardinality(Nodes) \in Nat
           /\ Cardinality(T) = 0 <=> T = {}
           /\ \A x \in T : T \ {x} \in SUBSET Nodes /\ Cardinality(T \ {x}) = Cardinality(T) - 1
<1>1. IsFiniteSet(Nodes)
  <2>1. 0 \in Int /\ 2 * P(Depth) - 2 \in Int
    BY NodesAre
  <2>. QED BY <2>1, NodesAre, FS_Interval
<1>2. IsFiniteSet(T) /\ Cardinality(T) <= Cardinality(Nodes)
  BY <1>1, FS_Subset
<1>3. Cardinality(T) \in Nat /\ Cardinality(Nodes) \in Nat
  BY <1>1, <1>2, FS_CardinalityType
<1>4. Cardinality(T) = 0 <=> T = {}
  BY <1>2, FS_EmptySet
<1>5. \A x \in T : Cardinality(T \ {x}) = Cardinality(T) - 1
  BY <1>2, FS_RemoveElement
<1>. QED
  BY <1>2, <1>3, <1>4, <1>5

LEMMA AnyOf ==
    ASSUME NEW T, T # {}
    PROVE  Chosen(T) \in T
BY DEF Chosen

LEMMA WeightIsNat ==
    ASSUME NEW n \in Nodes
    PROVE  Weight(n) \in Nat
<1>1. ExponentOf[n] \in Nat
  BY NodeHasLevel, DepthIsNat
<1>. QED
  BY <1>1, PowPositive DEF Weight

\* What a function of sums says of one set.
LEMMA SumsAt ==
    ASSUME NEW g, NEW D, Sums(g, D), NEW T \in D
    PROVE  g[T] = IF T = {} THEN 0 ELSE Weight(Chosen(T)) + g[T \ {Chosen(T)}]
BY DEF Sums

LEMMA SumsExist == \E g : Sums(g, SUBSET Nodes)
<1>. DEFINE S == {k \in Nat : \E g : Sums(g, UpToSize(k))}
<1>1. 0 \in S
  <2>. DEFINE g == [T \in UpToSize(0) |-> 0]
  <2>1. \A T \in UpToSize(0) : T = {}
    <3>1. ASSUME NEW T \in UpToSize(0) PROVE Cardinality(T) = 0
      BY SomeNodes DEF UpToSize
    <3>. QED BY <3>1, SomeNodes DEF UpToSize
  <2>2. g = [T \in UpToSize(0) |-> IF T = {} THEN 0 ELSE Weight(Chosen(T)) + g[T \ {Chosen(T)}]]
    BY <2>1
  <2>3. Sums(g, UpToSize(0))
    BY <2>2 DEF Sums
  <2>. QED BY <2>3
<1>2. ASSUME NEW k \in Nat, k \in S PROVE k + 1 \in S
  <2>1. PICK g : Sums(g, UpToSize(k))
    BY <1>2
  <2>. DEFINE D == UpToSize(k)
              E == UpToSize(k + 1)
              h == [T \in E |-> IF T = {} THEN 0 ELSE Weight(Chosen(T)) + g[T \ {Chosen(T)}]]
  <2>2. ASSUME NEW T \in D PROVE T \in E /\ h[T] = g[T]
    <3>1. T \in E
      BY <2>2, SomeNodes DEF UpToSize
    <3>2. g[T] = IF T = {} THEN 0 ELSE Weight(Chosen(T)) + g[T \ {Chosen(T)}]
      BY <2>1, <2>2, SumsAt
    <3>3. h[T] = IF T = {} THEN 0 ELSE Weight(Chosen(T)) + g[T \ {Chosen(T)}]
      BY <3>1
    <3>. HIDE DEF h
    <3>. QED BY <3>1, <3>2, <3>3
  <2>3. ASSUME NEW T \in E, T # {} PROVE T \ {Chosen(T)} \in D
    <3>1. Chosen(T) \in T
      BY <2>3, AnyOf
    <3>2. T \in SUBSET Nodes /\ Cardinality(T) <= k + 1
      BY DEF UpToSize
    <3>3. T \ {Chosen(T)} \in SUBSET Nodes /\ Cardinality(T \ {Chosen(T)}) = Cardinality(T) - 1
          /\ Cardinality(T) \in Nat
      BY <3>1, <3>2, SomeNodes
    <3>. QED BY <3>2, <3>3 DEF UpToSize
  <2>4. ASSUME NEW T \in E
        PROVE  h[T] = IF T = {} THEN 0 ELSE Weight(Chosen(T)) + h[T \ {Chosen(T)}]
    <3>1. h[T] = IF T = {} THEN 0 ELSE Weight(Chosen(T)) + g[T \ {Chosen(T)}]
      OBVIOUS
    <3>2. T # {} => h[T \ {Chosen(T)}] = g[T \ {Chosen(T)}]
      BY <2>2, <2>3
    <3>. HIDE DEF h
    <3>. QED BY <3>1, <3>2
  <2>5. h = [T \in E |-> h[T]]
    OBVIOUS
  <2>. HIDE DEF h
  <2>6. h = [T \in E |-> IF T = {} THEN 0 ELSE Weight(Chosen(T)) + h[T \ {Chosen(T)}]]
    BY <2>4, <2>5
  <2>7. Sums(h, UpToSize(k + 1))
    BY <2>6 DEF Sums
  <2>. QED BY <2>7
<1>. HIDE DEF S
<1>3. Cardinality(Nodes) \in Nat /\ UpToSize(Cardinality(Nodes)) = SUBSET Nodes
  <2>1. \A T \in SUBSET Nodes : Cardinality(T) <= Cardinality(Nodes)
    BY SomeNodes
  <2>2. Cardinality(Nodes) \in Nat
    BY SomeNodes
  <2>. QED BY <2>1, <2>2 DEF UpToSize
<1>4. Cardinality(Nodes) \in S
  BY <1>1, <1>2, <1>3, InductionForSet
<1>. QED
  BY <1>3, <1>4 DEF S

LEMMA TotalSums == Sums(Total, SUBSET Nodes)
BY SumsExist DEF Total

\* It does not matter for which sets a function gives the sums.
LEMMA SumsAgree ==
    ASSUME NEW U \in SUBSET Nodes, NEW f, Sums(f, SUBSET U), NEW T \in SUBSET U
    PROVE  f[T] = Total[T]
<1>. DEFINE S == {k \in Nat : \A X \in SUBSET U : Cardinality(X) <= k => f[X] = Total[X]}
<1>1. ASSUME NEW X \in SUBSET U
      PROVE  /\ f[X] = IF X = {} THEN 0 ELSE Weight(Chosen(X)) + f[X \ {Chosen(X)}]
             /\ Total[X] = IF X = {} THEN 0 ELSE Weight(Chosen(X)) + Total[X \ {Chosen(X)}]
             /\ X \in SUBSET Nodes
  <2>1. X \in SUBSET Nodes
    OBVIOUS
  <2>. QED BY <2>1, TotalSums, SumsAt
<1>2. 0 \in S
  <2>1. ASSUME NEW X \in SUBSET U, Cardinality(X) <= 0 PROVE X = {}
    <3>1. X \in SUBSET Nodes
      BY <1>1
    <3>2. Cardinality(X) \in Nat /\ (Cardinality(X) = 0 <=> X = {})
      BY <3>1, SomeNodes
    <3>. QED BY <2>1, <3>2
  <2>. QED BY <1>1, <2>1
<1>3. ASSUME NEW k \in Nat, k \in S PROVE k + 1 \in S
  <2>1. ASSUME NEW X \in SUBSET U, Cardinality(X) <= k + 1 PROVE f[X] = Total[X]
    <3>1. CASE X = {}
      BY <1>1, <3>1
    <3>2. CASE X # {}
      <4>. DEFINE Y == X \ {Chosen(X)}
      <4>1. Chosen(X) \in X
        BY <3>2, AnyOf
      <4>2. Cardinality(Y) = Cardinality(X) - 1 /\ Cardinality(X) \in Nat
        BY <1>1, <4>1, SomeNodes
      <4>3. Y \in SUBSET U /\ Cardinality(Y) <= k
        BY <2>1, <4>2
      <4>. HIDE DEF Y
      <4>4. f[Y] = Total[Y]
        BY <1>3, <4>3
      <4>. QED BY <1>1, <3>2, <4>4 DEF Y
    <3>. QED BY <3>1, <3>2
  <2>. QED BY <2>1
<1>. HIDE DEF S
<1>4. T \in SUBSET Nodes
  BY <1>1
<1>5. Cardinality(T) \in Nat
  BY <1>4, SomeNodes
<1>6. Cardinality(T) \in S
  BY <1>2, <1>3, <1>5, InductionForSet
<1>. QED
  BY <1>5, <1>6 DEF S

LEMMA SumsOfSubset ==
    ASSUME NEW U \in SUBSET Nodes
    PROVE  Sums([T \in SUBSET U |-> Total[T]], SUBSET U)
<1>. DEFINE g == [T \in SUBSET U |-> Total[T]]
<1>1. ASSUME NEW T \in SUBSET U
      PROVE  g[T] = IF T = {} THEN 0 ELSE Weight(Chosen(T)) + g[T \ {Chosen(T)}]
  <2>1. T \in SUBSET Nodes /\ T \ {Chosen(T)} \in SUBSET U
    OBVIOUS
  <2>2. Total[T] = IF T = {} THEN 0 ELSE Weight(Chosen(T)) + Total[T \ {Chosen(T)}]
    BY <2>1, TotalSums, SumsAt
  <2>3. g[T] = Total[T] /\ g[T \ {Chosen(T)}] = Total[T \ {Chosen(T)}]
    BY <2>1
  <2>. HIDE DEF g
  <2>. QED BY <2>2, <2>3
<1>2. g = [T \in SUBSET U |-> g[T]]
  OBVIOUS
<1>. HIDE DEF g
<1>3. Sums(g, SUBSET U)
  BY <1>1, <1>2 DEF Sums
<1>. QED
  BY <1>3 DEF g

LEMMA SumIsTotal ==
    ASSUME NEW U \in SUBSET Nodes
    PROVE  MapThenSumSet(LAMBDA n : 2 ^ ExponentOf[n], U) = Total[U]
<1>. DEFINE f == CHOOSE g : Sums(g, SUBSET U)
<1>1. MapThenSumSet(LAMBDA n : 2 ^ ExponentOf[n], U) = f[U]
  BY DEF MapThenSumSet, MapThenFoldSet, Sums, Weight, Chosen, P
<1>2. Sums(f, SUBSET U)
  BY SumsOfSubset
<1>. HIDE DEF f
<1>3. f[U] = Total[U]
  BY <1>2, SumsAgree
<1>. QED
  BY <1>1, <1>3

\* Whichever element is taken out first.
LEMMA TotalWithout ==
    ASSUME NEW T \in SUBSET Nodes
    PROVE  /\ Total[T] \in Nat
           /\ \A y \in T : Total[T] = Weight(y) + Total[T \ {y}]
<1>. DEFINE Good(X) == Total[X] \in Nat /\ \A y \in X : Total[X] = Weight(y) + Total[X \ {y}]
            S == {k \in Nat : \A X \in SUBSET Nodes : Cardinality(X) <= k => Good(X)}
<1>1. Total[{}] = 0
  BY TotalSums, SumsAt
<1>2. 0 \in S
  <2>1. ASSUME NEW X \in SUBSET Nodes, Cardinality(X) <= 0 PROVE X = {}
    BY <2>1, SomeNodes
  <2>2. Good({})
    BY <1>1
  <2>. QED BY <2>1, <2>2
<1>3. ASSUME NEW k \in Nat, k \in S PROVE k + 1 \in S
  <2>1. ASSUME NEW X \in SUBSET Nodes, Cardinality(X) <= k PROVE Good(X)
    BY <1>3, <2>1
  <2>2. ASSUME NEW X \in SUBSET Nodes, Cardinality(X) <= k + 1, X # {} PROVE Good(X)
    <3>. DEFINE x == Chosen(X)
    <3>1. x \in X /\ x \in Nodes
      BY <2>2, AnyOf
    <3>2. Total[X] = Weight(x) + Total[X \ {x}]
      BY <2>2, TotalSums, SumsAt
    <3>. HIDE DEF x
    <3>3. ASSUME NEW z \in X PROVE X \ {z} \in SUBSET Nodes /\ Cardinality(X \ {z}) <= k
      <4>1. Cardinality(X \ {z}) = Cardinality(X) - 1 /\ Cardinality(X) \in Nat
        BY SomeNodes
      <4>. QED BY <2>2, <4>1
    <3>4. ASSUME NEW z \in X PROVE Good(X \ {z})
      BY <2>1, <3>3
    <3>5. Total[X] \in Nat
      <4>1. Total[X \ {x}] \in Nat
        BY <3>1, <3>4
      <4>2. Weight(x) \in Nat
        BY <3>1, WeightIsNat
      <4>. QED BY <3>2, <4>1, <4>2
    <3>6. ASSUME NEW y \in X, y # x PROVE Total[X] = Weight(y) + Total[X \ {y}]
      <4>1. x \in X \ {y} /\ y \in X \ {x} /\ (X \ {y}) \ {x} = (X \ {x}) \ {y}
        BY <3>1, <3>6
      <4>2. Total[X \ {x}] = Weight(y) + Total[(X \ {x}) \ {y}]
        BY <3>1, <3>4, <4>1
      <4>3. Total[X \ {y}] = Weight(x) + Total[(X \ {y}) \ {x}]
        BY <3>4, <4>1
      <4>4. (X \ {x}) \ {y} \in SUBSET Nodes /\ Cardinality((X \ {x}) \ {y}) <= k
        <5>1. X \ {x} \in SUBSET Nodes /\ Cardinality(X \ {x}) <= k
          BY <3>1, <3>3
        <5>2. Cardinality((X \ {x}) \ {y}) = Cardinality(X \ {x}) - 1
              /\ Cardinality(X \ {x}) \in Nat
          BY <4>1, <5>1, SomeNodes
        <5>. QED BY <5>1, <5>2
      <4>5. Total[(X \ {x}) \ {y}] \in Nat
        BY <2>1, <4>4
      <4>6. Weight(x) \in Nat /\ Weight(y) \in Nat
        BY <3>1, WeightIsNat
      <4>7. Total[(X \ {y}) \ {x}] = Total[(X \ {x}) \ {y}]
        BY <4>1
      <4>. QED BY <3>2, <4>2, <4>3, <4>5, <4>6, <4>7
    <3>. QED BY <3>2, <3>5, <3>6
  <2>3. Good({})
    BY <1>1
  <2>. HIDE DEF Good
  <2>. QED BY <2>2, <2>3
<1>. HIDE DEF S, Good
<1>4. Cardinality(T) \in Nat
  BY SomeNodes
<1>5. Cardinality(T) \in S
  BY <1>2, <1>3, <1>4, InductionForSet
<1>6. Good(T)
  BY <1>4, <1>5 DEF S
<1>. QED
  BY <1>6 DEF Good

-----------------------------------------------------------------------------
(***************************************************************************)
(* The counter.  What mm_free subtracts is half of what mm_alloc added.    *)
(***************************************************************************)
Enough == used \in Nat /\ used >= Total[Taken]

LEMMA TakeKeepsEnough ==
    ASSUME TreeType, Enough, NEW n \in Nodes, Takes(n)
    PROVE  Enough'
<1>1. n \notin Taken /\ Taken' = Taken \cup {n} /\ Taken' \in SUBSET Nodes /\ Taken' \ {n} = Taken
      /\ n \in Taken'
  <2>1. /\ tree[n] = "FREE" /\ \A a \in Ancestors[n] : tree[a] # "USED"
        /\ \A m \in Nodes : tree'[m] = IF m = n THEN "USED"
                                       ELSE IF m \in Ancestors[n] THEN "SPLIT" ELSE tree[m]
    BY DEF Takes
  <2>2. \A m \in Nodes : tree'[m] = "USED" <=> m = n \/ tree[m] = "USED"
    BY <2>1
  <2>. QED BY <2>1, <2>2 DEF Taken
<1>2. Total[Taken'] = Weight(n) + Total[Taken]
  <2>1. Total[Taken'] = Weight(n) + Total[Taken' \ {n}]
    BY <1>1, TotalWithout
  <2>. QED BY <1>1, <2>1
<1>3. used' = used + Weight(n) /\ Weight(n) \in Nat
  BY WeightIsNat DEF Takes, Weight
<1>4. Total[Taken] \in Nat
  BY TotalWithout DEF Taken
<1>. QED
  BY <1>2, <1>3, <1>4 DEF Enough

LEMMA GiveKeepsEnough ==
    ASSUME TreeType, Enough, NEW n \in Nodes, GivesBack(n)
    PROVE  Enough'
<1>1. n \in Taken /\ Taken \in SUBSET Nodes /\ Taken' = Taken \ {n} /\ Taken' \in SUBSET Nodes
  <2>1. /\ tree[n] = "USED"
        /\ \A m \in Nodes : tree'[m] = IF m = n \/ m \in Merged(n) THEN "FREE" ELSE tree[m]
    BY DEF GivesBack
  <2>2. \A a \in Merged(n) : tree[a] # "USED"
    BY MergedAre
  <2>3. \A m \in Nodes : tree'[m] = "USED" <=> m # n /\ tree[m] = "USED"
    BY <2>1, <2>2
  <2>. QED BY <2>1, <2>3 DEF Taken
<1>2. Total[Taken] = Weight(n) + Total[Taken'] /\ Total[Taken'] \in Nat
  BY <1>1, TotalWithout
<1>. DEFINE half == P(ExponentOf[n] - 1)
<1>3. used' = used - half /\ Weight(n) = 2 * half /\ half \in Nat
  <2>1. ExponentOf[n] \in Exponents
    BY NodeHasLevel
  <2>2. ExponentOf[n] - 1 \in Nat /\ (ExponentOf[n] - 1) + 1 = ExponentOf[n]
    BY <2>1, DepthIsNat DEF Exponents
  <2>3. P((ExponentOf[n] - 1) + 1) = 2 * half /\ half \in Nat
    BY <2>2, PowNext, PowPositive
  <2>. QED BY <2>2, <2>3 DEF GivesBack, Weight
<1>. HIDE DEF half
<1>. QED
  BY <1>2, <1>3 DEF Enough

LEMMA EnoughAtFirst == BuddyInit => Enough
<1>. SUFFICES ASSUME BuddyInit PROVE Enough
  OBVIOUS
<1>1. Taken = {} /\ used = 0
  BY DEF BuddyInit, Taken
<1>2. {} \in SUBSET Nodes
  OBVIOUS
<1>3. Total[{}] = 0
  <2>1. Sums(Total, SUBSET Nodes)
    BY TotalSums
  <2>2. Total[{}] = IF {} = {} THEN 0 ELSE Weight(Chosen({})) + Total[{} \ {Chosen({})}]
    BY <1>2, <2>1, SumsAt
  <2>. QED BY <2>2
<1>. QED
  BY <1>1, <1>3 DEF Enough

BuddyInv == TreeType /\ TreeIsMerged /\ Enough

LEMMA BuddyInvariance == BuddySpec => []BuddyInv
<1>1. BuddyInv /\ [BuddyNext]_buddyVars => BuddyInv'
  <2>. SUFFICES ASSUME BuddyInv, [BuddyNext]_buddyVars PROVE BuddyInv'
    OBVIOUS
  <2>1. ASSUME NEW n \in Nodes, Takes(n) PROVE BuddyInv'
    BY <2>1, TakeKeepsMerged, TakeKeepsEnough DEF BuddyInv
  <2>2. ASSUME NEW n \in Nodes, GivesBack(n) PROVE BuddyInv'
    BY <2>2, GiveKeepsMerged, GiveKeepsEnough DEF BuddyInv
  <2>3. ASSUME UNCHANGED << tree, used >> PROVE BuddyInv'
    BY <2>3 DEF BuddyInv, TreeType, TreeIsMerged, Enough, Taken
  <2>. QED BY <2>1, <2>2, <2>3, BuddySteps
<1>. QED
  BY <1>1, MergedAtFirst, EnoughAtFirst, PTL DEF BuddySpec, BuddyInv

\* splitTree and setMerge keep the tree consistent and merged as far as it can
\* be, for every size of the tree: above a used node all is split, below a used
\* or free one all is free, and of two free buddies the parent is free.
THEOREM TreeIsMergedCorrect == BuddySpec => []TreeIsMerged
<1>. QED
  BY BuddyInvariance, PTL DEF BuddyInv

\* What mm_info says is in use is never less than what is, although mm_free
\* subtracts too little, and never passes below zero.
THEOREM UsedIsEnoughCorrect == BuddySpec => []UsedIsEnough
<1>1. BuddyInv => UsedIsEnough
  <2>1. Taken \in SUBSET Nodes
    BY DEF Taken
  <2>2. MapThenSumSet(LAMBDA n : 2 ^ ExponentOf[n], Taken) = Total[Taken]
    BY <2>1, SumIsTotal
  <2>. QED BY <2>2 DEF BuddyInv, Enough, UsedIsEnough
<1>. QED
  BY <1>1, BuddyInvariance, PTL

\* Every field keeps its type; the counter, which is unsigned, does not wrap.
THEOREM BuddyTypeCorrect == BuddySpec => []BuddyTypeOK
<1>. DEFINE CallType == buddyCall \in [op : {"none", "alloc", "free"}, arg : Int, ret : Int]
<1>1. BuddyInit => CallType
  BY DEF BuddyInit, NO_BLOCK
<1>2. CallType /\ [BuddyNext]_buddyVars => CallType'
  <2>. SUFFICES ASSUME CallType, [BuddyNext]_buddyVars PROVE CallType'
    OBVIOUS
  <2>1. ASSUME NEW size \in Requests, BuddyAllocServes(size) PROVE CallType'
    <3>1. PICK n \in Nodes :
            buddyCall' = [op |-> "alloc", arg |-> size,
                          ret |-> IF OffsetOf(n, ExponentOf[n]) < ManagedSize
                                  THEN OffsetOf(n, ExponentOf[n]) ELSE NO_BLOCK]
      BY <2>1, AllocTakes
    <3>2. OffsetOf(n, ExponentOf[n]) \in Int /\ size \in Int
      BY OffsetOfNode, BuddyAssumption
    <3>. QED BY <3>1, <3>2 DEF NO_BLOCK
  <2>2. ASSUME NEW size \in Requests, BuddyAllocFails(size) PROVE CallType'
    <3>1. size \in Int
      BY BuddyAssumption
    <3>. QED BY <2>2, <3>1 DEF BuddyAllocFails, NO_BLOCK
  <2>3. ASSUME NEW ptr \in Held, BuddyFrees(ptr) PROVE CallType'
    <3>1. ptr \in Int
      BY DEF Held
    <3>. QED BY <2>3, <3>1 DEF BuddyFrees, NO_BLOCK
  <2>4. ASSUME BuddyFreesNull \/ UNCHANGED buddyVars PROVE CallType'
    BY <2>4 DEF BuddyFreesNull, NO_BLOCK, buddyVars
  <2>. QED BY <2>1, <2>2, <2>3, <2>4 DEF BuddyNext
<1>3. BuddyInv /\ CallType => BuddyTypeOK
  BY DEF BuddyInv, TreeType, Enough, BuddyTypeOK
<1>. HIDE DEF CallType
<1>. QED
  BY <1>1, <1>2, <1>3, BuddyInvariance, PTL DEF BuddySpec

-----------------------------------------------------------------------------
(***************************************************************************)
(* The units of a node are those whose way up leads to it.                 *)
(***************************************************************************)
\* The node of the lowest level that stands for a unit.
Leaf(u) == u + P(Depth) - 1

PlaceOf(n)  == n + 1 - P(LevelOf(n))
WidthOf(n)  == P(Depth - LevelOf(n))
FirstUnit(n) == PlaceOf(n) * WidthOf(n)

LEMMA PlaceAndWidth ==
    ASSUME NEW n \in Nodes
    PROVE  /\ LevelOf(n) \in Nat /\ Depth - LevelOf(n) \in Nat /\ Depth \in Nat
           /\ n \in Nat /\ P(LevelOf(n)) \in Nat /\ P(LevelOf(n)) >= 1
           /\ PlaceOf(n) \in Nat /\ PlaceOf(n) + 1 <= P(LevelOf(n))
           /\ WidthOf(n) \in Nat /\ WidthOf(n) >= 1
           /\ P(Depth) = P(LevelOf(n)) * WidthOf(n) /\ P(Depth) \in Nat
           /\ FirstUnit(n) \in Nat /\ FirstUnit(n) + WidthOf(n) <= P(Depth)
<1>. DEFINE l == LevelOf(n)
<1>1. l \in 0 .. Depth /\ IsLevel(n, l) /\ Depth \in Nat /\ n \in Nat
  BY NodeHasLevel, NodesAre, DepthIsNat
<1>2. l \in Nat /\ Depth - l \in Nat /\ l + (Depth - l) = Depth
  BY <1>1
<1>. HIDE DEF l
<1>3. P(l) \in Nat /\ P(l) >= 1 /\ P(Depth - l) \in Nat /\ P(Depth - l) >= 1
      /\ P(Depth) = P(l) * P(Depth - l) /\ P(Depth) \in Nat
  <2>1. P(l + (Depth - l)) = P(l) * P(Depth - l)
    BY <1>2, PowSum
  <2>. QED BY <1>1, <1>2, <2>1, PowPositive
<1>4. n + 1 - P(l) \in Nat /\ (n + 1 - P(l)) + 1 <= P(l)
  BY <1>1, <1>3 DEF IsLevel
<1>5. PlaceOf(n) = n + 1 - P(l) /\ WidthOf(n) = P(Depth - l)
  BY DEF PlaceOf, WidthOf, l
<1>. DEFINE i == n + 1 - P(l)
            h == P(Depth - l)
<1>6. i \in Nat /\ h \in Nat /\ i + 1 \in Nat /\ i + 1 <= P(l)
  BY <1>3, <1>4
<1>. HIDE DEF i, h
<1>7. (i + 1) * h <= P(l) * h
  BY <1>3, <1>6, TimesMonotone
<1>8. i * h \in Nat /\ (i + 1) * h = i * h + h
  BY <1>6
<1>9. FirstUnit(n) = i * h
  BY <1>5 DEF FirstUnit, i, h
<1>10. FirstUnit(n) \in Nat /\ FirstUnit(n) + h <= P(Depth)
  BY <1>3, <1>7, <1>8, <1>9 DEF h
<1>. QED
  BY <1>1, <1>2, <1>3, <1>4, <1>5, <1>10 DEF l, h

\* Where the area of a node begins, in bytes and in units.
LEMMA UnitsAre ==
    ASSUME NEW n \in Nodes
    PROVE  /\ OffsetOf(n, ExponentOf[n]) = FirstUnit(n) * P(MIN_EXP)
           /\ OffsetOf(n, ExponentOf[n]) \div P(MIN_EXP) = FirstUnit(n)
           /\ P(ExponentOf[n]) = WidthOf(n) * P(MIN_EXP)
           /\ Units[n] = FirstUnit(n) .. FirstUnit(n) + WidthOf(n) - 1
<1>. DEFINE l == LevelOf(n)
            e == ExponentOf[n]
<1>1. l \in 0 .. Depth /\ e = MaxExp - l /\ e \in Nat /\ MIN_EXP \in Nat
  BY NodeHasLevel, DepthIsNat
<1>2. Depth - l \in Nat /\ e = (Depth - l) + MIN_EXP /\ e - MIN_EXP = Depth - l
  BY <1>1, DepthIsNat DEF Depth
<1>3. /\ PlaceOf(n) \in Nat /\ WidthOf(n) \in Nat /\ FirstUnit(n) \in Nat
      /\ n \in Nat /\ P(l) \in Nat
      /\ PlaceOf(n) = n + 1 - P(l) /\ WidthOf(n) = P(Depth - l)
  BY PlaceAndWidth DEF PlaceOf, WidthOf
<1>4. FirstNode(e) = P(l) - 1
  BY <1>1, NodesOfLevel
<1>. HIDE DEF l, e
<1>5. P(MIN_EXP) \in Nat /\ P(MIN_EXP) >= 1 /\ P(e) = WidthOf(n) * P(MIN_EXP)
  BY <1>1, <1>2, <1>3, PowPositive, PowSum
<1>6. n - FirstNode(e) = PlaceOf(n)
  BY <1>3, <1>4
<1>7. OffsetOf(n, e) = PlaceOf(n) * (WidthOf(n) * P(MIN_EXP))
  BY <1>5, <1>6 DEF OffsetOf, P
<1>8. OffsetOf(n, e) = FirstUnit(n) * P(MIN_EXP)
  BY <1>3, <1>5, <1>7 DEF FirstUnit
<1>9. OffsetOf(n, e) \div P(MIN_EXP) = FirstUnit(n)
  BY <1>3, <1>5, <1>8, MultipleDivides
<1>10. Units[n] = OffsetOf(n, e) \div P(MIN_EXP)
                    .. OffsetOf(n, e) \div P(MIN_EXP) + P(e - MIN_EXP) - 1
  BY DEF Units, e, P
<1>. QED
  BY <1>2, <1>3, <1>5, <1>8, <1>9, <1>10 DEF e

LEMMA LeafIsNode ==
    ASSUME NEW u \in 0 .. P(Depth) - 1
    PROVE  Leaf(u) \in Nodes /\ LevelOf(Leaf(u)) = Depth /\ Leaf(u) \in Nat
<1>1. P(Depth) \in Nat /\ P(Depth) >= 1 /\ Depth \in Nat
  BY NodesAre, DepthIsNat
<1>2. Leaf(u) \in Nat /\ IsLevel(Leaf(u), Depth) /\ Depth \in 0 .. Depth
  BY <1>1 DEF Leaf, IsLevel
<1>. QED
  BY <1>2, LevelIs

LEMMA UnitsAreBelow ==
    ASSUME NEW n \in Nodes, NEW u
    PROVE  u \in Units[n] <=> u \in 0 .. P(Depth) - 1 /\ Up(Leaf(u), Depth - LevelOf(n)) = n
<1>. DEFINE h == WidthOf(n)
            i == PlaceOf(n)
            top == P(LevelOf(n))
            d == Depth - LevelOf(n)
<1>1. /\ h \in Nat /\ h >= 1 /\ i \in Nat /\ top \in Nat /\ n \in Nat /\ d \in Nat
      /\ P(Depth) = top * h /\ P(Depth) \in Nat
      /\ i * h \in Nat /\ i * h + h <= P(Depth)
      /\ n + 1 = i + top /\ h = P(d)
  BY PlaceAndWidth DEF PlaceOf, WidthOf, FirstUnit
<1>2. Units[n] = i * h .. i * h + h - 1
  BY UnitsAre DEF FirstUnit
<1>. HIDE DEF h, i, top, d
<1>3. h * (i + top) = i * h + P(Depth) /\ i + top \in Nat
  BY <1>1
<1>4. ASSUME NEW v \in Nat PROVE Up(Leaf(v), d) = (v + P(Depth)) \div h - 1
  <2>1. Leaf(v) + 1 = v + P(Depth)
    BY <1>1 DEF Leaf
  <2>. QED BY <1>1, <2>1 DEF Up, P
<1>5. ASSUME u \in Units[n] PROVE u \in 0 .. P(Depth) - 1 /\ Up(Leaf(u), d) = n
  <2>. DEFINE x == i * h
  <2>1. x \in Nat /\ x + h <= P(Depth) /\ u \in x .. x + h - 1 /\ h * (i + top) = x + P(Depth)
    BY <1>1, <1>2, <1>3, <1>5
  <2>. HIDE DEF x
  <2>2. u \in Nat /\ x <= u /\ u < x + h /\ u \in 0 .. P(Depth) - 1
    BY <1>1, <2>1
  <2>3. u + P(Depth) \in Nat /\ h * (i + top) <= u + P(Depth)
        /\ u + P(Depth) < h * (i + top) + h
    BY <1>1, <2>1, <2>2
  <2>4. (u + P(Depth)) \div h = i + top
    BY <1>1, <1>3, <2>3, DivisionIs
  <2>5. Up(Leaf(u), d) = (n + 1) - 1
    BY <1>1, <1>4, <2>2, <2>4
  <2>. QED BY <1>1, <2>2, <2>5
<1>6. ASSUME u \in 0 .. P(Depth) - 1, Up(Leaf(u), d) = n PROVE u \in Units[n]
  <2>1. u \in Nat /\ u + P(Depth) \in Nat
    BY <1>1, <1>6
  <2>. DEFINE k == (u + P(Depth)) \div h
              r == (u + P(Depth)) % h
  <2>2. k \in Nat /\ r \in 0 .. h - 1 /\ u + P(Depth) = h * k + r
    BY <1>1, <2>1, Divides
  <2>3. k - 1 = n
    BY <1>4, <1>6, <2>1
  <2>. HIDE DEF k, r
  <2>4. k = i + top
    BY <1>1, <2>2, <2>3
  <2>. DEFINE x == i * h
  <2>5. x \in Nat /\ u + P(Depth) = x + P(Depth) + r /\ Units[n] = x .. x + h - 1
    BY <1>1, <1>2, <1>3, <2>2, <2>4
  <2>. HIDE DEF x
  <2>6. r \in Nat /\ r <= h - 1 /\ h \in Nat /\ P(Depth) \in Nat
    BY <1>1, <2>2
  <2>7. u = x + r
    BY <2>1, <2>5, <2>6
  <2>8. u \in x .. x + h - 1
    BY <2>5, <2>6, <2>7
  <2>. QED BY <2>5, <2>8
<1>. QED
  BY <1>5, <1>6 DEF d

\* The area of a node lies in those of its ancestors.
LEMMA UnitsOfAncestors ==
    ASSUME NEW n \in Nodes, NEW a \in Ancestors[n]
    PROVE  Units[n] \in SUBSET Units[a]
<1>1. PICK d \in 1 .. LevelOf(n) : a = Up(n, d)
  BY AncestorsAre
<1>2. LevelOf(n) \in 0 .. Depth /\ Depth \in Nat /\ d \in 0 .. LevelOf(n)
  BY NodeHasLevel, DepthIsNat
<1>3. a \in Nodes /\ LevelOf(a) = LevelOf(n) - d
  BY <1>1, <1>2, UpIsNode
<1>4. ASSUME NEW u \in Units[n] PROVE u \in Units[a]
  <2>1. u \in 0 .. P(Depth) - 1 /\ Up(Leaf(u), Depth - LevelOf(n)) = n
    BY UnitsAreBelow
  <2>2. Leaf(u) \in Nodes /\ LevelOf(Leaf(u)) = Depth
    BY <2>1, LeafIsNode
  <2>3. Depth - LevelOf(n) \in 0 .. LevelOf(Leaf(u)) /\ d \in Nat
        /\ (Depth - LevelOf(n)) + d = Depth - LevelOf(a)
    BY <1>2, <1>3, <2>2
  <2>4. Up(Leaf(u), Depth - LevelOf(a)) = a
    BY <1>1, <2>1, <2>2, <2>3, UpAgain
  <2>. QED BY <1>3, <2>1, <2>4, UnitsAreBelow
<1>. QED
  BY <1>4

\* Two areas that share a unit are those of a node and of one above it.
LEMMA UnitsMeet ==
    ASSUME NEW n \in Nodes, NEW m \in Nodes, Units[n] \cap Units[m] # {}
    PROVE  m = n \/ m \in Ancestors[n] \/ n \in Ancestors[m]
<1>1. ASSUME NEW x \in Nodes, NEW y \in Nodes, NEW u \in Units[x], u \in Units[y],
             LevelOf(y) <= LevelOf(x)
      PROVE  y = x \/ y \in Ancestors[x]
  <2>1. /\ u \in 0 .. P(Depth) - 1 /\ Up(Leaf(u), Depth - LevelOf(x)) = x
        /\ Up(Leaf(u), Depth - LevelOf(y)) = y
    BY <1>1, UnitsAreBelow
  <2>2. Leaf(u) \in Nodes /\ LevelOf(Leaf(u)) = Depth
    BY <2>1, LeafIsNode
  <2>3. LevelOf(x) \in 0 .. Depth /\ LevelOf(y) \in 0 .. Depth /\ Depth \in Nat
    BY NodeHasLevel, DepthIsNat
  <2>. DEFINE d == LevelOf(x) - LevelOf(y)
  <2>4. d \in Nat /\ Depth - LevelOf(x) \in 0 .. LevelOf(Leaf(u))
        /\ (Depth - LevelOf(x)) + d = Depth - LevelOf(y)
    BY <1>1, <2>2, <2>3
  <2>. HIDE DEF d
  <2>5. Up(x, d) = y
    BY <2>1, <2>2, <2>4, UpAgain
  <2>6. CASE d = 0
    BY <2>5, <2>6, NodesAre, UpZero
  <2>7. CASE d # 0
    <3>1. d \in 1 .. LevelOf(x)
      BY <2>3, <2>4, <2>7 DEF d
    <3>. QED BY <2>5, <3>1, AncestorsAre
  <2>. QED BY <2>6, <2>7
<1>2. PICK u : u \in Units[n] /\ u \in Units[m]
  OBVIOUS
<1>3. LevelOf(m) <= LevelOf(n) \/ LevelOf(n) <= LevelOf(m)
  <2>1. LevelOf(m) \in Nat /\ LevelOf(n) \in Nat
    BY AncestorsAre
  <2>. QED BY <2>1
<1>. QED
  BY <1>1, <1>2, <1>3

LEMMA FirstUnitIsFirst ==
    ASSUME NEW n \in Nodes
    PROVE  /\ FirstUnit(n) \in Units[n] /\ FirstUnit(n) \in Nat
           /\ \A u \in Units[n] : FirstUnit(n) <= u /\ u \in Nat
<1>1. FirstUnit(n) \in Nat /\ WidthOf(n) \in Nat /\ WidthOf(n) >= 1
  BY PlaceAndWidth
<1>2. Units[n] = FirstUnit(n) .. FirstUnit(n) + WidthOf(n) - 1
  BY UnitsAre
<1>. QED
  BY <1>1, <1>2

-----------------------------------------------------------------------------
(***************************************************************************)
(* mm_alloc finds every free area there is: below a split node, which has  *)
(* no two free children, is a used one.                                    *)
(***************************************************************************)
HoldsUsed(n) == \E m \in Taken : Units[m] \cap Units[n] # {}

LEMMA SplitHoldsUsed ==
    ASSUME TreeType, TreeIsMerged, NEW n \in Nodes, tree[n] = "SPLIT"
    PROVE  HoldsUsed(n)
<1>. DEFINE S == {k \in Nat : \A x \in Nodes :
                    tree[x] = "SPLIT" /\ Depth - LevelOf(x) <= k => HoldsUsed(x)}
<1>1. ASSUME NEW x \in Nodes, tree[x] = "SPLIT"
      PROVE  \E c \in Nodes : /\ tree[c] # "FREE" /\ Units[c] \in SUBSET Units[x]
                              /\ LevelOf(c) = LevelOf(x) + 1
  <2>1. 2 * x + 2 \in Nodes /\ ~ (tree[2 * x + 1] = "FREE" /\ tree[2 * x + 2] = "FREE")
    BY <1>1 DEF TreeIsMerged
  <2>2. PICK c : (c = 2 * x + 1 \/ c = 2 * x + 2) /\ tree[c] # "FREE"
    BY <2>1
  <2>3. c \in Nodes /\ LevelOf(c) = LevelOf(x) + 1 /\ x \in Ancestors[c]
    BY <2>1, <2>2, ChildrenOf
  <2>4. Units[c] \in SUBSET Units[x]
    BY <2>3, UnitsOfAncestors
  <2>. QED BY <2>2, <2>3, <2>4
<1>2. ASSUME NEW x \in Nodes, NEW c \in Nodes, Units[c] \in SUBSET Units[x],
             tree[c] = "USED" \/ HoldsUsed(c)
      PROVE  HoldsUsed(x)
  <2>1. CASE tree[c] = "USED"
    <3>1. c \in Taken /\ FirstUnit(c) \in Units[c]
      BY <2>1, FirstUnitIsFirst DEF Taken
    <3>. QED BY <1>2, <3>1 DEF HoldsUsed
  <2>2. CASE HoldsUsed(c)
    <3>1. PICK m \in Taken : Units[m] \cap Units[c] # {}
      BY <2>2 DEF HoldsUsed
    <3>2. Units[m] \cap Units[x] # {}
      BY <1>2, <3>1
    <3>. QED BY <3>1, <3>2 DEF HoldsUsed
  <2>. QED BY <1>2, <2>1, <2>2
<1>3. ASSUME NEW x \in Nodes PROVE LevelOf(x) \in 0 .. Depth /\ Depth \in Nat
  BY NodeHasLevel, DepthIsNat
<1>4. 0 \in S
  <2>1. ASSUME NEW x \in Nodes, tree[x] = "SPLIT", Depth - LevelOf(x) <= 0 PROVE FALSE
    <3>1. PICK c \in Nodes : LevelOf(c) = LevelOf(x) + 1
      BY <1>1, <2>1
    <3>2. LevelOf(x) \in 0 .. Depth /\ LevelOf(c) \in 0 .. Depth /\ Depth \in Nat
      BY <1>3
    <3>. QED BY <2>1, <3>1, <3>2
  <2>. QED BY <2>1
<1>5. ASSUME NEW k \in Nat, k \in S PROVE k + 1 \in S
  <2>. SUFFICES ASSUME NEW x \in Nodes, tree[x] = "SPLIT", Depth - LevelOf(x) <= k + 1
                PROVE  HoldsUsed(x)
    OBVIOUS
  <2>1. PICK c \in Nodes : /\ tree[c] # "FREE" /\ Units[c] \in SUBSET Units[x]
                           /\ LevelOf(c) = LevelOf(x) + 1
    BY <1>1
  <2>2. LevelOf(x) \in 0 .. Depth /\ LevelOf(c) \in 0 .. Depth /\ Depth \in Nat
    BY <1>3
  <2>3. Depth - LevelOf(c) <= k
    BY <2>1, <2>2
  <2>4. tree[c] = "SPLIT" => HoldsUsed(c)
    BY <1>5, <2>3
  <2>5. tree[c] = "USED" \/ tree[c] = "SPLIT"
    BY <2>1 DEF TreeType, States
  <2>. QED BY <1>2, <2>1, <2>4, <2>5
<1>6. Depth - LevelOf(n) \in Nat
  BY <1>3
<1>. HIDE DEF S
<1>7. Depth - LevelOf(n) \in S
  BY <1>4, <1>5, <1>6, InductionForSet
<1>8. Depth - LevelOf(n) <= Depth - LevelOf(n)
  BY <1>6
<1>. QED
  BY <1>7, <1>8 DEF S

\* A node of the size that is not free for the taking shares a unit with a
\* used one.
LEMMA FullWhenNoFreeNode ==
    ASSUME TreeType, TreeIsMerged, NEW e \in Exponents, FreeNodes(e) = {}, NEW n \in NodesOf(e)
    PROVE  HoldsUsed(n)
<1>1. n \in Nodes
  BY ExponentIs
<1>2. tree[n] # "FREE" \/ \E a \in Ancestors[n] : tree[a] = "USED"
  BY DEF FreeNodes
<1>3. FirstUnit(n) \in Units[n]
  BY <1>1, FirstUnitIsFirst
<1>4. CASE tree[n] = "USED"
  BY <1>1, <1>3, <1>4 DEF HoldsUsed, Taken
<1>5. CASE tree[n] = "SPLIT"
  BY <1>1, <1>5, SplitHoldsUsed
<1>6. CASE \E a \in Ancestors[n] : tree[a] = "USED"
  <2>1. PICK a \in Ancestors[n] : tree[a] = "USED"
    BY <1>6
  <2>2. a \in Taken
    BY <1>1, <2>1, AncestorsAre DEF Taken
  <2>3. Units[n] \in SUBSET Units[a]
    BY <1>1, UnitsOfAncestors
  <2>4. Units[a] \cap Units[n] # {}
    BY <1>3, <2>3
  <2>. QED BY <2>2, <2>4 DEF HoldsUsed
<1>. QED
  BY <1>1, <1>2, <1>4, <1>5, <1>6 DEF TreeType, States

\* mm_alloc returns NULL only if the request is empty or too large, the counter
\* says so, or no aligned run of free units is as long as the node it needs, for
\* every size of the tree: setMerge leaves no two free buddies apart.
THEOREM BuddyFailsOnlyWhenNoRoomCorrect == BuddySpec => BuddyFailsOnlyWhenNoRoom
<1>1. ASSUME BuddyInv, NEW size \in Requests, BuddyAllocFails(size), ValidRequest(size)
      PROVE  \A n \in NodesOf(ExponentFor(size)) : \E m \in Taken : Units[m] \cap Units[n] # {}
  <2>1. ExponentFor(size) \in Exponents
    BY <1>1, RequestHasNode
  <2>2. FreeNodes(ExponentFor(size)) = {}
    BY <1>1 DEF BuddyAllocFails
  <2>3. \A n \in NodesOf(ExponentFor(size)) : HoldsUsed(n)
    BY <1>1, <2>1, <2>2, FullWhenNoFreeNode DEF BuddyInv
  <2>. QED BY <2>3 DEF HoldsUsed
<1>2. BuddyInv /\ [BuddyNext]_buddyVars =>
        [\A size \in Requests :
            buddyCall' # buddyCall /\ BuddyAllocFails(size) /\ ValidRequest(size) =>
                \A n \in NodesOf(ExponentFor(size)) : \E m \in Taken : Units[m] \cap Units[n] # {}
          ]_buddyVars
  BY <1>1
<1>. QED
  BY <1>2, BuddyInvariance, PTL DEF BuddySpec, BuddyFailsOnlyWhenNoRoom

-----------------------------------------------------------------------------
(***************************************************************************)
(* The buddy tree implements Allocator: the areas are those of the used    *)
(* nodes that begin within the heap.                                       *)
(***************************************************************************)
Begun == {m \in Taken : OffsetOf(m, ExponentOf[m]) < ManagedSize}

BuddyAreas == {Units[n] : n \in Begun}

\* Two used nodes have no unit in common.
LEMMA UsedAreApart ==
    ASSUME TreeIsMerged, NEW n \in Taken, NEW m \in Taken, m # n
    PROVE  Units[n] \cap Units[m] = {}
<1>1. n \in Nodes /\ m \in Nodes /\ tree[n] = "USED" /\ tree[m] = "USED"
  BY DEF Taken
<1>2. m \notin Ancestors[n] /\ n \notin Ancestors[m]
  BY <1>1 DEF TreeIsMerged
<1>. QED
  BY <1>1, <1>2, UnitsMeet

LEMMA AllocPromises ==
    ASSUME TreeType, TreeIsMerged, NEW size \in Requests, BuddyAllocServes(size)
    PROVE  BuddyHeap!Alloc(size) \/ BuddyHeap!Refuse(size)
<1>1. PICK n \in Nodes :
        /\ Takes(n) /\ size <= P(ExponentOf[n])
        /\ buddyCall' = [op |-> "alloc", arg |-> size,
                         ret |-> IF OffsetOf(n, ExponentOf[n]) < ManagedSize
                                 THEN OffsetOf(n, ExponentOf[n]) ELSE NO_BLOCK]
  BY AllocTakes
<1>. DEFINE first == FirstUnit(n)
            span == WidthOf(n)
            offset == OffsetOf(n, ExponentOf[n])
<1>2. /\ tree[n] = "FREE" /\ \A a \in Ancestors[n] : tree[a] # "USED"
      /\ \A m \in Nodes : tree'[m] = IF m = n THEN "USED"
                                     ELSE IF m \in Ancestors[n] THEN "SPLIT" ELSE tree[m]
  BY <1>1 DEF Takes
<1>3. Taken' = Taken \cup {n}
  BY <1>2 DEF Taken
<1>4. n \notin Taken
  BY <1>2 DEF Taken
<1>5. Begun' = IF offset < ManagedSize THEN Begun \cup {n} ELSE Begun
  BY <1>3 DEF Begun
<1>6. ASSUME NEW m \in Taken PROVE Units[m] \cap Units[n] = {}
  <2>1. m \in Nodes /\ tree[m] = "USED"
    BY DEF Taken
  <2>2. m # n /\ m \notin Ancestors[n] /\ n \notin Ancestors[m]
    BY <1>2, <2>1 DEF TreeIsMerged
  <2>. QED BY <2>1, <2>2, UnitsMeet
<1>7. CASE offset < ManagedSize
  <2>1. BuddyAreas' = BuddyAreas \cup {Units[n]}
    BY <1>5, <1>7 DEF BuddyAreas
  <2>2. /\ offset = first * P(MIN_EXP) /\ P(ExponentOf[n]) = span * P(MIN_EXP)
        /\ Units[n] = first .. first + span - 1
    BY UnitsAre
  <2>3. /\ first \in Nat /\ span \in Nat /\ span >= 1 /\ first + span <= P(Depth)
        /\ P(Depth) \in Nat
    BY PlaceAndWidth
  <2>. HIDE DEF first, span, offset
  <2>4. first \in 0 .. P(Depth) - 1 /\ span \in 1 .. P(Depth)
    BY <2>3
  <2>5. Units[n] = BuddyHeap!Area(first, span)
    BY <2>2 DEF BuddyHeap!Area
  <2>6. \A area \in BuddyAreas : area \cap BuddyHeap!Area(first, span) = {}
    BY <1>6, <2>5 DEF BuddyAreas, Begun
  <2>7. buddyCall' = [op |-> "alloc", arg |-> size, ret |-> first * P(MIN_EXP)]
    BY <1>1, <1>7, <2>2 DEF offset
  <2>8. buddyCall'.op = "alloc" /\ buddyCall'.arg = size
    BY <2>7
  <2>9. size > 0
    <3>1. size \in Nat /\ size # 0
      BY AllocTakes, BuddyAssumption
    <3>. QED BY <3>1
  <2>10. span * P(MIN_EXP) >= size
    <3>1. span * P(MIN_EXP) \in Nat /\ size \in Nat
      BY <2>3, DepthIsNat, PowPositive, BuddyAssumption
    <3>. QED BY <1>1, <2>2, <3>1
  <2>11. BuddyAreas' = BuddyAreas \cup {BuddyHeap!Area(first, span)}
    BY <2>1, <2>5
  <2>12. BuddyHeap!Alloc(size)
    BY <2>3, <2>4, <2>6, <2>7, <2>8, <2>9, <2>10, <2>11
    DEF BuddyHeap!Alloc, BuddyAreas, Begun, P, Depth
  <2>. QED BY <2>12
<1>8. CASE ~ (offset < ManagedSize)
  <2>1. BuddyAreas' = BuddyAreas
    BY <1>5, <1>8 DEF BuddyAreas
  <2>2. buddyCall' = [op |-> "alloc", arg |-> size, ret |-> NO_BLOCK]
    BY <1>1, <1>8
  <2>3. BuddyHeap!Refuse(size)
    BY <2>1, <2>2 DEF BuddyHeap!Refuse, BuddyAreas, Begun
  <2>. QED BY <2>3
<1>. QED
  BY <1>7, <1>8

LEMMA FreePromises ==
    ASSUME TreeType, TreeIsMerged, NEW ptr \in Held, BuddyFrees(ptr)
    PROVE  BuddyHeap!Free(ptr)
<1>1. PICK n \in Nodes : GivesBack(n) /\ ptr \div P(MIN_EXP) = FirstUnit(n)
  BY FreesGiveBack, UnitsAre
<1>2. /\ tree[n] = "USED"
      /\ \A m \in Nodes : tree'[m] = IF m = n \/ m \in Merged(n) THEN "FREE" ELSE tree[m]
  BY <1>1 DEF GivesBack
<1>3. \A a \in Merged(n) : tree[a] = "SPLIT"
  BY MergedAre
<1>4. n \in Taken /\ Taken' = Taken \ {n}
  BY <1>2, <1>3 DEF Taken
<1>5. Begun' = Begun \ {n}
  BY <1>4 DEF Begun
<1>6. BuddyHeap!Begins(Units[n], FirstUnit(n))
  BY FirstUnitIsFirst DEF BuddyHeap!Begins
<1>7. ASSUME NEW m \in Begun, m # n PROVE ~ BuddyHeap!Begins(Units[m], FirstUnit(n))
  <2>1. FirstUnit(n) \in Units[n]
    BY FirstUnitIsFirst
  <2>2. Units[n] \cap Units[m] = {}
    BY <1>4, <1>7, UsedAreApart DEF Begun
  <2>. QED BY <2>1, <2>2 DEF BuddyHeap!Begins
<1>8. BuddyAreas' = {area \in BuddyAreas : ~ BuddyHeap!Begins(area, FirstUnit(n))}
  BY <1>5, <1>6, <1>7 DEF BuddyAreas
<1>9. buddyCall' = [op |-> "free", arg |-> ptr, ret |-> NO_BLOCK]
  BY DEF BuddyFrees
<1>. QED
  BY <1>1, <1>8, <1>9 DEF BuddyHeap!Free, BuddyAreas, Begun, P

LEMMA FreeNullPromises ==
    ASSUME BuddyFreesNull
    PROVE  BuddyHeap!Free(NO_BLOCK)
<1>. DEFINE q == NO_BLOCK \div P(MIN_EXP)
<1>1. q \notin Nat
  <2>1. P(MIN_EXP) \in Nat /\ P(MIN_EXP) >= 1
    BY DepthIsNat, PowPositive
  <2>2. NO_BLOCK \in Int /\ NO_BLOCK < 0
    BY DEF NO_BLOCK
  <2>. QED BY <2>1, <2>2, BelowZero
<1>. HIDE DEF q
<1>2. ASSUME NEW m \in Begun PROVE ~ BuddyHeap!Begins(Units[m], q)
  <2>1. m \in Nodes
    BY DEF Begun, Taken
  <2>. QED BY <1>1, <2>1, FirstUnitIsFirst DEF BuddyHeap!Begins
<1>3. BuddyAreas = {area \in BuddyAreas : ~ BuddyHeap!Begins(area, q)}
  BY <1>2 DEF BuddyAreas
<1>4. BuddyAreas' = BuddyAreas
  BY DEF BuddyFreesNull, BuddyAreas, Begun, Taken
<1>5. buddyCall' = [op |-> "free", arg |-> NO_BLOCK, ret |-> NO_BLOCK]
  BY DEF BuddyFreesNull
<1>. QED
  BY <1>3, <1>4, <1>5 DEF BuddyHeap!Free, BuddyAreas, Begun, P, q

\* buddy.c keeps the promise of memoryManagement.h for every size of the tree:
\* no two callers share a unit, each request fits in its area, and mm_free
\* frees the area that begins at its pointer and nothing else.
THEOREM BuddyRefinesAllocator == BuddySpec => BuddyImplementsAllocator
<1>1. BuddyInit => BuddyHeap!Init
  BY DEF BuddyInit, BuddyHeap!Init, Taken
<1>2. BuddyInv /\ [BuddyNext]_buddyVars => [BuddyHeap!Next]_<< BuddyAreas, buddyCall >>
  <2>. SUFFICES ASSUME BuddyInv, [BuddyNext]_buddyVars
                PROVE  [BuddyHeap!Next]_<< BuddyAreas, buddyCall >>
    OBVIOUS
  <2>1. ASSUME NEW size \in Requests, BuddyAllocServes(size) PROVE BuddyHeap!Next
    BY <2>1, AllocPromises DEF BuddyHeap!Next, BuddyInv
  <2>2. ASSUME NEW size \in Requests, BuddyAllocFails(size) PROVE BuddyHeap!Next
    <3>1. BuddyHeap!Refuse(size)
      BY <2>2 DEF BuddyAllocFails, BuddyHeap!Refuse, Taken
    <3>. QED BY <3>1 DEF BuddyHeap!Next
  <2>3. ASSUME NEW ptr \in Held, BuddyFrees(ptr) PROVE BuddyHeap!Next
    <3>1. ptr \in -1 .. 2 ^ MaxExp - 1
      <4>1. ManagedSize \in 1 .. P(MaxExp) /\ P(MaxExp) \in Nat
        BY BuddyAssumption, DepthIsNat, PowPositive DEF P
      <4>2. ptr \in 0 .. ManagedSize - 1
        BY DEF Held
      <4>3. ptr \in -1 .. P(MaxExp) - 1
        BY <4>1, <4>2
      <4>. QED BY <4>3 DEF P
    <3>2. BuddyHeap!Free(ptr)
      BY <2>3, FreePromises DEF BuddyInv
    <3>. QED BY <3>1, <3>2 DEF BuddyHeap!Next
  <2>4. ASSUME BuddyFreesNull PROVE BuddyHeap!Next
    <3>1. NO_BLOCK \in -1 .. 2 ^ MaxExp - 1
      <4>1. P(MaxExp) \in Nat
        BY DepthIsNat, PowPositive
      <4>2. -1 \in -1 .. P(MaxExp) - 1
        BY <4>1
      <4>. QED BY <4>2 DEF P, NO_BLOCK
    <3>2. BuddyHeap!Free(NO_BLOCK)
      BY <2>4, FreeNullPromises
    <3>. QED BY <3>1, <3>2 DEF BuddyHeap!Next
  <2>5. CASE UNCHANGED buddyVars
    BY <2>5 DEF buddyVars, BuddyAreas, Begun, Taken
  <2>. QED
    BY <2>1, <2>2, <2>3, <2>4, <2>5 DEF BuddyNext
<1>. QED
  BY <1>1, <1>2, BuddyInvariance, PTL
  DEF BuddySpec, BuddyImplementsAllocator, BuddyHeap!Spec, BuddyAreas, Begun

=============================================================================
