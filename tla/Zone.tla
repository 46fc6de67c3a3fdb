-------------------------------- MODULE Zone --------------------------------
(***************************************************************************)
(* One zone of the physical memory allocator: the buddy tree of            *)
(* src/mm/pmm.rs.  order_list[o][i] is the Block of the i-th group of 2^o  *)
(* pages.  Every operation runs under the zone's SpinLock; the two loops   *)
(* of alloc are one action per iteration.  Frames are counted from the     *)
(* start of the zone.                                                      *)
(***************************************************************************)
EXTENDS Integers, FiniteSets

CONSTANTS
  MaxOrder,     \* MAX_ORDER
  BlockPages,   \* BlockPages[o] = 2^o, the pages of a block of order o
  PageShift,    \* log2 of PAGE_SIZE
  Sizes         \* the numbers of pages a zone may have

Orders == 0..MaxOrder

ASSUME MaxOrderAssumption == MaxOrder \in Nat
ASSUME BlockPagesAssumption ==
  /\ BlockPages \in [Orders -> Nat \ {0}]
  /\ BlockPages[0] = 1
  /\ \A o \in Orders : o < MaxOrder => BlockPages[o + 1] = 2 * BlockPages[o]
  /\ \A o, p \in Orders : o + p <= MaxOrder => BlockPages[o + p] = BlockPages[o] * BlockPages[p]
ASSUME PageShiftAssumption == PageShift \in Nat /\ PageShift > MaxOrder
ASSUME SizesAssumption == Sizes \subseteq Nat \ {0}

VARIABLES
  num_pages,    \* the size of the zone, fixed by Zone::new
  order_list,   \* the Blocks: 0 is Used, v > 0 is LargestFreeOrder(v)
  allocated,    \* history: the blocks that alloc has returned
  refused,      \* history: the orders for which alloc has returned None
  pc,           \* "idle", the loop of alloc under way, or the panic it met
  order,        \* alloc's argument
  current,      \* alloc's and update_tree's current_order
  idx,          \* alloc's and update_tree's idx
  found         \* the index of the block that alloc has marked Used

vars == <<num_pages, order_list, allocated, refused, pc, order, current, idx, found>>

-----------------------------------------------------------------------------
(* Block *)

Used == 0

FromOrder(o) == o + 1

LargerThan(block, o) == block # Used /\ block > o

(* Mutant of ParentState: the parent takes the smaller of two free orders. *)
ParentStateOfSmaller(left, right) ==
  IF left = Used THEN right
  ELSE IF right = Used THEN left
  ELSE IF left < right THEN left ELSE right

(* Mutant of ParentState: a Used child is counted as a free one.           *)
ParentStateIgnoringUsed(left, right) ==
  IF left = right \/ left = Used \/ right = Used
  THEN (IF left > right THEN left ELSE right) + 1
  ELSE IF left > right THEN left ELSE right

ParentState(left, right) ==
  IF left # Used /\ left = right THEN left + 1
  ELSE IF left > right THEN left ELSE right

-----------------------------------------------------------------------------
(* Zone::new *)

CeilDiv(a, b) == (a + b - 1) \div b

(* split_region: the length of order_list[o].                              *)
Blocks(n, o) == CeilDiv(n, BlockPages[MaxOrder]) * BlockPages[MaxOrder - o]

(* Mutant of NewBlock: the order that covers the zone counted from 1.      *)
NewBlockCoverTooLarge(n, largest, o, i) ==
  IF o >= largest /\ i = 0 THEN FromOrder(largest + 1)
  ELSE IF i < CeilDiv(n, BlockPages[o]) THEN FromOrder(o) ELSE Used

(* A block of a new zone: the blocks that start inside the zone are free,  *)
(* the last one even if it is cut off, and block 0 of every order that     *)
(* covers the whole zone gets the order that just covers it.               *)
NewBlock(n, largest, o, i) ==
  IF o >= largest /\ i = 0 THEN FromOrder(largest)
  ELSE IF i < CeilDiv(n, BlockPages[o]) THEN FromOrder(o) ELSE Used

(* largest is min(log2(n.next_power_of_two()), MAX_ORDER + 1).             *)
IsLargestOrder(n, largest) ==
  /\ largest <= MaxOrder => BlockPages[largest] >= n
  /\ \A o \in 0..(largest - 1) : BlockPages[o] < n

New(n, largest) ==
  [o \in Orders |-> [i \in 0..(Blocks(n, o) - 1) |-> NewBlock(n, largest, o, i)]]

Init ==
  /\ num_pages \in Sizes
  /\ \E largest \in 0..(MaxOrder + 1) :
       /\ IsLargestOrder(num_pages, largest)
       /\ order_list = New(num_pages, largest)
  /\ allocated = {}
  /\ refused = {}
  /\ pc = "idle"
  /\ order = 0 /\ current = 0 /\ idx = 0 /\ found = 0

-----------------------------------------------------------------------------
(* Zone::alloc *)

(* alloc(o): the first block of the top level that is larger than o.       *)
AllocFind(o) ==
  /\ pc = "idle"
  /\ \E i \in DOMAIN order_list[MaxOrder] :
       /\ LargerThan(order_list[MaxOrder][i], o)
       /\ \A j \in 0..(i - 1) : ~LargerThan(order_list[MaxOrder][j], o)
       /\ idx' = i
  /\ order' = o
  /\ current' = MaxOrder
  /\ pc' = "descend"
  /\ UNCHANGED <<num_pages, order_list, allocated, refused, found>>

(* alloc(o) returns None.                                                  *)
AllocNone(o) ==
  /\ pc = "idle"
  /\ \A i \in DOMAIN order_list[MaxOrder] : ~LargerThan(order_list[MaxOrder][i], o)
  /\ refused' = refused \cup {o}
  /\ UNCHANGED <<num_pages, order_list, allocated, pc, order, current, idx, found>>

(* Mutant of Descend: always the left child, without looking at it.        *)
DescendLeft ==
  /\ pc = "descend" /\ current > order
  /\ idx' = 2 * idx
  /\ current' = current - 1
  /\ UNCHANGED <<num_pages, order_list, allocated, refused, pc, order, found>>

(* One iteration of the loop that walks down to the order asked for.       *)
Descend ==
  /\ pc = "descend" /\ current > order
  /\ LET children == order_list[current - 1]
         left  == LargerThan(children[2 * idx], order)
         right == LargerThan(children[2 * idx + 1], order)
     IN  /\ idx' = IF left THEN 2 * idx ELSE 2 * idx + 1
         /\ pc'  = IF left \/ right THEN "descend" ELSE "unreachable"
  /\ current' = current - 1
  /\ UNCHANGED <<num_pages, order_list, allocated, refused, order, found>>

(* The walk is over: the block becomes Used and update_tree starts.        *)
MarkUsed ==
  /\ pc = "descend" /\ current = order
  /\ order_list' = [order_list EXCEPT ![order][idx] = Used]
  /\ found' = idx
  /\ pc' = "update"
  /\ UNCHANGED <<num_pages, allocated, refused, order, current, idx>>

(* One iteration of update_tree.                                           *)
UpdateTree ==
  /\ pc = "update" /\ current < MaxOrder
  /\ LET left_idx == 2 * (idx \div 2)
         left  == order_list[current][left_idx]
         right == order_list[current][left_idx + 1]
     IN  order_list' = [order_list EXCEPT ![current + 1][idx \div 2] = ParentState(left, right)]
  /\ idx' = idx \div 2
  /\ current' = current + 1
  /\ UNCHANGED <<num_pages, allocated, refused, pc, order, found>>

(* The frames of the i-th block of order o: from first to last.            *)
Block(o, i) ==
  [order |-> o, first |-> BlockPages[o] * i, last |-> BlockPages[o] * (i + 1) - 1]

(* alloc returns the block.                                                *)
AllocReturn ==
  /\ pc = "update" /\ current = MaxOrder
  /\ allocated' = allocated \cup {Block(order, found)}
  /\ pc' = "idle"
  /\ order' = 0 /\ current' = 0 /\ idx' = 0 /\ found' = 0
  /\ UNCHANGED <<num_pages, order_list, refused>>

-----------------------------------------------------------------------------
(* PhysAllocator::free and Zone::free *)

InZone(b) == b.last < num_pages

(* trailing_zeros of the length of the block, which is in bytes.           *)
FreeOrder(b) == b.order + PageShift

(* free of a block that alloc returned: PhysAllocator panics if it is not  *)
(* inside the zone; Zone::free asserts order <= MAX_ORDER, which is never  *)
(* so, and a build without debug_assert panics on order_list[order].       *)
Free(b) ==
  /\ pc = "idle"
  /\ FreeOrder(b) > MaxOrder
  /\ pc' = IF InZone(b) THEN "free_order" ELSE "free_unmanaged"
  /\ UNCHANGED <<num_pages, order_list, allocated, refused, order, current, idx, found>>

Next ==
  \/ \E o \in Orders : AllocFind(o) \/ AllocNone(o)
  \/ Descend
  \/ MarkUsed
  \/ UpdateTree
  \/ AllocReturn
  \/ \E b \in allocated : Free(b)

Spec == Init /\ [][Next]_vars

-----------------------------------------------------------------------------
PCs == {"idle", "descend", "update", "unreachable", "free_order", "free_unmanaged"}

(* Every Block fits its level: LargestFreeOrder is at most the order of    *)
(* the level, so that parent_state never overflows the u8.                 *)
TypeOK ==
  /\ num_pages \in Sizes
  /\ DOMAIN order_list = Orders
  /\ \A o \in Orders :
       order_list[o] \in [0..(Blocks(num_pages, o) - 1) -> 0..(o + 1)]
  /\ refused \subseteq Orders
  /\ pc \in PCs
  /\ order \in Orders /\ current \in Orders
  /\ idx \in Nat /\ found \in Nat

Apart(b, c) == b.last < c.first \/ c.last < b.first

(* No page is handed out twice: the block that alloc is about to return    *)
(* and the blocks it has returned never overlap, for every zone size, also *)
(* when the buddy tree covers pages past the end of the zone.              *)
Disjoint ==
  /\ \A b, c \in allocated : b # c => Apart(b, c)
  /\ pc = "update" => \A b \in allocated : Apart(b, Block(order, found))

(* Every block handed out starts inside the zone, and lies inside it when  *)
(* the zone's size is a multiple of the block's: the Used padding of the   *)
(* order lists is never handed out.                                        *)
StartsInZone ==
  \A b \in allocated :
    /\ b.first < num_pages
    /\ num_pages % BlockPages[b.order] = 0 => InZone(b)

(* The debug_assert of Zone::free and the check of PhysAllocator::free,    *)
(* for the blocks that alloc handed out: they are inside the zone.         *)
AllInZone == \A b \in allocated : InZone(b)

(* alloc never reaches its unreachable!(): a block that says it has a free *)
(* block of an order has a child that says so too.                         *)
NeverUnreachable == pc # "unreachable"

(* alloc returns None only when no aligned block of that order is free     *)
(* inside the zone.                                                        *)
NoneOnlyIfExhausted ==
  \A o \in refused : \A i \in 0..(Blocks(num_pages, o) - 1) :
    InZone(Block(o, i)) => \E b \in allocated : ~Apart(b, Block(o, i))

(* The debug_assert of Zone::free: freeing what alloc returned does not    *)
(* panic on its order.                                                     *)
FreeOrderInRange == pc # "free_order"

Abstract == INSTANCE BlockSource

(* What alloc does, seen from outside: the tree and its walks hand out and *)
(* refuse blocks exactly as BlockSource allows.                            *)
RefinesBlockSource == Abstract!Spec
=============================================================================
