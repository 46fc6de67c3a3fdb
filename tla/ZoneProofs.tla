----------------------------- MODULE ZoneProofs -----------------------------
(***************************************************************************)
(* Proofs about Zone for every MaxOrder and every zone size: no page is    *)
(* handed out twice, every block starts inside the zone, the search of     *)
(* alloc never reaches its unreachable!() and refuses an order only when   *)
(* nothing of that order is left, and so Zone implements BlockSource.      *)
(***************************************************************************)
EXTENDS Zone, TLAPS

(* The block of order k that frame f lies in, and its place in the tree.   *)
Node(f, k) == f \div BlockPages[k]

Dom(k) == 0..(Blocks(num_pages, k) - 1)

Val(f, k) == order_list[k][Node(f, k)]

Frames(b) == {f \in Nat : b.first <= f /\ f <= b.last}

(* Above a block that was handed out no block is entirely free, and the    *)
(* block itself is Used.                                                   *)
HeldInv ==
  \A b \in allocated :
    /\ \E o \in Orders, i \in Nat : b = Block(o, i)
    /\ \A f \in Frames(b) :
         /\ Val(f, b.order) = Used
         /\ \A k \in b.order..MaxOrder : Node(f, k) \in Dom(k) /\ Val(f, k) <= k

(* The blocks that the walk of alloc passed through are larger than order. *)
PathInv ==
  pc = "descend" =>
    /\ order <= current
    /\ idx \in Dom(current)
    /\ \A f \in Nat : Node(f, current) = idx =>
         \A k \in current..MaxOrder : Node(f, k) \in Dom(k) /\ LargerThan(Val(f, k), order)

(* While update_tree runs, the blocks it has passed are not entirely free, *)
(* and the block about to be returned meets none that was.                 *)
PendingInv ==
  pc = "update" =>
    /\ order <= current
    /\ found \in Dom(order)
    /\ idx \in Dom(current)
    /\ BlockPages[order] * found < num_pages
    /\ \A f \in Nat : Node(f, order) = found =>
         /\ Node(f, current) = idx
         /\ Val(f, order) = Used
         /\ \A k \in order..MaxOrder : Node(f, k) \in Dom(k)
         /\ \A k \in order..current : Val(f, k) <= k
         /\ \A b \in allocated : f \notin Frames(b)

(* Blocks that start past the end of the zone are Used.                    *)
PaddingInv ==
  /\ \A k \in Orders : \A i \in Dom(k) :
       order_list[k][i] # Used => BlockPages[k] * i < num_pages
  /\ \A b \in allocated : b.first < num_pages

IInv == TypeOK /\ HeldInv /\ PathInv /\ PendingInv /\ PaddingInv /\ Disjoint

-----------------------------------------------------------------------------
(* Arithmetic of blocks.                                                   *)

(* A frame is in block i of order o exactly if its number says so.         *)
LEMMA DivRange ==
  ASSUME NEW b \in Nat \ {0}, NEW i \in Nat, NEW f \in Nat
  PROVE  (b * i <= f /\ f <= b * (i + 1) - 1) <=> f \div b = i
<1> DEFINE q == f \div b
<1>1. q \in Nat /\ b * q <= f /\ f < b * q + b
  BY SMTT(20)
<1> HIDE DEF q
<1>2. b * i \in Nat /\ b * q \in Nat /\ b * (i + 1) = b * i + b /\ b * (q + 1) = b * q + b
  BY <1>1
<1>3. ASSUME i < q PROVE b * i + b <= b * q
  <2>1. PICK d \in Nat : q = i + 1 + d
    <3>1. q - i - 1 \in Nat /\ q = i + 1 + (q - i - 1)
      BY <1>1, <1>3
    <3> QED
      BY <3>1
  <2>2. b * q = b * i + b + b * d /\ b * d \in Nat
    BY <2>1
  <2> QED
    BY <1>2, <2>2
<1>4. ASSUME q < i PROVE b * q + b <= b * i
  <2>1. PICK d \in Nat : i = q + 1 + d
    <3>1. i - q - 1 \in Nat /\ i = q + 1 + (i - q - 1)
      BY <1>1, <1>4
    <3> QED
      BY <3>1
  <2>2. b * i = b * q + b + b * d /\ b * d \in Nat
    BY <1>1, <2>1
  <2> QED
    BY <1>2, <2>2
<1>5. (b * i <= f /\ f <= b * (i + 1) - 1) <=> q = i
  BY <1>1, <1>2, <1>3, <1>4
<1>6. QED
  BY <1>5 DEF q

(* A block of the level below is the left or the right child of its parent. *)
LEMMA HalfOf ==
  ASSUME NEW n \in Nat
  PROVE  n = 2 * (n \div 2) \/ n = 2 * (n \div 2) + 1
  OBVIOUS

(* The parent of the block of f is the block of f one level up.            *)
LEMMA NodeParent ==
  ASSUME NEW f \in Nat, NEW k \in Orders, k < MaxOrder
  PROVE  /\ Node(f, k) \in Nat
         /\ Node(f, k + 1) = Node(f, k) \div 2
<1>1. BlockPages[k] \in Nat \ {0} /\ BlockPages[k + 1] = 2 * BlockPages[k]
  BY MaxOrderAssumption, BlockPagesAssumption, Zenon DEF Orders
<1>2. \A a \in Nat \ {0} : f \div a \in Nat /\ (f \div a) \div 2 = f \div (2 * a)
  BY SMTT(20)
<1>3. QED
  BY <1>1, <1>2 DEF Node

(* A level has half the blocks of the level below it.                      *)
LEMMA BlocksHalve ==
  ASSUME NEW n \in Nat, NEW k \in Orders, k < MaxOrder
  PROVE  /\ Blocks(n, k + 1) \in Nat
         /\ Blocks(n, k) = 2 * Blocks(n, k + 1)
<1>1. MaxOrder - (k + 1) \in Orders /\ MaxOrder - (k + 1) < MaxOrder
  BY MaxOrderAssumption DEF Orders
<1>2. BlockPages[MaxOrder - k] = 2 * BlockPages[MaxOrder - (k + 1)]
  BY <1>1, MaxOrderAssumption, BlockPagesAssumption DEF Orders
<1>3. BlockPages[MaxOrder - (k + 1)] \in Nat \ {0} /\ BlockPages[MaxOrder] \in Nat \ {0}
  <2>1. BlockPages \in [Orders -> Nat \ {0}]
    BY BlockPagesAssumption
  <2>2. MaxOrder \in Orders
    BY MaxOrderAssumption DEF Orders
  <2>3. QED
    BY <1>1, <2>1, <2>2
<1>4. CeilDiv(n, BlockPages[MaxOrder]) \in Nat
  BY <1>3 DEF CeilDiv
<1>5. QED
  BY <1>2, <1>3, <1>4 DEF Blocks

(* The place of a frame in a level of the tree is a natural number.        *)
LEMMA NodeNat ==
  ASSUME NEW f \in Nat, NEW k \in Orders
  PROVE  Node(f, k) \in Nat
<1>1. BlockPages[k] \in Nat \ {0}
  BY BlockPagesAssumption
<1>2. \A a \in Nat \ {0} : f \div a \in Nat
  BY SMTT(20)
<1>3. QED
  BY <1>1, <1>2 DEF Node

(* The frames of a block, and its first one.                               *)
LEMMA BlockFrames ==
  ASSUME NEW o \in Orders, NEW i \in Nat
  PROVE  /\ \A f \in Nat : f \in Frames(Block(o, i)) <=> Node(f, o) = i
         /\ Block(o, i).first \in Nat
         /\ Block(o, i).last \in Nat
         /\ Block(o, i).first \in Frames(Block(o, i))
         /\ Block(o, i).order = o
<1> DEFINE b == BlockPages[o]
<1>1. b \in Nat \ {0}
  BY BlockPagesAssumption
<1> HIDE DEF b
<1>2. b * i \in Nat /\ b * (i + 1) = b * i + b
  BY <1>1
<1>3. \A f \in Nat : f \in Frames(Block(o, i)) <=> f \div b = i
  BY <1>1, DivRange, Zenon DEF Frames, Block, b
<1>4. Block(o, i).first = b * i /\ Block(o, i).last = b * (i + 1) - 1 /\ Block(o, i).order = o
  BY DEF Block, b
<1>5. \A f \in Nat : f \in Frames(Block(o, i)) <=> Node(f, o) = i
  BY <1>3 DEF Node, b
<1>6. Block(o, i).first \in Nat /\ Block(o, i).last \in Nat /\ Block(o, i).first <= Block(o, i).last
  BY <1>1, <1>2, <1>4
<1>7. QED
  BY <1>4, <1>5, <1>6 DEF Frames

(* Blocks with no frame in common are apart.                               *)
LEMMA NoCommonFrame ==
  ASSUME NEW o \in Orders, NEW i \in Nat, NEW p \in Orders, NEW j \in Nat,
         \A f \in Nat : ~(f \in Frames(Block(o, i)) /\ f \in Frames(Block(p, j)))
  PROVE  Apart(Block(o, i), Block(p, j))
<1> DEFINE b == Block(o, i)
           c == Block(p, j)
<1>1. b.first \in Nat /\ b.last \in Nat /\ b.first <= b.last
  BY BlockFrames DEF Frames
<1>2. c.first \in Nat /\ c.last \in Nat /\ c.first <= c.last
  BY BlockFrames DEF Frames
<1>3. \A f \in Nat : ~(b.first <= f /\ f <= b.last /\ c.first <= f /\ f <= c.last)
  BY DEF Frames
<1> HIDE DEF b, c
<1>4. b.last < c.first \/ c.last < b.first
  BY <1>1, <1>2, <1>3
<1>5. QED
  BY <1>4 DEF Apart, b, c

-----------------------------------------------------------------------------
(* What an assignment to one Block does to the tree.                       *)
LEMMA SetBlock ==
  ASSUME TypeOK, num_pages' = num_pages,
         NEW k \in Orders, NEW i \in Dom(k), NEW v \in 0..(k + 1),
         order_list' = [order_list EXCEPT ![k][i] = v]
  PROVE  /\ DOMAIN order_list' = Orders
         /\ \A o \in Orders : order_list'[o] \in [Dom(o) -> 0..(o + 1)]
         /\ \A o \in Orders : \A j \in Dom(o) :
              order_list'[o][j] = IF o = k /\ j = i THEN v ELSE order_list[o][j]
<1>1. DOMAIN order_list = Orders /\ \A o \in Orders : order_list[o] \in [Dom(o) -> 0..(o + 1)]
  BY DEF TypeOK, Dom
<1>2. QED
  BY <1>1

(* A parent is at most as free as its freer child, or one order more when  *)
(* both are equally free; it is Used only if both are.                     *)
LEMMA ParentBounds ==
  ASSUME NEW k \in Nat, NEW left \in 0..k, NEW right \in 0..k
  PROVE  /\ ParentState(left, right) \in 0..(k + 1)
         /\ (left < k \/ right < k) => ParentState(left, right) <= k
         /\ ParentState(left, right) # Used => left # Used \/ right # Used
  BY DEF ParentState, Used

(* The initial states satisfy the invariant: nothing is handed out.        *)
LEMMA InitIInv == Init => IInv
<1> SUFFICES ASSUME Init PROVE IInv
  OBVIOUS
<1>1. PICK largest \in 0..(MaxOrder + 1) : order_list = New(num_pages, largest)
  BY DEF Init
<1>2. num_pages \in Nat \ {0}
  BY SizesAssumption DEF Init
<1>3. \A k \in Orders : BlockPages[k] \in Nat \ {0}
  BY BlockPagesAssumption
<1>4. \A k \in Orders : \A i \in Dom(k) :
        /\ order_list[k][i] = NewBlock(num_pages, largest, k, i)
        /\ order_list[k][i] \in 0..(k + 1)
  BY <1>1, MaxOrderAssumption DEF New, NewBlock, Dom, Orders, FromOrder, Used
<1>5. TypeOK
  BY <1>1, <1>4, MaxOrderAssumption DEF Init, TypeOK, New, Dom, PCs, Orders
<1>6. ASSUME NEW k \in Orders, NEW i \in Dom(k), order_list[k][i] # Used
      PROVE  BlockPages[k] * i < num_pages
  <2> DEFINE b == BlockPages[k]
  <2>1. b \in Nat \ {0} /\ i \in Nat
    BY <1>3 DEF Dom
  <2>2. i = 0 \/ i < CeilDiv(num_pages, b)
    BY <1>4, <1>6 DEF NewBlock
  <2> HIDE DEF b
  <2>3. CASE i = 0
    BY <1>2, <2>1, <2>3 DEF b
  <2>4. CASE i < CeilDiv(num_pages, b)
    <3> DEFINE m == num_pages + b - 1
               q == m \div b
    <3>1. m \in Nat /\ q \in Nat /\ b * q <= m
      BY <1>2, <2>1, SMTT(20)
    <3>2. i + 1 <= q
      BY <2>1, <2>4, <3>1 DEF CeilDiv
    <3> HIDE DEF q
    <3>3. PICK d \in Nat : q = i + 1 + d
      <4>1. q - i - 1 \in Nat /\ q = i + 1 + (q - i - 1)
        BY <2>1, <3>1, <3>2
      <4> QED
        BY <4>1
    <3>4. b * q = b * i + b + b * d /\ b * d \in Nat /\ b * i \in Nat
      BY <2>1, <3>3
    <3> QED
      BY <1>2, <2>1, <3>1, <3>4 DEF b
  <2> QED
    BY <2>2, <2>3, <2>4
<1>7. HeldInv /\ PathInv /\ PendingInv /\ PaddingInv /\ Disjoint
  BY <1>6 DEF Init, HeldInv, PathInv, PendingInv, PaddingInv, Disjoint
<1>8. QED
  BY <1>5, <1>7 DEF IInv

-----------------------------------------------------------------------------
(* A step that leaves the tree and the blocks handed out alone keeps what  *)
(* the invariant says of them.                                             *)
LEMMA SameTree ==
  ASSUME IInv, UNCHANGED <<num_pages, order_list, allocated>>
  PROVE  /\ HeldInv' /\ PaddingInv'
         /\ \A k : Dom(k)' = Dom(k)
         /\ \A f, k : Val(f, k)' = Val(f, k)
         /\ \A b, c \in allocated' : b # c => Apart(b, c)
  BY DEF IInv, HeldInv, PaddingInv, Disjoint, Dom, Val

(* alloc finds a top-level block that is larger than order.                *)
LEMMA FindStep ==
  ASSUME IInv, NEW o \in Orders, AllocFind(o)
  PROVE  IInv'
<1>0. DOMAIN order_list[MaxOrder] = Dom(MaxOrder)
  BY MaxOrderAssumption DEF IInv, TypeOK, Dom, Orders
<1>1. /\ UNCHANGED <<num_pages, order_list, allocated, refused, found>>
      /\ pc' = "descend" /\ order' = o /\ current' = MaxOrder
      /\ idx' \in Dom(MaxOrder) /\ LargerThan(order_list[MaxOrder][idx'], o)
  BY <1>0 DEF AllocFind
<1>2. MaxOrder \in Orders /\ idx' \in Nat
  BY <1>1, MaxOrderAssumption DEF Orders, Dom
<1>3. TypeOK'
  BY <1>1, <1>2 DEF IInv, TypeOK, PCs
<1>4. PathInv'
  <2>1. o <= MaxOrder
    BY MaxOrderAssumption DEF Orders
  <2>2. \A k \in MaxOrder..MaxOrder : k = MaxOrder
    BY MaxOrderAssumption
  <2>3. QED
    BY <1>1, <2>1, <2>2, SameTree DEF PathInv, Val
<1>5. PendingInv' /\ Disjoint'
  BY <1>1, SameTree DEF PendingInv, Disjoint
<1>6. QED
  BY <1>1, <1>3, <1>4, <1>5, SameTree DEF IInv

(* One step of the walk goes to a child that is larger than order.         *)
LEMMA DescendStep ==
  ASSUME IInv, Descend
  PROVE  IInv'
<1> DEFINE c == current - 1
<1>1. /\ UNCHANGED <<num_pages, order_list, allocated, refused, order, found>>
      /\ current' = c /\ current \in Orders /\ order \in Orders /\ order < current
      /\ order <= c /\ c \in Orders /\ c < MaxOrder /\ c + 1 = current
      /\ num_pages \in Nat
  BY MaxOrderAssumption, SizesAssumption DEF Descend, IInv, TypeOK, Orders
<1>2. idx \in Nat /\ idx \in Dom(c + 1)
  BY <1>1 DEF Descend, IInv, PathInv, Dom
<1>3. 2 * idx \in Dom(c) /\ 2 * idx + 1 \in Dom(c)
  BY <1>1, <1>2, BlocksHalve DEF Dom
<1>4. idx' \in {2 * idx, 2 * idx + 1} /\ idx' \div 2 = idx /\ idx' \in Dom(c) /\ idx' \in Nat
  BY <1>2, <1>3 DEF Descend
<1>5. pc' \in {"descend", "unreachable"}
      /\ (pc' = "descend" => LargerThan(order_list[c][idx'], order))
  BY DEF Descend
<1>6. TypeOK'
  BY <1>1, <1>4, <1>5 DEF IInv, TypeOK, PCs
<1>7. PathInv'
  <2> SUFFICES ASSUME pc' = "descend", NEW f \in Nat, Node(f, c) = idx',
                      NEW k \in c..MaxOrder
               PROVE  Node(f, k) \in Dom(k) /\ LargerThan(Val(f, k), order)
    BY <1>1, <1>4, SameTree DEF PathInv
  <2>1. CASE k = c
    BY <1>4, <1>5, <2>1 DEF Val
  <2>2. CASE k # c
    <3>1. k \in current..MaxOrder
      BY <1>1, <2>2, MaxOrderAssumption DEF Orders
    <3>2. Node(f, current) = idx
      BY <1>1, <1>4, NodeParent
    <3> QED
      BY <3>1, <3>2 DEF Descend, IInv, PathInv
  <2> QED
    BY <2>1, <2>2
<1>8. PendingInv' /\ Disjoint'
  BY <1>1, <1>5, SameTree DEF PendingInv, Disjoint
<1>9. QED
  BY <1>1, <1>6, <1>7, <1>8, SameTree DEF IInv

(* The block at the end of the walk meets no block that was handed out: a  *)
(* block inside it would make it not entirely free, a block around it      *)
(* would be Used and on the walk.                                          *)
LEMMA MarkUsedStep ==
  ASSUME IInv, MarkUsed
  PROVE  IInv'
<1>1. /\ UNCHANGED <<num_pages, allocated, refused, order, current, idx>>
      /\ pc = "descend" /\ pc' = "update" /\ found' = idx /\ current = order
      /\ order \in Orders /\ idx \in Dom(order) /\ idx \in Nat
      /\ order_list' = [order_list EXCEPT ![order][idx] = Used]
      /\ Used \in 0..(order + 1) /\ order \in order..MaxOrder
  BY MaxOrderAssumption DEF MarkUsed, IInv, TypeOK, PathInv, Orders, Used, Dom
<1>2. /\ DOMAIN order_list' = Orders
      /\ \A o \in Orders : order_list'[o] \in [Dom(o) -> 0..(o + 1)]
      /\ \A o \in Orders : \A j \in Dom(o) :
           order_list'[o][j] = IF o = order /\ j = idx THEN Used ELSE order_list[o][j]
  BY <1>1, SetBlock, ZenonT(60) DEF IInv
<1>3. \A k : Dom(k)' = Dom(k)
  BY <1>1 DEF Dom
<1>4. TypeOK'
  BY <1>1, <1>2 DEF IInv, TypeOK, Dom, PCs
<1>5. ASSUME NEW f \in Nat, NEW k \in Orders, Node(f, k) \in Dom(k)
      PROVE  Val(f, k)' = IF k = order /\ Node(f, k) = idx THEN Used ELSE Val(f, k)
  BY <1>2, <1>5 DEF Val
<1>6. ASSUME NEW b \in allocated
      PROVE  /\ \E o \in Orders, i \in Nat : b = Block(o, i)
             /\ \A f \in Frames(b) :
                  /\ Val(f, b.order)' = Used
                  /\ \A k \in b.order..MaxOrder : Node(f, k) \in Dom(k) /\ Val(f, k)' <= k
  <2>1. PICK o \in Orders, i \in Nat : b = Block(o, i)
    BY DEF IInv, HeldInv
  <2>2. b.order = o /\ o \in o..MaxOrder /\ \A k \in o..MaxOrder : k \in Orders /\ Used <= k
    BY <2>1, BlockFrames, MaxOrderAssumption DEF Orders, Used
  <2>3. ASSUME NEW f \in Frames(b), NEW k \in o..MaxOrder
        PROVE  Node(f, k) \in Dom(k) /\ Val(f, k)' <= k /\ Val(f, o)' = Used
    <3>1. f \in Nat /\ Node(f, k) \in Dom(k) /\ Node(f, o) \in Dom(o) /\ Val(f, k) <= k /\ Val(f, o) = Used
      BY <2>2 DEF IInv, HeldInv, Frames
    <3> QED
      BY <1>5, <2>2, <3>1
  <2> QED
    BY <2>1, <2>2, <2>3
<1>7. HeldInv'
  BY <1>1, <1>3, <1>6 DEF HeldInv
<1>8. ASSUME NEW f \in Nat, Node(f, order) = idx, NEW b \in allocated
      PROVE  f \notin Frames(b)
  <2> SUFFICES ASSUME f \in Frames(b) PROVE FALSE
    OBVIOUS
  <2>1. PICK o \in Orders, i \in Nat : b = Block(o, i)
    BY DEF IInv, HeldInv
  <2>2. b.order = o
    BY <2>1, BlockFrames
  <2>3. \A k \in order..MaxOrder : LargerThan(Val(f, k), order)
    BY <1>1, <1>8 DEF IInv, PathInv
  <2>4. Val(f, o) = Used /\ \A k \in o..MaxOrder : Val(f, k) <= k
    BY <2>2 DEF IInv, HeldInv
  <2>5. CASE order <= o
    <3>1. o \in order..MaxOrder
      BY <1>1, <2>5, MaxOrderAssumption DEF Orders
    <3> QED
      BY <2>3, <2>4, <3>1 DEF LargerThan
  <2>6. CASE o < order
    <3>1. order \in o..MaxOrder /\ order \in order..MaxOrder /\ Node(f, order) \in Dom(order)
      BY <1>1, <1>8, <2>6, MaxOrderAssumption DEF Orders
    <3>2. Val(f, order) \in 0..(order + 1) /\ Val(f, order) > order /\ Val(f, order) <= order
      BY <1>1, <2>3, <2>4, <3>1, Zenon DEF LargerThan, Val, IInv, TypeOK, Dom
    <3> QED
      BY <1>1, <3>2 DEF Orders
  <2> QED
    BY <1>1, <2>5, <2>6 DEF Orders
<1>9. LargerThan(order_list[order][idx], order) /\ BlockPages[order] * idx < num_pages
  <2> DEFINE f == BlockPages[order] * idx
  <2>1. f \in Nat /\ Node(f, order) = idx
    BY <1>1, BlockFrames DEF Block, Frames
  <2>2. LargerThan(Val(f, order), order)
    BY <1>1, <2>1 DEF IInv, PathInv
  <2> QED
    BY <1>1, <2>1, <2>2 DEF Val, LargerThan, IInv, PaddingInv
<1>10. PendingInv'
  <2> SUFFICES ASSUME NEW f \in Nat, Node(f, order) = idx
               PROVE  /\ Val(f, order)' = Used
                      /\ \A k \in order..MaxOrder : Node(f, k) \in Dom(k)
                      /\ \A k \in order..order : Val(f, k)' <= k
                      /\ \A b \in allocated : f \notin Frames(b)
    BY <1>1, <1>3, <1>9 DEF PendingInv, Orders
  <2>1. \A k \in order..MaxOrder : Node(f, k) \in Dom(k)
    BY <1>1 DEF IInv, PathInv
  <2>2. Val(f, order)' = Used
    BY <1>1, <1>5
  <2>3. \A k \in order..order : k \in Orders /\ k = order /\ Used <= k
    BY <1>1 DEF Orders, Used
  <2>4. \A k \in order..order : Val(f, k)' <= k
    BY <1>1, <1>5, <2>3
  <2> QED
    BY <1>8, <2>1, <2>2, <2>4
<1>11. PaddingInv'
  BY <1>1, <1>2, <1>3 DEF IInv, PaddingInv
<1>12. Disjoint'
  <2>1. ASSUME NEW b \in allocated PROVE Apart(b, Block(order, idx))
    <3>1. PICK o \in Orders, i \in Nat : b = Block(o, i)
      BY DEF IInv, HeldInv
    <3>2. \A f \in Nat : ~(f \in Frames(b) /\ f \in Frames(Block(order, idx)))
      BY <1>1, <1>8, BlockFrames
    <3> QED
      BY <1>1, <3>1, <3>2, NoCommonFrame
  <2> QED
    BY <1>1, <2>1 DEF IInv, Disjoint
<1>13. PathInv'
  BY <1>1 DEF PathInv
<1>14. QED
  BY <1>4, <1>7, <1>10, <1>11, <1>12, <1>13 DEF IInv

(* One step of update_tree: a block above one that was handed out, or      *)
(* above the one about to be, gets a child that is not entirely free.      *)
LEMMA UpdateTreeStep ==
  ASSUME IInv, UpdateTree
  PROVE  IInv'
<1> DEFINE c == current
           p == idx \div 2
           left  == order_list[c][2 * p]
           right == order_list[c][2 * p + 1]
           v == ParentState(left, right)
<1>1. /\ UNCHANGED <<num_pages, allocated, refused, pc, order, found>>
      /\ pc = "update" /\ c \in Orders /\ c < MaxOrder /\ c + 1 \in Orders
      /\ order \in Orders /\ order <= c /\ current' = c + 1 /\ idx' = p
      /\ order_list' = [order_list EXCEPT ![c + 1][p] = v]
      /\ num_pages \in Nat
  BY MaxOrderAssumption, SizesAssumption DEF UpdateTree, IInv, TypeOK, PendingInv, Orders
<1>2. idx \in Nat /\ idx \in Dom(c)
  BY <1>1 DEF IInv, PendingInv, Dom
<1>3. p \in Nat /\ p \in Dom(c + 1) /\ 2 * p \in Dom(c) /\ 2 * p + 1 \in Dom(c)
  BY <1>1, <1>2, BlocksHalve DEF Dom
<1>4. left \in 0..(c + 1) /\ right \in 0..(c + 1)
  BY <1>1, <1>3, Zenon DEF IInv, TypeOK, Dom
<1> HIDE DEF left, right
<1>5. /\ v \in 0..(c + 2)
      /\ left <= c \/ right <= c => v <= c + 1
      /\ v # Used => left # Used \/ right # Used
  BY <1>1, <1>4, ParentBounds DEF Orders
<1> HIDE DEF v, p
<1>6. /\ DOMAIN order_list' = Orders
      /\ \A o \in Orders : order_list'[o] \in [Dom(o) -> 0..(o + 1)]
      /\ \A o \in Orders : \A j \in Dom(o) :
           order_list'[o][j] = IF o = c + 1 /\ j = p THEN v ELSE order_list[o][j]
  <2> DEFINE k == c + 1
  <2>1. v \in 0..(k + 1)
    BY <1>1, <1>5 DEF Orders
  <2>2. k \in Orders /\ p \in Dom(k) /\ TypeOK /\ num_pages' = num_pages
        /\ order_list' = [order_list EXCEPT ![k][p] = v]
    BY <1>1, <1>3 DEF IInv
  <2> HIDE DEF k
  <2>3. /\ DOMAIN order_list' = Orders
        /\ \A o \in Orders : order_list'[o] \in [Dom(o) -> 0..(o + 1)]
        /\ \A o \in Orders : \A j \in Dom(o) :
             order_list'[o][j] = IF o = k /\ j = p THEN v ELSE order_list[o][j]
    BY <2>1, <2>2, SetBlock, ZenonT(60)
  <2>4. QED
    BY <2>3 DEF k
<1>7. \A k : Dom(k)' = Dom(k)
  BY <1>1 DEF Dom
<1>8. TypeOK'
  BY <1>1, <1>3, <1>6 DEF IInv, TypeOK, Dom
<1>9. ASSUME NEW f \in Nat, NEW k \in Orders, Node(f, k) \in Dom(k)
      PROVE  Val(f, k)' = IF k = c + 1 /\ Node(f, k) = p THEN v ELSE Val(f, k)
  BY <1>6, <1>9 DEF Val
<1>10. ASSUME NEW f \in Nat, Node(f, c) \in Dom(c), Val(f, c) <= c, Node(f, c + 1) = p
       PROVE  v <= c + 1
  <2>1. Node(f, c) \in Nat /\ p = Node(f, c) \div 2
    BY <1>1, <1>10, NodeParent
  <2>2. Node(f, c) = 2 * p \/ Node(f, c) = 2 * p + 1
    BY <2>1, HalfOf, Zenon
  <2> QED
    BY <1>5, <1>10, <2>2 DEF Val, left, right
<1>11. ASSUME NEW b \in allocated
       PROVE  /\ \E o \in Orders, i \in Nat : b = Block(o, i)
              /\ \A f \in Frames(b) :
                   /\ Val(f, b.order)' = Used
                   /\ \A k \in b.order..MaxOrder : Node(f, k) \in Dom(k) /\ Val(f, k)' <= k
  <2>1. PICK o \in Orders, i \in Nat : b = Block(o, i)
    BY DEF IInv, HeldInv
  <2>2. b.order = o /\ o \in o..MaxOrder /\ \A k \in o..MaxOrder : k \in Orders /\ Used <= k
    BY <2>1, BlockFrames, MaxOrderAssumption DEF Orders, Used
  <2>3. ASSUME NEW f \in Frames(b), NEW k \in o..MaxOrder
        PROVE  Node(f, k) \in Dom(k) /\ Val(f, k)' <= k /\ Val(f, o)' = Used
    <3>1. f \in Nat /\ Node(f, k) \in Dom(k) /\ Node(f, o) \in Dom(o) /\ Val(f, k) <= k /\ Val(f, o) = Used
      BY <2>2 DEF IInv, HeldInv, Frames
    <3>2. ~(o = c + 1 /\ Node(f, o) = p)
      <4> SUFFICES ASSUME o = c + 1, Node(f, o) = p PROVE FALSE
        OBVIOUS
      <4> DEFINE g == Block(order, found).first
      <4>1. g \in Nat /\ Node(g, order) = found
        BY <1>1, BlockFrames DEF IInv, TypeOK
      <4>2. Node(g, c) = idx /\ g \notin Frames(b)
        BY <1>1, <4>1 DEF IInv, PendingInv
      <4>3. Node(g, o) = p
        BY <1>1, <4>1, <4>2, NodeParent DEF p
      <4>4. i = p
        BY <2>1, <3>1, BlockFrames
      <4> QED
        BY <2>1, <4>1, <4>2, <4>3, <4>4, BlockFrames
    <3>3. ASSUME k = c + 1, Node(f, k) = p PROVE v <= k
      <4>1. o # c + 1
        BY <3>2, <3>3
      <4>2. c \in o..MaxOrder
        BY <1>1, <2>2, <3>3, <4>1 DEF Orders
      <4>3. Node(f, c) \in Dom(c) /\ Val(f, c) <= c
        BY <2>2, <4>2 DEF IInv, HeldInv
      <4> QED
        BY <1>10, <3>1, <3>3, <4>3
    <3> QED
      BY <1>9, <2>2, <3>1, <3>2, <3>3
  <2> QED
    BY <2>1, <2>2, <2>3
<1>12. HeldInv'
  BY <1>1, <1>7, <1>11 DEF HeldInv
<1>13. PendingInv'
  <2> SUFFICES ASSUME NEW f \in Nat, Node(f, order) = found
               PROVE  /\ Node(f, c + 1) = p
                      /\ Val(f, order)' = Used
                      /\ \A k \in order..MaxOrder : Node(f, k) \in Dom(k)
                      /\ \A k \in order..(c + 1) : Val(f, k)' <= k
                      /\ \A b \in allocated : f \notin Frames(b)
    <3>1. order <= c + 1
      BY <1>1 DEF Orders
    <3> QED
      BY <1>1, <1>3, <1>7, <3>1 DEF IInv, PendingInv
  <2>1. /\ Node(f, c) = idx
        /\ Val(f, order) = Used
        /\ \A k \in order..MaxOrder : Node(f, k) \in Dom(k)
        /\ \A k \in order..c : Val(f, k) <= k
        /\ \A b \in allocated : f \notin Frames(b)
    BY <1>1 DEF IInv, PendingInv
  <2>2. Node(f, c + 1) = p
    BY <1>1, <2>1, NodeParent DEF p
  <2>3. Val(f, order)' = Used
    <3>1. order \in order..MaxOrder /\ order # c + 1
      BY <1>1 DEF Orders
    <3> QED
      BY <1>1, <1>9, <2>1, <3>1
  <2>4. ASSUME NEW k \in order..(c + 1) PROVE Val(f, k)' <= k
    <3>1. k \in Orders /\ k \in order..MaxOrder /\ c \in order..c /\ c \in order..MaxOrder
      BY <1>1, MaxOrderAssumption DEF Orders
    <3>2. CASE k = c + 1
      <4>1. Node(f, c) \in Dom(c) /\ Val(f, c) <= c
        BY <2>1, <3>1
      <4>2. v <= c + 1
        BY <1>10, <2>2, <4>1
      <4> QED
        BY <1>9, <2>1, <2>2, <3>1, <3>2, <4>2
    <3>3. CASE k # c + 1
      <4>1. k \in order..c
        BY <1>1, <3>3 DEF Orders
      <4> QED
        BY <1>9, <2>1, <3>1, <3>3, <4>1
    <3> QED
      BY <3>2, <3>3
  <2> QED
    BY <2>1, <2>2, <2>3, <2>4
<1>14. PaddingInv'
  <2>1. v # Used => BlockPages[c + 1] * p < num_pages
    <3>1. BlockPages[c] \in Nat /\ BlockPages[c + 1] = 2 * BlockPages[c]
      BY <1>1, BlockPagesAssumption
    <3>2. BlockPages[c + 1] * p = BlockPages[c] * (2 * p) /\ BlockPages[c] * (2 * p) \in Nat
          /\ BlockPages[c] * (2 * p + 1) = BlockPages[c] * (2 * p) + BlockPages[c]
      BY <1>3, <3>1
    <3>3. /\ left # Used => BlockPages[c] * (2 * p) < num_pages
          /\ right # Used => BlockPages[c] * (2 * p + 1) < num_pages
      BY <1>1, <1>3 DEF IInv, PaddingInv, left, right
    <3> QED
      BY <1>1, <1>5, <3>1, <3>2, <3>3
  <2> QED
    BY <1>1, <1>6, <1>7, <2>1 DEF IInv, PaddingInv
<1>15. PathInv' /\ Disjoint'
  BY <1>1 DEF IInv, PathInv, Disjoint
<1>16. QED
  BY <1>8, <1>12, <1>13, <1>14, <1>15 DEF IInv

(* alloc returns: the pending block joins those handed out.                *)
LEMMA ReturnStep ==
  ASSUME IInv, AllocReturn
  PROVE  IInv'
<1> DEFINE n == Block(order, found)
<1>1. /\ UNCHANGED <<num_pages, order_list, refused>>
      /\ allocated' = allocated \cup {n}
      /\ pc = "update" /\ pc' = "idle" /\ current = MaxOrder /\ current' = 0
      /\ order \in Orders /\ order' = 0 /\ found \in Nat /\ idx' = 0 /\ found' = 0
      /\ 0 \in Orders
  BY MaxOrderAssumption DEF AllocReturn, IInv, TypeOK, Orders
<1>2. /\ \A k : Dom(k)' = Dom(k)
      /\ \A f, k : Val(f, k)' = Val(f, k)
  BY <1>1 DEF Dom, Val
<1>3. TypeOK'
  BY <1>1 DEF IInv, TypeOK, PCs
<1>4. /\ n.order = order
      /\ \A f \in Frames(n) :
           /\ Val(f, order) = Used
           /\ \A k \in order..MaxOrder : Node(f, k) \in Dom(k) /\ Val(f, k) <= k
  BY <1>1, BlockFrames DEF IInv, PendingInv, Frames
<1>5. HeldInv'
  <2> SUFFICES ASSUME NEW b \in allocated \cup {n}
               PROVE  /\ \E o \in Orders, i \in Nat : b = Block(o, i)
                      /\ \A f \in Frames(b) :
                           /\ Val(f, b.order) = Used
                           /\ \A k \in b.order..MaxOrder : Node(f, k) \in Dom(k) /\ Val(f, k) <= k
    BY <1>1, <1>2 DEF HeldInv
  <2>1. CASE b \in allocated
    BY <2>1 DEF IInv, HeldInv
  <2>2. CASE b = n
    BY <1>1, <1>4, <2>2
  <2> QED
    BY <2>1, <2>2
<1>6. PaddingInv'
  <2>1. n.first < num_pages
    BY <1>1 DEF IInv, PendingInv, Block
  <2> QED
    BY <1>1, <1>2, <2>1 DEF IInv, PaddingInv
<1>7. Disjoint'
  <2>1. \A b \in allocated : Apart(b, n) /\ Apart(n, b)
    BY <1>1 DEF IInv, Disjoint, Apart
  <2> QED
    BY <1>1, <2>1 DEF IInv, Disjoint
<1>8. PathInv' /\ PendingInv'
  BY <1>1 DEF PathInv, PendingInv
<1>9. QED
  BY <1>3, <1>5, <1>6, <1>7, <1>8 DEF IInv

-----------------------------------------------------------------------------
(* Every step preserves the invariant.                                     *)
LEMMA StepIInv == IInv /\ [Next]_vars => IInv'
<1> SUFFICES ASSUME IInv, [Next]_vars PROVE IInv'
  BY SMTT(60)
<1>1. ASSUME NEW o \in Orders, AllocNone(o) PROVE IInv'
  <2>1. /\ UNCHANGED <<num_pages, order_list, allocated, pc, order, current, idx, found>>
        /\ refused' \subseteq Orders
    BY <1>1 DEF AllocNone, IInv, TypeOK
  <2> QED
    BY <2>1 DEF IInv, TypeOK, HeldInv, PathInv, PendingInv, PaddingInv, Disjoint, Dom, Val
<1>2. ASSUME NEW b \in allocated, Free(b) PROVE IInv'
  <2>1. /\ UNCHANGED <<num_pages, order_list, allocated, refused, order, current, idx, found>>
        /\ pc' \in {"free_order", "free_unmanaged"}
    BY <1>2 DEF Free
  <2>2. TypeOK' /\ PathInv' /\ PendingInv' /\ Disjoint'
    BY <2>1, SMTT(60) DEF IInv, TypeOK, PathInv, PendingInv, Disjoint, PCs
  <2> QED
    BY <2>1, <2>2, SameTree DEF IInv
<1>3. CASE UNCHANGED vars
  BY <1>3 DEF vars, IInv, TypeOK, HeldInv, PathInv, PendingInv, PaddingInv, Disjoint, Dom, Val
<1> QED
  BY <1>1, <1>2, <1>3, FindStep, DescendStep, MarkUsedStep, UpdateTreeStep, ReturnStep DEF Next

(* Block numbers times block size stay below a multiple of the block size  *)
(* only if the whole block does.                                           *)
LEMMA WholeBlock ==
  ASSUME NEW b \in Nat \ {0}, NEW i \in Nat, NEW n \in Nat, b * i < n, n % b = 0
  PROVE  b * (i + 1) - 1 < n
<1> DEFINE q == n \div b
<1>1. q \in Nat /\ n = b * q
  BY SMTT(20)
<1> HIDE DEF q
<1>2. i < q
  <2> SUFFICES ASSUME q <= i PROVE FALSE
    BY <1>1
  <2>1. i - q \in Nat /\ i = q + (i - q)
    BY <1>1
  <2>2. PICK d \in Nat : i = q + d
    BY <2>1
  <2>3. b * i = b * q + b * d /\ b * d \in Nat /\ b * q \in Nat
    BY <1>1, <2>2
  <2> QED
    BY <1>1, <2>3
<1>3. q - i - 1 \in Nat /\ q = i + 1 + (q - i - 1)
  BY <1>1, <1>2
<1>4. PICK d \in Nat : q = i + 1 + d
  BY <1>3, Zenon
<1>5. b * q = b * (i + 1) + b * d /\ b * d \in Nat /\ b * (i + 1) \in Nat
  BY <1>4
<1>6. QED
  BY <1>1, <1>5

(* The Blocks always fit their level.                                      *)
THEOREM TypeCorrect == Spec => []TypeOK
<1>1. IInv => TypeOK
  BY DEF IInv
<1>2. QED
  BY <1>1, InitIInv, StepIInv, PTL DEF Spec

(* No page is handed out twice, whatever the size of the zone.             *)
THEOREM NoPageTwice == Spec => []Disjoint
<1>1. IInv => Disjoint
  BY DEF IInv
<1>2. QED
  BY <1>1, InitIInv, StepIInv, PTL DEF Spec

(* Every block handed out starts inside the zone, and ends there when the  *)
(* size of the zone is a multiple of the size of the block.                *)
THEOREM NoPaddingHandedOut == Spec => []StartsInZone
<1>1. IInv => StartsInZone
  <2> SUFFICES ASSUME IInv, NEW b \in allocated
               PROVE  /\ b.first < num_pages
                      /\ num_pages % BlockPages[b.order] = 0 => InZone(b)
    BY DEF StartsInZone
  <2>1. PICK o \in Orders, i \in Nat : b = Block(o, i)
    BY DEF IInv, HeldInv
  <2>2. b.first < num_pages /\ num_pages \in Nat /\ BlockPages[o] \in Nat \ {0}
    BY SizesAssumption, BlockPagesAssumption DEF IInv, PaddingInv, TypeOK
  <2>3. b.order = o /\ b.first = BlockPages[o] * i /\ b.last = BlockPages[o] * (i + 1) - 1
    BY <2>1 DEF Block
  <2> QED
    BY <2>2, <2>3, WholeBlock, Zenon DEF InZone
<1>2. QED
  BY <1>1, InitIInv, StepIInv, PTL DEF Spec

-----------------------------------------------------------------------------
(* The search of Zone::alloc.                                              *)

(* The frames under the buddy tree, those past the end of the zone too.    *)
TreeFrames == {f \in Nat : f < CeilDiv(num_pages, BlockPages[MaxOrder]) * BlockPages[MaxOrder]}

IsRight(f, k) == k < MaxOrder /\ Node(f, k) % 2 = 1

(* The left sibling of the block of f, if that is a right one.             *)
Left(f, k) == order_list[k][Node(f, k) - 1]

(* A block says at least what its children say together.                   *)
ParentInv ==
  \A k \in Orders : k < MaxOrder => \A p \in Dom(k + 1) :
    \/ order_list[k + 1][p] = Used
    \/ order_list[k + 1][p] >= ParentState(order_list[k][2 * p], order_list[k][2 * p + 1])

(* What a block says it has, one of its children has, unless the block is  *)
(* the one that update_tree is about to set.                               *)
ChildInv ==
  \A k \in Orders : k < MaxOrder => \A p \in Dom(k + 1) :
    \/ pc = "update" /\ k = current /\ p = idx \div 2
    \/ order_list[k + 1][p] <= order_list[k][2 * p]
    \/ order_list[k + 1][p] <= order_list[k][2 * p + 1]
    \/ order_list[k][2 * p] > k
    \/ order_list[k][2 * p + 1] > k

(* alloc goes right only if the left does not have the order: all blocks   *)
(* of a right half are Used, entirely free, or freer than the left half.   *)
RightInv ==
  \A f \in TreeFrames, k \in Orders : IsRight(f, k) =>
    \A j \in 0..k : Val(f, j) = Used \/ Val(f, j) > Left(f, k) \/ Val(f, j) > j

(* On its way alloc left no block of the order behind to the left, and     *)
(* update_tree has yet to lower the blocks above.                          *)
LowInv ==
  /\ pc = "descend" => \A f \in TreeFrames : Node(f, current) = idx =>
       \A k \in current..MaxOrder : IsRight(f, k) => Left(f, k) <= order
  /\ pc = "update" => \A f \in TreeFrames : Node(f, order) = found =>
       /\ \A k \in order..MaxOrder : IsRight(f, k) => Left(f, k) <= order
       /\ \A k \in order..MaxOrder : k > current => Val(f, k) > order

IsFree(k, i) ==
  /\ InZone(Block(k, i))
  /\ \A b \in allocated : Apart(b, Block(k, i))
  /\ pc = "update" => Apart(Block(order, found), Block(k, i))

(* A block of the zone that is free is known to be, all the way up.        *)
FreeInv ==
  \A k \in Orders : \A i \in Dom(k) : IsFree(k, i) =>
    \A f \in TreeFrames : Node(f, k) = i => \A j \in k..MaxOrder : Val(f, j) > k

SearchInv ==
  /\ IInv /\ ParentInv /\ ChildInv /\ RightInv /\ LowInv /\ FreeInv
  /\ NeverUnreachable /\ NoneOnlyIfExhausted

-----------------------------------------------------------------------------
(* Products keep the order of their factors.                               *)
LEMMA TimesMonotone ==
  ASSUME NEW b \in Nat, NEW x \in Nat, NEW y \in Nat, x <= y
  PROVE  b * x <= b * y
<1>1. y - x \in Nat /\ y = x + (y - x)
  OBVIOUS
<1>2. PICK d \in Nat : y = x + d
  BY <1>1
<1>3. b * y = b * x + b * d /\ b * d \in Nat /\ b * x \in Nat
  BY <1>2
<1> QED
  BY <1>3

(* The block number of a frame is below m exactly if the frame is below m  *)
(* blocks.                                                                 *)
LEMMA DivBelow ==
  ASSUME NEW b \in Nat \ {0}, NEW m \in Nat, NEW f \in Nat
  PROVE  f \div b < m <=> f < b * m
<1> DEFINE q == f \div b
<1>1. q \in Nat /\ b * q <= f /\ f < b * q + b
  BY SMTT(20)
<1> HIDE DEF q
<1>2. b * q \in Nat /\ b * m \in Nat /\ b * (q + 1) = b * q + b
  BY <1>1
<1>3. q < m => b * (q + 1) <= b * m
  BY <1>1, TimesMonotone
<1>4. m <= q => b * m <= b * q
  BY <1>1, TimesMonotone
<1>5. q < m <=> f < b * m
  BY <1>1, <1>2, <1>3, <1>4
<1> QED
  BY <1>5 DEF q

(* Two divisions are one.                                                  *)
LEMMA DivDiv ==
  ASSUME NEW a \in Nat \ {0}, NEW b \in Nat \ {0}, NEW f \in Nat
  PROVE  f \div (a * b) = (f \div a) \div b
<1> DEFINE q == f \div a
           i == q \div b
<1>1. q \in Nat /\ a * q <= f /\ f <= a * q + a - 1
  BY SMTT(20)
<1> HIDE DEF q
<1>2. i \in Nat /\ b * i <= q /\ q <= b * i + b - 1
  BY <1>1, SMTT(20)
<1> HIDE DEF i
<1>3. a * b \in Nat \ {0} /\ b * i \in Nat /\ b * (i + 1) \in Nat
  BY <1>2
<1>4. a * (b * i) <= a * q /\ a * (q + 1) <= a * (b * (i + 1))
  <2>1. q + 1 \in Nat /\ q + 1 <= b * (i + 1)
    BY <1>1, <1>2, <1>3
  <2>2. a * (b * i) <= a * q
    BY <1>1, <1>2, <1>3, TimesMonotone
  <2>3. a * (q + 1) <= a * (b * (i + 1))
    BY <1>3, <2>1, TimesMonotone
  <2> QED
    BY <2>2, <2>3
<1>5. (a * b) * i = a * (b * i) /\ (a * b) * (i + 1) = a * (b * (i + 1)) /\ a * (q + 1) = a * q + a
  BY <1>1, <1>2
<1>6. /\ (a * b) * i <= f /\ f <= (a * b) * (i + 1) - 1
  <2>1. a * (b * i) \in Nat /\ a * q \in Nat /\ a * (b * (i + 1)) \in Nat
    BY <1>1, <1>3
  <2> QED
    BY <1>1, <1>4, <1>5, <2>1
<1>7. f \div (a * b) = i
  BY <1>2, <1>3, <1>6, DivRange
<1> QED
  BY <1>7 DEF i, q

(* The tree has a block of every order for exactly the frames under it.    *)
LEMMA InTree ==
  ASSUME TypeOK, NEW f \in Nat, NEW k \in Orders
  PROVE  Node(f, k) \in Dom(k) <=> f \in TreeFrames
<1> DEFINE C == CeilDiv(num_pages, BlockPages[MaxOrder])
           a == BlockPages[k]
           b == BlockPages[MaxOrder - k]
<1>1. /\ MaxOrder - k \in Orders /\ MaxOrder \in Orders /\ MaxOrder = k + (MaxOrder - k)
      /\ num_pages \in Nat
  BY MaxOrderAssumption, SizesAssumption DEF Orders, TypeOK
<1>2. a \in Nat \ {0} /\ b \in Nat \ {0} /\ BlockPages[MaxOrder] \in Nat \ {0}
  BY <1>1, BlockPagesAssumption
<1>3. BlockPages[MaxOrder] = a * b
  <2>1. BlockPages[k + (MaxOrder - k)] = BlockPages[k] * BlockPages[MaxOrder - k]
    BY <1>1, BlockPagesAssumption, MaxOrderAssumption DEF Orders
  <2> QED
    BY <1>1, <2>1
<1>4. C \in Nat
  BY <1>1, <1>2 DEF CeilDiv
<1>5. Node(f, k) \in Nat /\ Node(f, k) = f \div a
  BY NodeNat DEF Node
<1>6. Blocks(num_pages, k) = C * b
  BY DEF Blocks
<1>7. f \in TreeFrames <=> f < C * BlockPages[MaxOrder]
  BY DEF TreeFrames
<1> HIDE DEF C, a, b
<1>8. C * b \in Nat /\ C * BlockPages[MaxOrder] = a * (C * b)
  BY <1>2, <1>3, <1>4
<1>9. f \div a < C * b <=> f < a * (C * b)
  BY <1>2, <1>8, DivBelow
<1> QED
  BY <1>5, <1>6, <1>7, <1>8, <1>9 DEF Dom

(* Frames in the same block are in the same larger blocks.                 *)
LEMMA NodeUp ==
  ASSUME NEW f \in Nat, NEW g \in Nat, NEW j \in Orders, NEW k \in Orders,
         j <= k, Node(f, j) = Node(g, j)
  PROVE  Node(f, k) = Node(g, k)
<1>1. k - j \in Orders /\ k = j + (k - j)
  BY MaxOrderAssumption DEF Orders
<1>2. BlockPages[j] \in Nat \ {0} /\ BlockPages[k - j] \in Nat \ {0}
  BY <1>1, BlockPagesAssumption
<1>3. BlockPages[k] = BlockPages[j] * BlockPages[k - j]
  <2>1. BlockPages[j + (k - j)] = BlockPages[j] * BlockPages[k - j]
    BY <1>1, BlockPagesAssumption, MaxOrderAssumption DEF Orders
  <2> QED
    BY <1>1, <2>1
<1> DEFINE a == BlockPages[j]
           b == BlockPages[k - j]
<1>4. a \in Nat \ {0} /\ b \in Nat \ {0}
  BY <1>2
<1> HIDE DEF a, b
<1>5. f \div (a * b) = (f \div a) \div b /\ g \div (a * b) = (g \div a) \div b
  BY <1>4, DivDiv
<1> QED
  BY <1>3, <1>5 DEF Node, a, b

(* Larger orders have more pages.                                          *)
LEMMA BlockPagesGrow ==
  ASSUME NEW j \in Orders, NEW k \in Orders, j < k
  PROVE  BlockPages[j] < BlockPages[k]
<1>1. k - j \in Orders /\ k = j + (k - j) /\ k - j - 1 \in Orders /\ k - j - 1 < MaxOrder
  BY MaxOrderAssumption DEF Orders
<1>2. /\ BlockPages[j] \in Nat \ {0} /\ BlockPages[k - j - 1] \in Nat \ {0}
      /\ BlockPages[(k - j - 1) + 1] = 2 * BlockPages[k - j - 1]
  BY <1>1, BlockPagesAssumption
<1>3. (k - j - 1) + 1 = k - j
  BY <1>1 DEF Orders
<1>4. BlockPages[k] = BlockPages[j] * BlockPages[k - j]
  <2>1. BlockPages[j + (k - j)] = BlockPages[j] * BlockPages[k - j]
    BY <1>1, BlockPagesAssumption, MaxOrderAssumption DEF Orders
  <2> QED
    BY <1>1, <2>1
<1> DEFINE b == BlockPages[j]
           c == BlockPages[k - j]
<1>5. b \in Nat \ {0} /\ c \in Nat /\ 2 <= c /\ BlockPages[k] = b * c
  BY <1>2, <1>3, <1>4
<1> HIDE DEF b, c
<1>6. b * 2 <= b * c
  BY <1>5, TimesMonotone
<1> QED
  BY <1>5, <1>6 DEF b

-----------------------------------------------------------------------------
(* A block number is below the rounded-up quotient exactly if the block    *)
(* starts inside the zone.                                                 *)
LEMMA CeilBelow ==
  ASSUME NEW b \in Nat \ {0}, NEW n \in Nat, NEW i \in Nat
  PROVE  i < CeilDiv(n, b) <=> b * i < n
<1> DEFINE m == n + b - 1
           q == m \div b
<1>1. m \in Nat /\ b * (i + 1) = b * i + b /\ b * i \in Nat
  OBVIOUS
<1>2. q < i + 1 <=> m < b * (i + 1)
  BY <1>1, DivBelow
<1>3. q \in Nat
  BY <1>1, SMTT(20)
<1> HIDE DEF q
<1>4. i < q <=> b * i < n
  BY <1>1, <1>2, <1>3
<1> QED
  BY <1>4 DEF q, CeilDiv

(* The Blocks of a new zone.                                               *)
LEMMA NewTree ==
  ASSUME Init
  PROVE  \E largest \in 0..(MaxOrder + 1) :
           /\ \A o \in Orders : o >= largest <=> BlockPages[o] >= num_pages
           /\ \A o \in Orders : \A i \in Dom(o) :
                order_list[o][i] = IF o >= largest /\ i = 0 THEN largest + 1
                                   ELSE IF BlockPages[o] * i < num_pages THEN o + 1 ELSE 0
<1>1. PICK largest \in 0..(MaxOrder + 1) :
        IsLargestOrder(num_pages, largest) /\ order_list = New(num_pages, largest)
  BY DEF Init
<1>2. num_pages \in Nat /\ MaxOrder \in Nat
  BY SizesAssumption, MaxOrderAssumption DEF Init
<1>3. ASSUME NEW o \in Orders
      PROVE  o >= largest <=> BlockPages[o] >= num_pages
  <2>1. o \in Nat /\ o <= MaxOrder /\ BlockPages[o] \in Nat
    <3>1. BlockPages[o] \in Nat
      BY BlockPagesAssumption
    <3> QED
      BY <1>2, <3>1 DEF Orders
  <2>2. CASE o < largest
    BY <1>1, <1>2, <2>1, <2>2 DEF IsLargestOrder
  <2>3. CASE o = largest
    BY <1>1, <2>1, <2>3 DEF IsLargestOrder
  <2>4. CASE o > largest
    <3>1. largest \in Orders /\ BlockPages[largest] \in Nat /\ BlockPages[largest] >= num_pages
      BY <1>1, <1>2, <2>1, <2>4, BlockPagesAssumption DEF IsLargestOrder, Orders
    <3>2. BlockPages[largest] < BlockPages[o]
      BY <2>4, <3>1, BlockPagesGrow
    <3> QED
      BY <1>2, <2>1, <2>4, <3>1, <3>2
  <2> QED
    BY <1>2, <2>1, <2>2, <2>3, <2>4
<1>4. ASSUME NEW o \in Orders, NEW i \in Dom(o)
      PROVE  order_list[o][i] = IF o >= largest /\ i = 0 THEN largest + 1
                                ELSE IF BlockPages[o] * i < num_pages THEN o + 1 ELSE 0
  <2>1. i \in Nat /\ BlockPages[o] \in Nat \ {0}
    BY BlockPagesAssumption DEF Dom
  <2>2. i < CeilDiv(num_pages, BlockPages[o]) <=> BlockPages[o] * i < num_pages
    BY <1>2, <2>1, CeilBelow
  <2> QED
    BY <1>1, <2>2 DEF New, NewBlock, Dom, FromOrder, Used
<1> QED
  BY <1>3, <1>4

(* The initial tree satisfies the invariant.                               *)
LEMMA InitSearchInv == Init => SearchInv
<1> SUFFICES ASSUME Init PROVE SearchInv
  OBVIOUS
<1>1. PICK largest \in 0..(MaxOrder + 1) :
           /\ \A o \in Orders : o >= largest <=> BlockPages[o] >= num_pages
           /\ \A o \in Orders : \A i \in Dom(o) :
                order_list[o][i] = IF o >= largest /\ i = 0 THEN largest + 1
                                   ELSE IF BlockPages[o] * i < num_pages THEN o + 1 ELSE 0
  BY NewTree
<1>2. IInv /\ TypeOK
  BY InitIInv DEF IInv
<1>3. num_pages \in Nat \ {0} /\ MaxOrder \in Nat
  BY <1>2, SizesAssumption, MaxOrderAssumption, Zenon DEF TypeOK
<1>4. ASSUME NEW k \in Orders, k < MaxOrder, NEW p \in Dom(k + 1)
      PROVE  LET v == order_list[k + 1][p]
                 l == order_list[k][2 * p]
                 r == order_list[k][2 * p + 1]
             IN  /\ v = Used \/ v >= ParentState(l, r)
                 /\ v <= l \/ v <= r \/ l > k \/ r > k
  <2> DEFINE v == order_list[k + 1][p]
             l == order_list[k][2 * p]
             r == order_list[k][2 * p + 1]
             b == BlockPages[k]
  <2>1. /\ k \in Nat /\ k + 1 \in Orders /\ p \in Nat
        /\ 2 * p \in Dom(k) /\ 2 * p + 1 \in Dom(k)
    BY <1>3, <1>4, BlocksHalve DEF Orders, Dom
  <2>2. b \in Nat \ {0} /\ BlockPages[k + 1] = 2 * b
    BY <1>4, BlockPagesAssumption
  <2>3. /\ v = IF k + 1 >= largest /\ p = 0 THEN largest + 1
               ELSE IF BlockPages[k + 1] * p < num_pages THEN k + 2 ELSE 0
        /\ l = IF k >= largest /\ 2 * p = 0 THEN largest + 1
               ELSE IF b * (2 * p) < num_pages THEN k + 1 ELSE 0
        /\ r = IF b * (2 * p + 1) < num_pages THEN k + 1 ELSE 0
    BY <1>1, <2>1
  <2>4. k >= largest <=> b >= num_pages
    BY <1>1
  <2> HIDE DEF v, l, r, b
  <2>5. BlockPages[k + 1] * p = b * (2 * p) /\ b * (2 * p) \in Nat
        /\ b * (2 * p + 1) = b * (2 * p) + b
    BY <2>1, <2>2
  <2>6. l \in 0..(k + 1) /\ r \in 0..(k + 1)
    BY <2>1, <2>3
  <2>7. ParentState(l, r) <= k + 2
    BY <2>1, <2>6 DEF ParentState
  <2>8. CASE k >= largest /\ p = 0
    <3>1. v = largest + 1 /\ l = largest + 1 /\ r = 0
      BY <1>3, <2>1, <2>2, <2>3, <2>4, <2>5, <2>8
    <3> QED
      BY <3>1 DEF ParentState, Used, v, l, r
  <2>9. CASE ~(k >= largest /\ p = 0)
    <3>1. v = k + 2 \/ v = 0
      BY <2>1, <2>3, <2>9
    <3>2. v = k + 2 => l = k + 1
      BY <1>3, <2>1, <2>2, <2>3, <2>5, <2>9
    <3>3. v = Used \/ v >= ParentState(l, r)
      BY <2>1, <2>6, <2>7, <3>1 DEF Used, ParentState
    <3>4. v <= l \/ l > k
      BY <2>1, <2>6, <3>1, <3>2
    <3> QED
      BY <3>3, <3>4 DEF v, l, r
  <2> QED
    BY <2>8, <2>9
<1>5. ParentInv /\ ChildInv
  BY <1>4 DEF ParentInv, ChildInv
<1>6. RightInv
  <2> SUFFICES ASSUME NEW f \in TreeFrames, NEW k \in Orders, IsRight(f, k), NEW j \in 0..k
               PROVE  Val(f, j) = Used \/ Val(f, j) > j
    BY DEF RightInv
  <2>1. f \in Nat /\ j \in Orders /\ j \in Nat /\ j <= k /\ 0 \in Nat
    BY <1>3 DEF TreeFrames, Orders
  <2>2. Node(f, j) \in Dom(j)
    BY <1>2, <2>1, InTree
  <2>3. Node(f, j) # 0
    <3> SUFFICES ASSUME Node(f, j) = 0 PROVE FALSE
      OBVIOUS
    <3>1. BlockPages[j] \in Nat \ {0} /\ BlockPages[k] \in Nat \ {0}
      BY <2>1, BlockPagesAssumption
    <3>2. Node(0, j) = 0 /\ Node(0, k) = 0
      BY <3>1 DEF Node
    <3>3. Node(f, k) = 0
      BY <2>1, <3>2, NodeUp
    <3> QED
      BY <3>3 DEF IsRight
  <2> QED
    BY <1>1, <2>1, <2>2, <2>3 DEF Val, Used
<1>7. FreeInv
  <2> SUFFICES ASSUME NEW k \in Orders, NEW i \in Dom(k), IsFree(k, i),
                      NEW f \in TreeFrames, Node(f, k) = i, NEW j \in k..MaxOrder
               PROVE  Val(f, j) > k
    BY DEF FreeInv
  <2>1. f \in Nat /\ j \in Orders /\ i \in Nat /\ k \in Nat /\ j \in Nat /\ k <= j
    BY <1>3 DEF TreeFrames, Orders, Dom
  <2>2. Node(f, j) \in Dom(j) /\ Node(f, j) \in Nat
    BY <1>2, <2>1, InTree, NodeNat
  <2>3. f < num_pages /\ BlockPages[k] * (i + 1) - 1 < num_pages
    <3>1. f \in Frames(Block(k, i))
      BY <2>1, BlockFrames
    <3>2. Block(k, i).last < num_pages /\ Block(k, i).last \in Nat
      BY <2>1, BlockFrames DEF IsFree, InZone
    <3> QED
      BY <1>3, <2>1, <3>1, <3>2 DEF Frames, Block
  <2>4. BlockPages[j] * Node(f, j) < num_pages
    <3>1. f \in Frames(Block(j, Node(f, j)))
      BY <2>1, <2>2, BlockFrames
    <3>2. BlockPages[j] * Node(f, j) \in Nat /\ BlockPages[j] * Node(f, j) <= f
      BY <2>1, <2>2, <3>1, BlockFrames, Zenon DEF Frames, Block
    <3> QED
      BY <1>3, <2>1, <2>3, <3>2
  <2>5. k <= largest
    <3> SUFFICES ASSUME k > largest PROVE FALSE
      BY <2>1
    <3>1. largest \in Orders /\ BlockPages[largest] >= num_pages
      BY <1>1, <1>3 DEF Orders
    <3>2. BlockPages[largest] < BlockPages[k] /\ BlockPages[k] \in Nat \ {0} /\ BlockPages[largest] \in Nat
      BY <3>1, BlockPagesGrow, BlockPagesAssumption
    <3>3. BlockPages[k] * 1 <= BlockPages[k] * (i + 1)
      BY <2>1, <3>2, TimesMonotone
    <3> QED
      BY <1>3, <2>1, <2>3, <3>1, <3>2, <3>3
  <2> QED
    BY <1>1, <2>1, <2>2, <2>4, <2>5 DEF Val
<1>8. LowInv /\ NeverUnreachable /\ NoneOnlyIfExhausted
  BY DEF Init, LowInv, NeverUnreachable, NoneOnlyIfExhausted
<1> QED
  BY <1>2, <1>5, <1>6, <1>7, <1>8 DEF SearchInv

-----------------------------------------------------------------------------
(* A child that says less does not make the parent say more.               *)
LEMMA ParentStateMonotone ==
  ASSUME NEW l \in Nat, NEW m \in Nat, NEW r \in Nat, m <= l
  PROVE  ParentState(m, r) <= ParentState(l, r) /\ ParentState(r, m) <= ParentState(r, l)
BY DEF ParentState, Used

(* The first frame of a block is in it.                                    *)
LEMMA FirstFrame ==
  ASSUME NEW o \in Orders, NEW i \in Nat
  PROVE  BlockPages[o] * i \in Nat /\ Node(BlockPages[o] * i, o) = i
<1>1. Block(o, i).first = BlockPages[o] * i
  BY DEF Block
<1> QED
  BY <1>1, BlockFrames

(* Blocks with a frame in common are not apart.                            *)
LEMMA CommonFrame ==
  ASSUME NEW o \in Orders, NEW i \in Nat, NEW p \in Orders, NEW j \in Nat,
         NEW f \in Nat, Node(f, o) = i, Node(f, p) = j
  PROVE  ~Apart(Block(o, i), Block(p, j)) /\ ~Apart(Block(p, j), Block(o, i))
<1> DEFINE b == Block(o, i)
           c == Block(p, j)
<1>1. /\ b.first \in Nat /\ b.last \in Nat /\ b.first <= f /\ f <= b.last
      /\ c.first \in Nat /\ c.last \in Nat /\ c.first <= f /\ f <= c.last
  BY BlockFrames DEF Frames
<1> HIDE DEF b, c
<1>2. ~Apart(b, c) /\ ~Apart(c, b)
  BY <1>1 DEF Apart
<1> QED
  BY <1>2 DEF b, c

(* What the Blocks of a level may say.                                     *)
LEMMA BlockValue ==
  ASSUME TypeOK, NEW o \in Orders, NEW j \in Dom(o)
  PROVE  order_list[o][j] \in 0..(o + 1) /\ order_list[o][j] \in Nat
<1>1. order_list[o] \in [Dom(o) -> 0..(o + 1)]
  BY DEF TypeOK, Dom
<1>2. order_list[o][j] \in 0..(o + 1)
  BY <1>1
<1> QED
  BY <1>2

(* A right block has a left sibling.                                       *)
LEMMA LeftSibling ==
  ASSUME TypeOK, NEW f \in TreeFrames, NEW k \in Orders, IsRight(f, k)
  PROVE  Node(f, k) \in Nat \ {0} /\ Node(f, k) - 1 \in Dom(k)
<1>1. f \in Nat /\ num_pages \in Nat
  BY SizesAssumption DEF TreeFrames, TypeOK
<1>2. Node(f, k) \in Dom(k) /\ Node(f, k) \in Nat
  BY <1>1, InTree, NodeNat
<1>3. Node(f, k) # 0
  BY DEF IsRight
<1>4. Blocks(num_pages, k) \in Nat
  BY <1>1, BlocksHalve DEF IsRight
<1> QED
  BY <1>2, <1>3, <1>4 DEF Dom

(* A Block is lowered: to Used, or to what its children say together.  The *)
(* tree stays as it should be if the new value is above the left siblings  *)
(* of the right blocks around it.                                          *)
LEMMA LowerBlock ==
  ASSUME TypeOK, ParentInv, RightInv, num_pages' = num_pages,
         NEW n \in Orders, NEW i \in Dom(n), NEW v \in 0..(n + 1),
         order_list' = [order_list EXCEPT ![n][i] = v],
         v <= order_list[n][i],
         \A k \in Orders : k + 1 = n =>
           v = Used \/ v = ParentState(order_list[k][2 * i], order_list[k][2 * i + 1]),
         \A f \in TreeFrames, k \in Orders :
           n <= k /\ Node(f, n) = i /\ IsRight(f, k) => v = Used \/ v > Left(f, k)
  PROVE  ParentInv' /\ RightInv'
<1>1. /\ \A o \in Orders : \A j \in Dom(o) :
           order_list'[o][j] = IF o = n /\ j = i THEN v ELSE order_list[o][j]
      /\ \A o \in Orders : \A j \in Dom(o) : order_list[o][j] \in 0..(o + 1)
      /\ \A o : Dom(o)' = Dom(o)
      /\ TreeFrames' = TreeFrames
  <2>1. \A o \in Orders : \A j \in Dom(o) :
           order_list'[o][j] = IF o = n /\ j = i THEN v ELSE order_list[o][j]
    BY SetBlock, ZenonT(60)
  <2>2. \A o \in Orders : \A j \in Dom(o) : order_list[o][j] \in 0..(o + 1)
    BY Zenon DEF TypeOK, Dom
  <2>3. (\A o : Dom(o)' = Dom(o)) /\ TreeFrames' = TreeFrames
    BY DEF Dom, TreeFrames
  <2> QED
    BY <2>1, <2>2, <2>3
<1>2. num_pages \in Nat /\ MaxOrder \in Nat
  BY SizesAssumption, MaxOrderAssumption DEF TypeOK
<1>3. ParentInv'
  <2> SUFFICES ASSUME NEW k \in Orders, k < MaxOrder, NEW p \in Dom(k + 1)
               PROVE  \/ order_list'[k + 1][p] = Used
                      \/ order_list'[k + 1][p] >=
                           ParentState(order_list'[k][2 * p], order_list'[k][2 * p + 1])
    BY <1>1 DEF ParentInv
  <2> DEFINE x == order_list[k + 1][p]
             l == order_list[k][2 * p]
             r == order_list[k][2 * p + 1]
             y == order_list'[k + 1][p]
             m == order_list'[k][2 * p]
             s == order_list'[k][2 * p + 1]
  <2>1. /\ k \in Nat /\ k + 1 \in Orders /\ k # k + 1 /\ p \in Nat
        /\ 2 * p \in Dom(k) /\ 2 * p + 1 \in Dom(k) /\ 2 * p # 2 * p + 1
    BY <1>2, BlocksHalve DEF Orders, Dom
  <2>2. x = Used \/ x >= ParentState(l, r)
    BY DEF ParentInv
  <2>3. x \in Nat /\ l \in Nat /\ r \in Nat /\ v \in Nat
    BY <1>1, <2>1
  <2>4. /\ y = IF k + 1 = n /\ p = i THEN v ELSE x
        /\ m = IF k = n /\ 2 * p = i THEN v ELSE l
        /\ s = IF k = n /\ 2 * p + 1 = i THEN v ELSE r
    BY <1>1, <2>1
  <2>5. k + 1 = n /\ p = i => v = Used \/ v = ParentState(l, r)
    OBVIOUS
  <2>6. /\ k = n /\ 2 * p = i => v <= l
        /\ k = n /\ 2 * p + 1 = i => v <= r
    OBVIOUS
  <2>7. ParentState(l, r) \in Nat
    BY <2>3 DEF ParentState
  <2> HIDE DEF x, l, r, y, m, s
  <2>8. CASE k + 1 = n /\ p = i
    <3>1. y = v /\ m = l /\ s = r
      BY <2>1, <2>4, <2>8
    <3> QED
      BY <2>3, <2>5, <2>7, <2>8, <3>1 DEF y, m, s
  <2>9. CASE k = n /\ 2 * p = i
    <3>1. y = x /\ m = v /\ s = r /\ v <= l
      BY <2>1, <2>4, <2>6, <2>9
    <3>2. ParentState(v, r) <= ParentState(l, r) /\ ParentState(v, r) \in Nat
      BY <2>3, <3>1, ParentStateMonotone DEF ParentState
    <3> QED
      BY <2>2, <2>3, <2>7, <3>1, <3>2 DEF y, m, s
  <2>10. CASE k = n /\ 2 * p + 1 = i
    <3>1. y = x /\ m = l /\ s = v /\ v <= r
      BY <2>1, <2>4, <2>6, <2>10
    <3>2. ParentState(l, v) <= ParentState(l, r) /\ ParentState(l, v) \in Nat
      BY <2>3, <3>1, ParentStateMonotone DEF ParentState
    <3> QED
      BY <2>2, <2>3, <2>7, <3>1, <3>2 DEF y, m, s
  <2>11. CASE ~(k + 1 = n /\ p = i) /\ ~(k = n /\ 2 * p = i) /\ ~(k = n /\ 2 * p + 1 = i)
    BY <2>2, <2>4, <2>11 DEF y, m, s
  <2> QED
    BY <2>8, <2>9, <2>10, <2>11
<1>4. RightInv'
  <2> SUFFICES ASSUME NEW f \in TreeFrames, NEW k \in Orders, IsRight(f, k), NEW j \in 0..k
               PROVE  Val(f, j)' = Used \/ Val(f, j)' > Left(f, k)' \/ Val(f, j)' > j
    BY <1>1 DEF RightInv, IsRight
  <2>1. f \in Nat /\ j \in Orders /\ j \in Nat /\ k \in Nat
    BY <1>2 DEF TreeFrames, Orders
  <2>2. Node(f, j) \in Dom(j) /\ Node(f, k) \in Dom(k) /\ Node(f, k) \in Nat
    BY <2>1, InTree, NodeNat
  <2>3. Node(f, k) - 1 \in Dom(k)
    BY LeftSibling
  <2> DEFINE x == Val(f, j)
             l == Left(f, k)
             y == Val(f, j)'
             m == Left(f, k)'
  <2>4. /\ y = IF j = n /\ Node(f, j) = i THEN v ELSE x
        /\ m = IF k = n /\ Node(f, k) - 1 = i THEN v ELSE l
    BY <1>1, <2>1, <2>2, <2>3 DEF Val, Left
  <2>5. x \in Nat /\ l \in Nat /\ v \in Nat
    BY <1>1, <2>1, <2>2, <2>3 DEF Val, Left
  <2>6. m <= l /\ m \in Nat
    BY <2>4, <2>5 DEF Left
  <2>7. x = Used \/ x > l \/ x > j
    BY DEF RightInv
  <2>8. CASE j = n /\ Node(f, j) = i
    <3>1. y = v /\ (v = Used \/ v > l)
      BY <2>1, <2>4, <2>8
    <3> QED
      BY <2>5, <2>6, <3>1
  <2>9. CASE ~(j = n /\ Node(f, j) = i)
    BY <2>4, <2>5, <2>6, <2>7, <2>9
  <2> QED
    BY <2>8, <2>9
<1> QED
  BY <1>3, <1>4

-----------------------------------------------------------------------------
(* A step that leaves the tree alone keeps what the invariant says of it.  *)
LEMMA SameSearch ==
  ASSUME SearchInv, UNCHANGED <<num_pages, order_list>>
  PROVE  /\ ParentInv' /\ RightInv'
         /\ TreeFrames' = TreeFrames
         /\ \A k : Dom(k)' = Dom(k)
         /\ \A f, k : Val(f, k)' = Val(f, k) /\ Left(f, k)' = Left(f, k)
<1>1. /\ TreeFrames' = TreeFrames
      /\ \A k : Dom(k)' = Dom(k)
      /\ \A f, k : Val(f, k)' = Val(f, k) /\ Left(f, k)' = Left(f, k)
  BY DEF TreeFrames, Dom, Val, Left
<1>2. ParentInv'
  BY <1>1 DEF SearchInv, ParentInv
<1>3. RightInv'
  BY <1>1 DEF SearchInv, RightInv, IsRight
<1> QED
  BY <1>1, <1>2, <1>3

(* So does a step that starts and ends outside update_tree.                *)
LEMMA OutsideUpdate ==
  ASSUME SearchInv, UNCHANGED <<num_pages, order_list, allocated>>,
         pc # "update", pc' # "update"
  PROVE  ChildInv' /\ FreeInv' /\ (UNCHANGED refused => NoneOnlyIfExhausted')
<1>1. ChildInv'
  BY SameSearch DEF SearchInv, ChildInv
<1>2. FreeInv'
  <2>1. \A k, i : IsFree(k, i)' => IsFree(k, i)
    BY DEF IsFree, InZone
  <2> QED
    BY <2>1, SameSearch DEF SearchInv, FreeInv
<1>3. UNCHANGED refused => NoneOnlyIfExhausted'
  BY DEF SearchInv, NoneOnlyIfExhausted, InZone
<1> QED
  BY <1>1, <1>2, <1>3

(* alloc starts at the top level, where there are no siblings.             *)
LEMMA FindSearch ==
  ASSUME SearchInv, NEW o \in Orders, AllocFind(o)
  PROVE  SearchInv'
<1>1. /\ UNCHANGED <<num_pages, order_list, allocated, refused>>
      /\ pc = "idle" /\ pc' = "descend" /\ current' = MaxOrder
  BY DEF AllocFind
<1>2. LowInv'
  <2>1. \A k \in MaxOrder..MaxOrder : ~(k < MaxOrder)
    BY MaxOrderAssumption
  <2> QED
    BY <1>1, <2>1 DEF LowInv, IsRight
<1>3. IInv' /\ NeverUnreachable'
  BY <1>1, FindStep DEF SearchInv, NeverUnreachable
<1> QED
  BY <1>1, <1>2, <1>3, SameSearch, OutsideUpdate DEF SearchInv

(* The walk finds a child that has the order, and goes right only if the   *)
(* left one does not.                                                      *)
LEMMA DescendSearch ==
  ASSUME SearchInv, Descend
  PROVE  SearchInv'
<1> DEFINE c == current - 1
           l == order_list[c][2 * idx]
           r == order_list[c][2 * idx + 1]
<1>1. /\ UNCHANGED <<num_pages, order_list, allocated, refused, order, found>>
      /\ pc = "descend" /\ current' = c /\ pc' \in {"descend", "unreachable"}
      /\ current \in Orders /\ order \in Nat /\ order < current
      /\ order <= c /\ c \in Orders /\ c \in Nat /\ c < MaxOrder /\ c + 1 = current
      /\ num_pages \in Nat /\ IInv /\ TypeOK /\ MaxOrder \in Nat
  BY MaxOrderAssumption, SizesAssumption DEF Descend, SearchInv, IInv, TypeOK, Orders
<1>2. idx \in Nat /\ idx \in Dom(c + 1)
  BY <1>1 DEF IInv, PathInv, Dom
<1>3. 2 * idx \in Dom(c) /\ 2 * idx + 1 \in Dom(c)
  BY <1>1, <1>2, BlocksHalve DEF Dom
<1>4. order_list[c + 1][idx] \in Nat /\ l \in Nat /\ r \in Nat
  BY <1>1, <1>2, <1>3, BlockValue
<1>5. order_list[c + 1][idx] > order
  <2> DEFINE f == BlockPages[c + 1] * idx
  <2>1. f \in Nat /\ Node(f, c + 1) = idx
    BY <1>1, <1>2, FirstFrame
  <2>2. current \in current..MaxOrder
    BY <1>1 DEF Orders
  <2>3. LargerThan(Val(f, current), order)
    BY <1>1, <2>1, <2>2 DEF IInv, PathInv
  <2> QED
    BY <1>1, <2>1, <2>3 DEF Val, LargerThan
<1>6. l > order \/ r > order
  <2>1. \/ order_list[c + 1][idx] <= l
        \/ order_list[c + 1][idx] <= r
        \/ l > c
        \/ r > c
    BY <1>1, <1>2 DEF SearchInv, ChildInv
  <2> HIDE DEF l, r, c
  <2> QED
    BY <1>1, <1>4, <1>5, <2>1
<1>7. /\ pc' = "descend"
      /\ \/ idx' = 2 * idx
         \/ idx' = 2 * idx + 1 /\ l <= order
  <2>1. /\ idx' = IF LargerThan(l, order) THEN 2 * idx ELSE 2 * idx + 1
        /\ pc' = IF LargerThan(l, order) \/ LargerThan(r, order) THEN "descend" ELSE "unreachable"
    BY DEF Descend
  <2> HIDE DEF l, r, c
  <2>2. /\ LargerThan(l, order) <=> l > order
        /\ LargerThan(r, order) <=> r > order
    BY <1>1, <1>4 DEF LargerThan, Used
  <2> QED
    BY <1>1, <1>4, <1>6, <2>1, <2>2
<1>8. LowInv'
  <2> SUFFICES ASSUME NEW f \in TreeFrames, Node(f, c) = idx', NEW k \in c..MaxOrder, IsRight(f, k)
               PROVE  Left(f, k) <= order
    BY <1>1, <1>7, SameSearch DEF LowInv, IsRight
  <2>1. f \in Nat /\ Node(f, c + 1) = Node(f, c) \div 2
    BY <1>1, NodeParent DEF TreeFrames
  <2>2. CASE k = c
    <3>1. idx' = 2 * idx + 1
      BY <1>2, <1>7, <2>2 DEF IsRight
    <3>2. idx' - 1 = 2 * idx /\ l <= order
      BY <1>2, <1>7, <3>1
    <3> QED
      BY <2>2, <3>2 DEF Left
  <2>3. CASE k # c
    <3>1. k \in current..MaxOrder
      BY <1>1, <2>3
    <3>2. Node(f, current) = idx
      BY <1>1, <1>2, <1>7, <2>1
    <3> QED
      BY <1>1, <3>1, <3>2 DEF SearchInv, LowInv
  <2> QED
    BY <2>2, <2>3
<1>9. IInv' /\ NeverUnreachable'
  BY <1>7, DescendStep DEF SearchInv, NeverUnreachable
<1> QED
  BY <1>1, <1>7, <1>8, <1>9, SameSearch, OutsideUpdate DEF SearchInv

(* The block found becomes Used; the blocks above it are yet to be told.   *)
LEMMA MarkUsedSearch ==
  ASSUME SearchInv, MarkUsed
  PROVE  SearchInv'
<1>1. /\ UNCHANGED <<num_pages, allocated, refused, order, current, idx>>
      /\ pc = "descend" /\ pc' = "update" /\ found' = idx /\ current = order
      /\ order \in Orders /\ idx \in Dom(order) /\ idx \in Nat
      /\ order_list' = [order_list EXCEPT ![order][idx] = Used]
      /\ Used \in 0..(order + 1) /\ order \in Nat /\ order <= MaxOrder
      /\ IInv /\ TypeOK /\ num_pages \in Nat /\ MaxOrder \in Nat
  BY MaxOrderAssumption, SizesAssumption
     DEF MarkUsed, SearchInv, IInv, TypeOK, PathInv, Orders, Used, Dom
<1>2. /\ \A o \in Orders : \A j \in Dom(o) :
           order_list'[o][j] = IF o = order /\ j = idx THEN Used ELSE order_list[o][j]
      /\ \A o : Dom(o)' = Dom(o)
      /\ TreeFrames' = TreeFrames
  <2>1. \A o \in Orders : \A j \in Dom(o) :
           order_list'[o][j] = IF o = order /\ j = idx THEN Used ELSE order_list[o][j]
    BY <1>1, SetBlock, ZenonT(60)
  <2> QED
    BY <1>1, <2>1 DEF Dom, TreeFrames
<1>3. ParentInv' /\ RightInv'
  <2>1. Used <= order_list[order][idx]
    BY <1>1, BlockValue DEF Used
  <2> QED
    BY <1>1, <2>1, LowerBlock, Zenon DEF SearchInv
<1>4. ChildInv'
  <2> SUFFICES ASSUME NEW k \in Orders, k < MaxOrder, NEW p \in Dom(k + 1),
                      ~(k = order /\ p = idx \div 2)
               PROVE  \/ order_list'[k + 1][p] <= order_list'[k][2 * p]
                      \/ order_list'[k + 1][p] <= order_list'[k][2 * p + 1]
                      \/ order_list'[k][2 * p] > k
                      \/ order_list'[k][2 * p + 1] > k
    BY <1>1, <1>2 DEF ChildInv
  <2>1. /\ k \in Nat /\ k + 1 \in Orders /\ k # k + 1 /\ p \in Nat
        /\ 2 * p \in Dom(k) /\ 2 * p + 1 \in Dom(k)
    BY <1>1, BlocksHalve DEF Orders, Dom
  <2>2. ~(k = order /\ 2 * p = idx) /\ ~(k = order /\ 2 * p + 1 = idx)
    BY <2>1
  <2>3. order_list'[k][2 * p] = order_list[k][2 * p]
        /\ order_list'[k][2 * p + 1] = order_list[k][2 * p + 1]
    BY <1>2, <2>1, <2>2
  <2>4. CASE k + 1 = order /\ p = idx
    BY <1>2, <2>1, <2>3, <2>4, BlockValue, <1>1 DEF Used
  <2>5. CASE ~(k + 1 = order /\ p = idx)
    <3>1. order_list'[k + 1][p] = order_list[k + 1][p]
      BY <1>2, <2>1, <2>5
    <3> QED
      BY <1>1, <2>3, <3>1 DEF SearchInv, ChildInv
  <2> QED
    BY <2>4, <2>5
<1>5. ASSUME NEW f \in TreeFrames, NEW k \in order..MaxOrder, Node(f, order) = idx
      PROVE  /\ IsRight(f, k) => Left(f, k)' <= order
             /\ k > order => Val(f, k)' > order
  <2>1. f \in Nat /\ k \in Orders /\ k \in Nat
    BY <1>1 DEF TreeFrames, Orders
  <2>2. Node(f, k) \in Dom(k)
    BY <1>1, <2>1, InTree
  <2>3. IsRight(f, k) => Left(f, k) <= order
    BY <1>1, <1>5 DEF SearchInv, LowInv
  <2>4. IsRight(f, k) => Left(f, k)' <= order
    <3> SUFFICES ASSUME IsRight(f, k) PROVE Left(f, k)' <= order
      OBVIOUS
    <3>1. Node(f, k) - 1 \in Dom(k)
      BY <1>1, <2>1, LeftSibling
    <3>2. Left(f, k)' = Used \/ Left(f, k)' = Left(f, k)
      BY <1>2, <2>1, <3>1 DEF Left
    <3> QED
      BY <1>1, <2>3, <3>2 DEF Used
  <2>5. k > order => Val(f, k)' > order
    <3> SUFFICES ASSUME k > order PROVE Val(f, k)' > order
      OBVIOUS
    <3>1. LargerThan(Val(f, k), order)
      BY <1>1, <1>5, <2>1 DEF IInv, PathInv
    <3>2. Val(f, k)' = Val(f, k)
      BY <1>1, <1>2, <2>1, <2>2 DEF Val
    <3> QED
      BY <3>1, <3>2 DEF LargerThan
  <2> QED
    BY <2>4, <2>5
<1>6. LowInv'
  BY <1>1, <1>2, <1>5 DEF LowInv, IsRight
<1>7. FreeInv'
  <2> SUFFICES ASSUME NEW k \in Orders, NEW i \in Dom(k), IsFree(k, i)',
                      NEW f \in TreeFrames, Node(f, k) = i, NEW j \in k..MaxOrder
               PROVE  Val(f, j)' > k
    BY <1>2 DEF FreeInv
  <2>1. IsFree(k, i) /\ Apart(Block(order, idx), Block(k, i))
    BY <1>1 DEF IsFree, InZone
  <2>2. f \in Nat /\ j \in Orders /\ i \in Nat
    BY <1>1 DEF TreeFrames, Orders, Dom
  <2>3. Val(f, j) > k
    BY <2>1 DEF SearchInv, FreeInv
  <2>4. ~(j = order /\ Node(f, j) = idx)
    <3> SUFFICES ASSUME Node(f, order) = idx PROVE FALSE
      OBVIOUS
    <3> QED
      BY <1>1, <2>1, <2>2, CommonFrame
  <2>5. Val(f, j)' = Val(f, j)
    BY <1>1, <1>2, <2>2, <2>4, InTree DEF Val
  <2> QED
    BY <2>3, <2>5
<1>8. NoneOnlyIfExhausted' /\ NeverUnreachable' /\ IInv'
  BY <1>1, MarkUsedStep DEF SearchInv, NoneOnlyIfExhausted, NeverUnreachable, InZone
<1> QED
  BY <1>3, <1>4, <1>6, <1>7, <1>8 DEF SearchInv

(* update_tree sets a block to what its children say: no more than before, *)
(* and no more than one of them has, because equal siblings are free.      *)
LEMMA UpdateTreeSearch ==
  ASSUME SearchInv, UpdateTree
  PROVE  SearchInv'
<1> DEFINE c == current
           n == c + 1
           p == idx \div 2
           l == order_list[c][2 * p]
           r == order_list[c][2 * p + 1]
           v == ParentState(l, r)
           g == BlockPages[order] * found
           fl == BlockPages[c] * (2 * p)
           fr == BlockPages[c] * (2 * p + 1)
<1>1. /\ UNCHANGED <<num_pages, allocated, refused, pc, order, found>>
      /\ pc = "update" /\ c \in Orders /\ c \in Nat /\ c < MaxOrder /\ n \in Orders /\ n # c
      /\ order \in Orders /\ order \in Nat /\ order <= c /\ current' = n /\ idx' = p
      /\ order_list' = [order_list EXCEPT ![n][p] = v]
      /\ num_pages \in Nat /\ MaxOrder \in Nat /\ IInv /\ TypeOK
  BY MaxOrderAssumption, SizesAssumption, SMTT(60)
     DEF UpdateTree, SearchInv, IInv, TypeOK, PendingInv, Orders
<1>2. /\ idx \in Nat /\ idx \in Dom(c) /\ found \in Nat /\ found \in Dom(order)
  BY <1>1 DEF IInv, TypeOK, PendingInv
<1>3. p \in Nat /\ p \in Dom(n) /\ 2 * p \in Dom(c) /\ 2 * p + 1 \in Dom(c)
  BY <1>1, <1>2, BlocksHalve DEF Dom
<1>4. l \in 0..(c + 1) /\ r \in 0..(c + 1) /\ l \in Nat /\ r \in Nat
  BY <1>1, <1>3, BlockValue
<1>5. v \in 0..(n + 1) /\ v \in Nat
  <2> HIDE DEF l, r
  <2> QED
    BY <1>1, <1>4 DEF ParentState
<1>6. /\ g \in Nat /\ Node(g, order) = found /\ g \in TreeFrames
      /\ Node(g, c) = idx /\ Node(g, n) = p
  <2>1. g \in Nat /\ Node(g, order) = found
    BY <1>1, <1>2, FirstFrame
  <2> HIDE DEF g
  <2>2. g \in TreeFrames
    BY <1>1, <1>2, <2>1, InTree
  <2>3. Node(g, c) = idx
    BY <1>1, <2>1 DEF IInv, PendingInv
  <2>4. Node(g, n) = p
    BY <1>1, <2>1, <2>3, NodeParent
  <2> QED
    BY <2>1, <2>2, <2>3, <2>4
<1>7. /\ fl \in TreeFrames /\ Node(fl, c) = 2 * p /\ Node(fl, n) = p /\ Val(fl, c) = l
      /\ fr \in TreeFrames /\ Node(fr, c) = 2 * p + 1 /\ Node(fr, n) = p /\ Val(fr, c) = r
  <2>1. 2 * p \in Nat /\ 2 * p + 1 \in Nat /\ (2 * p) \div 2 = p /\ (2 * p + 1) \div 2 = p
    BY <1>3
  <2>2. fl \in Nat /\ Node(fl, c) = 2 * p /\ fr \in Nat /\ Node(fr, c) = 2 * p + 1
    BY <1>1, <2>1, FirstFrame
  <2> HIDE DEF fl, fr
  <2>3. fl \in TreeFrames /\ fr \in TreeFrames
    BY <1>1, <1>3, <2>2, InTree
  <2>4. Node(fl, n) = p /\ Node(fr, n) = p
    BY <1>1, <2>1, <2>2, NodeParent
  <2> QED
    BY <2>2, <2>3, <2>4 DEF Val
<1> HIDE DEF p, l, r, v, g, fl, fr
<1>8. v <= order_list[n][p]
  <2>1. Val(g, n) > order
    <3>1. n \in order..MaxOrder /\ n > current
      BY <1>1
    <3> QED
      BY <1>1, <1>6, <3>1 DEF SearchInv, LowInv
  <2>2. order_list[n][p] # Used
    BY <1>1, <1>6, <2>1 DEF Val, Used
  <2>3. order_list[n][p] = Used \/ order_list[n][p] >= v
    BY <1>1, <1>3 DEF SearchInv, ParentInv, v, l, r
  <2>4. order_list[n][p] \in Nat
    BY <1>1, <1>3, BlockValue
  <2> QED
    BY <1>5, <2>2, <2>3, <2>4
<1>9. ASSUME NEW f \in TreeFrames, NEW k \in Orders, n <= k, Node(f, n) = p, IsRight(f, k)
      PROVE  v = Used \/ v > Left(f, k)
  <2>1. f \in Nat /\ fl \in Nat /\ fr \in Nat /\ k \in Nat
    BY <1>7 DEF TreeFrames, Orders
  <2>2. Node(f, k) = Node(g, k) /\ Node(fl, k) = Node(f, k) /\ Node(fr, k) = Node(f, k)
    BY <1>1, <1>6, <1>7, <1>9, <2>1, NodeUp
  <2>3. /\ IsRight(g, k) /\ IsRight(fl, k) /\ IsRight(fr, k)
        /\ Left(g, k) = Left(f, k) /\ Left(fl, k) = Left(f, k) /\ Left(fr, k) = Left(f, k)
    BY <1>9, <2>2 DEF IsRight, Left
  <2>4. Left(f, k) <= order /\ Left(f, k) \in Nat
    <3>1. k \in order..MaxOrder
      BY <1>1, <1>9, <2>1 DEF IsRight
    <3>2. Left(g, k) <= order
      BY <1>1, <1>6, <2>3, <3>1 DEF SearchInv, LowInv
    <3>3. Left(f, k) \in Nat
      BY <1>1, <1>9, LeftSibling, BlockValue DEF Left
    <3> QED
      BY <2>3, <3>2, <3>3
  <2>5. c \in 0..k
    BY <1>1, <1>9, <2>1
  <2>6. /\ l = Used \/ l > Left(f, k) \/ l > c
        /\ r = Used \/ r > Left(f, k) \/ r > c
    <3>1. Val(fl, c) = Used \/ Val(fl, c) > Left(fl, k) \/ Val(fl, c) > c
      BY <1>7, <2>3, <2>5 DEF SearchInv, RightInv
    <3>2. Val(fr, c) = Used \/ Val(fr, c) > Left(fr, k) \/ Val(fr, c) > c
      BY <1>7, <2>3, <2>5 DEF SearchInv, RightInv
    <3> QED
      BY <1>7, <2>3, <3>1, <3>2
  <2> DEFINE m == Left(f, k)
  <2> HIDE DEF m
  <2>7. m \in Nat /\ m <= c /\ (l = Used \/ l > m) /\ (r = Used \/ r > m)
    BY <1>1, <1>4, <2>4, <2>6 DEF m
  <2>8. v = Used \/ v > m
    BY <1>4, <2>7 DEF v, ParentState, Used
  <2> QED
    BY <2>8 DEF m
<1>10. ParentInv' /\ RightInv'
  <2>1. \A k \in Orders : k + 1 = n =>
          v = Used \/ v = ParentState(order_list[k][2 * p], order_list[k][2 * p + 1])
    <3> SUFFICES ASSUME NEW k \in Orders, k + 1 = n PROVE k = c
      BY DEF v, l, r
    <3> QED
      BY <1>1 DEF Orders
  <2> HIDE DEF n
  <2> QED
    BY <1>1, <1>3, <1>5, <1>8, <1>9, <2>1, LowerBlock, Zenon DEF SearchInv
<1>11. /\ \A o \in Orders : \A j \in Dom(o) :
            order_list'[o][j] = IF o = n /\ j = p THEN v ELSE order_list[o][j]
       /\ \A o : Dom(o)' = Dom(o)
       /\ TreeFrames' = TreeFrames
  <2> HIDE DEF n
  <2>1. \A o \in Orders : \A j \in Dom(o) :
           order_list'[o][j] = IF o = n /\ j = p THEN v ELSE order_list[o][j]
    BY <1>1, <1>3, <1>5, SetBlock, ZenonT(60)
  <2> QED
    BY <1>1, <2>1 DEF Dom, TreeFrames
<1>12. ChildInv'
  <2> SUFFICES ASSUME NEW k \in Orders, k < MaxOrder, NEW q \in Dom(k + 1),
                      ~(k = n /\ q = p \div 2)
               PROVE  \/ order_list'[k + 1][q] <= order_list'[k][2 * q]
                      \/ order_list'[k + 1][q] <= order_list'[k][2 * q + 1]
                      \/ order_list'[k][2 * q] > k
                      \/ order_list'[k][2 * q + 1] > k
    BY <1>1, <1>11 DEF ChildInv
  <2>1. /\ k \in Nat /\ k + 1 \in Orders /\ k # k + 1 /\ q \in Nat
        /\ 2 * q \in Dom(k) /\ 2 * q + 1 \in Dom(k)
    BY <1>1, BlocksHalve DEF Orders, Dom
  <2>2. ~(k = n /\ 2 * q = p) /\ ~(k = n /\ 2 * q + 1 = p)
    BY <1>3, <2>1
  <2>3. order_list'[k][2 * q] = order_list[k][2 * q]
        /\ order_list'[k][2 * q + 1] = order_list[k][2 * q + 1]
    BY <1>11, <2>1, <2>2
  <2>4. CASE k = c /\ q = p
    <3>1. order_list'[k + 1][q] = v /\ order_list'[k][2 * q] = l /\ order_list'[k][2 * q + 1] = r
      BY <1>3, <1>11, <2>1, <2>3, <2>4 DEF l, r
    <3>2. IsRight(fr, c) /\ Left(fr, c) = l
      <4>1. (2 * p + 1) % 2 = 1 /\ (2 * p + 1) - 1 = 2 * p
        BY <1>3
      <4> QED
        BY <1>1, <1>7, <4>1 DEF IsRight, Left, l
    <3>3. r = Used \/ r > l \/ r > c
      <4>1. c \in 0..c
        BY <1>1
      <4> QED
        BY <1>1, <1>7, <3>2, <4>1 DEF SearchInv, RightInv
    <3>4. v <= l \/ v <= r \/ l > c \/ r > c
      BY <1>1, <1>4, <3>3 DEF v, ParentState, Used
    <3> QED
      BY <2>4, <3>1, <3>4
  <2>5. CASE ~(k = c /\ q = p)
    <3>1. order_list'[k + 1][q] = order_list[k + 1][q]
      BY <1>1, <1>11, <2>1, <2>5
    <3>2. ~(k = current /\ q = idx \div 2)
      BY <2>5 DEF p
    <3> QED
      BY <2>3, <3>1, <3>2 DEF SearchInv, ChildInv
  <2> QED
    BY <2>4, <2>5
<1>13. ASSUME NEW f \in TreeFrames, NEW k \in order..MaxOrder, Node(f, order) = found
       PROVE  /\ IsRight(f, k) => Left(f, k)' <= order
              /\ k > n => Val(f, k)' > order
  <2>1. f \in Nat /\ k \in Orders /\ k \in Nat
    BY <1>1 DEF TreeFrames, Orders
  <2>2. Node(f, k) \in Dom(k)
    BY <1>1, <2>1, InTree
  <2>3. Node(f, n) = p
    BY <1>1, <1>6, <1>13, <2>1, NodeUp
  <2>4. /\ IsRight(f, k) => Left(f, k) <= order
        /\ k > current => Val(f, k) > order
    BY <1>1, <1>13 DEF SearchInv, LowInv
  <2>5. ASSUME IsRight(f, k) PROVE Left(f, k)' = Left(f, k)
    <3>1. Node(f, k) - 1 \in Dom(k) /\ Node(f, k) \in Nat \ {0}
      BY <1>1, <2>1, <2>5, LeftSibling
    <3>2. ~(k = n /\ Node(f, k) - 1 = p)
      BY <1>3, <2>3, <3>1
    <3> QED
      BY <1>11, <2>1, <3>1, <3>2 DEF Left
  <2>6. ASSUME k > n PROVE Val(f, k)' = Val(f, k) /\ k > current
    BY <1>1, <1>11, <2>1, <2>2, <2>6 DEF Val
  <2> QED
    BY <2>4, <2>5, <2>6
<1>14. LowInv'
  BY <1>1, <1>11, <1>13 DEF LowInv, IsRight
<1>15. FreeInv'
  <2> SUFFICES ASSUME NEW k \in Orders, NEW i \in Dom(k), IsFree(k, i)',
                      NEW f \in TreeFrames, Node(f, k) = i, NEW j \in k..MaxOrder
               PROVE  Val(f, j)' > k
    BY <1>11 DEF FreeInv
  <2>1. IsFree(k, i) /\ Apart(Block(order, found), Block(k, i))
    BY <1>1 DEF IsFree, InZone
  <2>2. f \in Nat /\ j \in Orders /\ i \in Nat /\ k \in Nat /\ j \in Nat /\ k <= j
    BY <1>1 DEF TreeFrames, Orders, Dom
  <2>3. \A h \in k..MaxOrder : Val(f, h) > k
    BY <2>1 DEF SearchInv, FreeInv
  <2>4. Node(f, j) \in Dom(j) /\ Node(f, c) \in Dom(c)
    BY <1>1, <2>2, InTree
  <2>5. CASE j = n /\ Node(f, j) = p
    <3>1. Val(f, j)' = v
      BY <1>11, <2>2, <2>4, <2>5, Zenon DEF Val
    <3>2. k # n
      <4> SUFFICES ASSUME k = n PROVE FALSE
        OBVIOUS
      <4>1. Node(g, k) = i
        BY <1>6, <2>5
      <4> QED
        BY <1>1, <1>2, <1>6, <2>1, <2>2, <4>1, CommonFrame
    <3>3. c \in k..MaxOrder
      BY <1>1, <2>2, <2>5, <3>2
    <3>4. Val(f, c) > k
      BY <2>3, <3>3
    <3>5. Val(f, c) = l \/ Val(f, c) = r
      <4>1. Node(f, c) \in Nat /\ p = Node(f, c) \div 2
        BY <1>1, <2>2, <2>5, NodeParent
      <4>2. Node(f, c) = 2 * p \/ Node(f, c) = 2 * p + 1
        BY <4>1, HalfOf, Zenon
      <4> QED
        BY <4>2 DEF Val, l, r
    <3>6. v > k
      BY <1>4, <2>2, <3>4, <3>5 DEF v, ParentState, Used
    <3> QED
      BY <3>1, <3>6
  <2>6. CASE ~(j = n /\ Node(f, j) = p)
    <3>1. Val(f, j)' = Val(f, j)
      BY <1>11, <2>2, <2>4, <2>6, Zenon DEF Val
    <3> QED
      BY <2>3, <3>1
  <2> QED
    BY <2>5, <2>6
<1>16. NoneOnlyIfExhausted' /\ NeverUnreachable' /\ IInv'
  BY <1>1, UpdateTreeStep DEF SearchInv, NoneOnlyIfExhausted, NeverUnreachable, InZone
<1> QED
  BY <1>10, <1>12, <1>14, <1>15, <1>16 DEF SearchInv

(* The block that was pending is handed out.                               *)
LEMMA ReturnSearch ==
  ASSUME SearchInv, AllocReturn
  PROVE  SearchInv'
<1>1. /\ UNCHANGED <<num_pages, order_list, refused>>
      /\ allocated' = allocated \cup {Block(order, found)}
      /\ pc = "update" /\ pc' = "idle" /\ current = MaxOrder
  BY DEF AllocReturn
<1>2. ChildInv'
  <2>1. \A k \in Orders : k < MaxOrder => k # current
    BY <1>1, MaxOrderAssumption DEF Orders
  <2> QED
    BY <1>1, <2>1, SameSearch DEF SearchInv, ChildInv
<1>3. FreeInv'
  <2>1. \A k, i : IsFree(k, i)' => IsFree(k, i)
    BY <1>1 DEF IsFree, InZone
  <2> QED
    BY <1>1, <2>1, SameSearch DEF SearchInv, FreeInv
<1>4. LowInv' /\ NeverUnreachable' /\ NoneOnlyIfExhausted' /\ IInv'
  BY <1>1, ReturnStep DEF SearchInv, LowInv, NeverUnreachable, NoneOnlyIfExhausted, InZone
<1> QED
  BY <1>1, <1>2, <1>3, <1>4, SameSearch DEF SearchInv

(* A zone without a block of the order at the top has none inside.         *)
LEMMA NoneLeft ==
  ASSUME SearchInv, NEW o \in Orders, AllocNone(o), NEW i \in Dom(o), InZone(Block(o, i))
  PROVE  \E b \in allocated : ~Apart(b, Block(o, i))
<1> SUFFICES ASSUME \A b \in allocated : Apart(b, Block(o, i)) PROVE FALSE
  OBVIOUS
<1> DEFINE f == BlockPages[o] * i
<1>1. IsFree(o, i) /\ TypeOK
  BY DEF IsFree, AllocNone, SearchInv, IInv
<1>2. i \in Nat /\ MaxOrder \in Orders /\ MaxOrder \in o..MaxOrder
  BY MaxOrderAssumption DEF Dom, Orders
<1>3. f \in Nat /\ Node(f, o) = i
  BY <1>2, FirstFrame
<1> HIDE DEF f
<1>4. f \in TreeFrames /\ Node(f, MaxOrder) \in Dom(MaxOrder)
  BY <1>1, <1>2, <1>3, InTree
<1>5. Val(f, MaxOrder) > o
  BY <1>1, <1>2, <1>3, <1>4 DEF SearchInv, FreeInv
<1>6. Dom(MaxOrder) = DOMAIN order_list[MaxOrder]
  BY <1>1, <1>2 DEF TypeOK, Dom
<1>7. ~LargerThan(Val(f, MaxOrder), o)
  BY <1>4, <1>6 DEF AllocNone, Val
<1>8. o \in Nat
  BY DEF Orders
<1> QED
  BY <1>5, <1>7, <1>8 DEF LargerThan, Used

(* Every step preserves the invariant.                                     *)
LEMMA StepSearchInv == SearchInv /\ [Next]_vars => SearchInv'
<1> SUFFICES ASSUME SearchInv, [Next]_vars PROVE SearchInv'
  OBVIOUS
<1>0. IInv'
  BY StepIInv DEF SearchInv
<1>1. ASSUME NEW o \in Orders, AllocNone(o) PROVE SearchInv'
  <2>1. /\ UNCHANGED <<num_pages, order_list, allocated, pc, order, current, idx, found>>
        /\ refused' = refused \cup {o} /\ pc = "idle"
    BY <1>1 DEF AllocNone
  <2>2. NoneOnlyIfExhausted'
    <3> SUFFICES ASSUME NEW q \in refused \cup {o}, NEW i \in Dom(q), InZone(Block(q, i))
                 PROVE  \E b \in allocated : ~Apart(b, Block(q, i))
      BY <2>1 DEF NoneOnlyIfExhausted, InZone, Dom
    <3>1. CASE q \in refused
      BY <3>1 DEF SearchInv, NoneOnlyIfExhausted, Dom
    <3>2. CASE q = o
      BY <1>1, <3>2, NoneLeft
    <3> QED
      BY <3>1, <3>2
  <2>3. LowInv' /\ NeverUnreachable'
    BY <2>1 DEF LowInv, NeverUnreachable
  <2> QED
    BY <1>0, <2>1, <2>2, <2>3, SameSearch, OutsideUpdate DEF SearchInv
<1>2. ASSUME NEW b \in allocated, Free(b) PROVE SearchInv'
  <2>1. /\ UNCHANGED <<num_pages, order_list, allocated, refused>>
        /\ pc = "idle" /\ pc' \in {"free_order", "free_unmanaged"}
    BY <1>2 DEF Free
  <2>2. LowInv' /\ NeverUnreachable'
    BY <2>1 DEF LowInv, NeverUnreachable
  <2> QED
    BY <1>0, <2>1, <2>2, SameSearch, OutsideUpdate DEF SearchInv
<1>3. CASE UNCHANGED vars
  <2>1. UNCHANGED <<num_pages, order_list, allocated, refused, pc, order, current, idx, found>>
    BY <1>3, SMTT(60) DEF vars
  <2>2. ChildInv' /\ LowInv' /\ FreeInv'
    BY <2>1, SameSearch, ZenonT(60) DEF SearchInv, ChildInv, LowInv, FreeInv, IsRight, IsFree, InZone
  <2>3. NeverUnreachable' /\ NoneOnlyIfExhausted'
    BY <2>1 DEF SearchInv, NeverUnreachable, NoneOnlyIfExhausted, InZone
  <2> QED
    BY <1>0, <2>1, <2>2, <2>3, SameSearch DEF SearchInv
<1> QED
  BY <1>1, <1>2, <1>3, FindSearch, DescendSearch, MarkUsedSearch, UpdateTreeSearch, ReturnSearch
     DEF Next

(* Whatever blocks were asked for before, whatever the size of the zone:   *)
(* alloc never reaches its unreachable!().                                 *)
THEOREM UnreachableIsUnreachable == Spec => []NeverUnreachable
<1>1. SearchInv => NeverUnreachable
  BY DEF SearchInv
<1> QED
  BY <1>1, InitSearchInv, StepSearchInv, PTL DEF Spec

(* alloc returns None only when the zone has no block of the order left.   *)
THEOREM RefusesOnlyIfExhausted == Spec => []NoneOnlyIfExhausted
<1>1. SearchInv => NoneOnlyIfExhausted
  BY DEF SearchInv
<1> QED
  BY <1>1, InitSearchInv, StepSearchInv, PTL DEF Spec

-----------------------------------------------------------------------------
(* A block inside the zone is a block of the tree.                         *)
LEMMA InZoneInDom ==
  ASSUME TypeOK, NEW o \in Orders, NEW i \in Nat, InZone(Block(o, i))
  PROVE  i \in Dom(o)
<1> DEFINE f == BlockPages[o] * i
           b == BlockPages[MaxOrder]
           C == CeilDiv(num_pages, b)
<1>1. f \in Nat /\ Node(f, o) = i /\ f < num_pages /\ num_pages \in Nat
  <2>1. f \in Nat /\ Node(f, o) = i /\ num_pages \in Nat
    BY FirstFrame, SizesAssumption DEF TypeOK
  <2>2. f \in Frames(Block(o, i)) /\ Block(o, i).last \in Nat
    BY <2>1, BlockFrames
  <2> QED
    BY <2>1, <2>2 DEF Frames, InZone
<1>2. b \in Nat \ {0} /\ C \in Nat
  <2>1. b \in Nat \ {0}
    BY BlockPagesAssumption, MaxOrderAssumption DEF Orders
  <2> HIDE DEF b
  <2> QED
    BY <1>1, <2>1 DEF CeilDiv
<1>3. ~(b * C < num_pages)
  <2> HIDE DEF b
  <2>1. C < CeilDiv(num_pages, b) <=> b * C < num_pages
    BY <1>1, <1>2, CeilBelow
  <2> QED
    BY <1>2, <2>1
<1>4. f < C * b
  <2> HIDE DEF f, b, C
  <2> QED
    BY <1>1, <1>2, <1>3
<1>5. f \in TreeFrames
  BY <1>1, <1>4 DEF TreeFrames
<1> QED
  BY <1>1, <1>5, InTree

(* Apart in Zone is not Meets in BlockSource.                              *)
LEMMA ApartMeets ==
  ASSUME NEW o \in Orders, NEW i \in Nat, NEW p \in Orders, NEW j \in Nat
  PROVE  Apart(Block(o, i), Block(p, j)) <=> ~Abstract!Meets(Block(p, j), Block(o, i))
<1> DEFINE b == Block(o, i)
           c == Block(p, j)
<1>1. b.first \in Nat /\ b.last \in Nat /\ c.first \in Nat /\ c.last \in Nat
  BY BlockFrames
<1> HIDE DEF b, c
<1>2. Apart(b, c) <=> ~Abstract!Meets(c, b)
  BY <1>1 DEF Apart, Abstract!Meets
<1> QED
  BY <1>2 DEF b, c

(* alloc returns a block that BlockSource may give.                        *)
LEMMA ReturnGives ==
  ASSUME SearchInv, AllocReturn
  PROVE  Abstract!Next
<1> DEFINE n == Block(order, found)
<1>1. /\ UNCHANGED <<num_pages, refused>> /\ allocated' = allocated \cup {n}
      /\ order \in Orders /\ found \in Nat /\ num_pages \in Nat
      /\ BlockPages[order] * found < num_pages
      /\ \A b \in allocated : Apart(b, n)
      /\ HeldInv
  BY SizesAssumption DEF AllocReturn, SearchInv, IInv, TypeOK, PendingInv, Disjoint
<1>2. n.first < num_pages
  BY <1>1 DEF Block
<1>3. found \in 0..(num_pages - 1)
  <2>1. BlockPages[order] \in Nat \ {0} /\ BlockPages[order] * found \in Nat
    BY <1>1, BlockPagesAssumption, FirstFrame
  <2>2. found <= BlockPages[order] * found
    <3>1. found * 1 <= found * BlockPages[order]
      BY <1>1, <2>1, TimesMonotone
    <3> QED
      BY <1>1, <2>1, <3>1
  <2> QED
    BY <1>1, <2>1, <2>2
<1>4. \A b \in allocated : ~Abstract!Meets(n, b)
  <2> SUFFICES ASSUME NEW b \in allocated PROVE ~Abstract!Meets(n, b)
    OBVIOUS
  <2>1. PICK o \in Orders, i \in Nat : b = Block(o, i)
    BY <1>1 DEF HeldInv
  <2> QED
    BY <1>1, <2>1, ApartMeets
<1>5. Abstract!Give(n)
  BY <1>1, <1>2, <1>4 DEF Abstract!Give
<1>6. n = Abstract!Block(order, found)
  BY DEF Block, Abstract!Block
<1> QED
  BY <1>1, <1>3, <1>5, <1>6, SMTT(60) DEF Abstract!Next, Orders

(* alloc returns None only when BlockSource may refuse.                    *)
LEMMA NoneRefuses ==
  ASSUME SearchInv, NEW o \in Orders, AllocNone(o)
  PROVE  Abstract!Next
<1>1. /\ UNCHANGED <<num_pages, allocated>> /\ refused' = refused \cup {o}
      /\ TypeOK /\ HeldInv
  BY DEF AllocNone, SearchInv, IInv
<1>2. ASSUME NEW i \in 0..(num_pages - 1), Abstract!Block(o, i).last < num_pages
      PROVE  \E c \in allocated : Abstract!Meets(Abstract!Block(o, i), c)
  <2>1. i \in Nat /\ Abstract!Block(o, i) = Block(o, i)
    BY DEF Block, Abstract!Block
  <2>2. InZone(Block(o, i))
    BY <1>2, <2>1 DEF InZone
  <2>3. i \in Dom(o)
    BY <1>1, <2>1, <2>2, InZoneInDom
  <2>4. PICK b \in allocated : ~Apart(b, Block(o, i))
    BY <2>2, <2>3, NoneLeft
  <2>5. PICK q \in Orders, j \in Nat : b = Block(q, j)
    BY <1>1 DEF HeldInv
  <2> QED
    BY <2>1, <2>4, <2>5, ApartMeets
<1>3. Abstract!Refuse(o)
  BY <1>1, <1>2 DEF Abstract!Refuse
<1> QED
  BY <1>3 DEF Abstract!Next, Orders

(* The tree and its walks implement what a zone promises, for every        *)
(* MaxOrder and every zone size.                                           *)
THEOREM Refinement == Spec => RefinesBlockSource
<1>1. Init => Abstract!Init
  BY DEF Init, Abstract!Init
<1>2. SearchInv /\ [Next]_vars => [Abstract!Next]_(Abstract!vars)
  <2> SUFFICES ASSUME SearchInv, [Next]_vars
               PROVE  Abstract!Next \/ UNCHANGED <<num_pages, allocated, refused>>
    BY DEF Abstract!vars
  <2>1. \/ AllocReturn
        \/ \E o \in Orders : AllocNone(o)
        \/ UNCHANGED <<num_pages, allocated, refused>>
    BY DEF Next, vars, AllocFind, Descend, MarkUsed, UpdateTree, Free
  <2> QED
    BY <2>1, ReturnGives, NoneRefuses
<1> QED
  BY <1>1, <1>2, InitSearchInv, StepSearchInv, PTL DEF Spec, RefinesBlockSource, Abstract!Spec
=============================================================================
