-------------------------------- MODULE Slob --------------------------------
(***************************************************************************)
(* The kernel heap of src/mm/slob.rs: a free list sorted by address, kept  *)
(* in the headers of the blocks.  Addresses and lengths are in units of    *)
(* size_of::<Block>() (16 bytes); a block of size n at address a is its    *)
(* header a and the units a + 1 .. a + n.  alloc_inner and dealloc_inner   *)
(* run under the HEAP SpinLock; their walks of the list are one action per *)
(* block.  Alignments above 16 are not modelled.                           *)
(***************************************************************************)
EXTENDS Integers, FiniteSets

CONSTANTS
  PageUnits,   \* PAGE_SIZE / size_of::<Block>()
  MaxPages,    \* the pages of memory that the physical allocator's blocks reach
  Zones,       \* its zones, each the set of its pages
  MAX_ORDER_PAGES, \* the pages of its largest block
  Requests,    \* the lengths clients ask for, in units
  MaxLive      \* bound on the allocations clients own at the same time

ASSUME SlobAssumption ==
  /\ PageUnits \in Nat \ {0} /\ MaxPages \in Nat /\ MAX_ORDER_PAGES \in Nat
  /\ Zones \subseteq SUBSET (0..(MaxPages - 1))
  /\ Requests \subseteq Nat \ {0} /\ MaxLive \in Nat

None == -1

(* Memory that is not a header: its contents are never read.               *)
NoHeader == [size |-> 0, next |-> None]

Units == 0..(MaxPages * PageUnits - 1)

VARIABLES
  head,      \* the first free block, or None
  mem,       \* the headers of free blocks and of blocks in use
  granted,   \* what morecore got: size pages from first, pages of them used
  live,      \* the allocations clients own, [addr, len]
  relinked,  \* history: a block was made the only free one with next # None
  pc,        \* "idle", the walk under way, or the panic it met
  want,      \* the length asked for while alloc_inner runs, else 0
  round,     \* the iteration of alloc_inner's outer loop
  block,     \* dealloc_inner's block
  prev,      \* the walk's prev
  curr       \* the walk's curr_opt

vars == <<head, mem, granted, live, relinked, pc, want, round, block, prev, curr>>

Init ==
  /\ head = None
  /\ mem = [a \in Units |-> NoHeader]
  /\ granted = {} /\ live = {}
  /\ relinked = FALSE
  /\ pc = "idle"
  /\ want = 0 /\ round = 0
  /\ block = None /\ prev = None /\ curr = None

-----------------------------------------------------------------------------
(* Block *)

(* Block::offset_addr: the address just past a block of that size.         *)
OffsetAddr(a, size) == a + size + 1

(* Mutant of SplitAt: the block keeps its old size.                        *)
SplitAtOldSize(m, a, len) ==
  LET right == OffsetAddr(a, len)
  IN  [m EXCEPT ![right] = [size |-> m[a].size - len - 1, next |-> m[a].next],
                ![a].next = right]

(* Block::split_at *)
SplitAt(m, a, len) ==
  LET right == OffsetAddr(a, len)
  IN  [m EXCEPT ![right] = [size |-> m[a].size - len - 1, next |-> m[a].next],
                ![a]     = [size |-> len, next |-> right]]

(* The two headers are in one page and left ends where right begins.       *)
Mergeable(m, left, right) ==
  /\ left \div PageUnits = right \div PageUnits
  /\ OffsetAddr(left, m[left].size) = right

(* Block::try_merge.  The header of right becomes part of left's units,    *)
(* which belong to whoever gets them next.                                 *)
TryMerge(m, left, right) ==
  IF Mergeable(m, left, right)
  THEN [m EXCEPT ![left] = [size |-> @.size + m[right].size + 1, next |-> m[right].next],
                 ![right] = NoHeader]
  ELSE m

-----------------------------------------------------------------------------
(* alloc_inner *)

(* prev's next, or head if there is no prev, becomes a in m.               *)
Link(m, a) ==
  IF prev = None THEN head' = a /\ mem' = m
                 ELSE head' = head /\ mem' = [m EXCEPT ![prev].next = a]

Quiet == want' = 0 /\ round' = 0 /\ block' = None /\ prev' = None /\ curr' = None

StartWalk == prev' = None /\ curr' = head'

AllocCall(n) ==
  /\ pc = "idle"
  /\ Cardinality(live) < MaxLive
  /\ want' = n
  /\ round' = 1
  /\ pc' = "search"
  /\ head' = head /\ StartWalk
  /\ UNCHANGED <<mem, granted, live, relinked, block>>

AllocReturn ==
  /\ live' = live \cup {[addr |-> curr, len |-> want]}
  /\ pc' = "idle"
  /\ Quiet
  /\ UNCHANGED <<granted, relinked>>

(* The size is exactly right: the block is unlinked, its next stays.       *)
ExactFit ==
  /\ pc = "search" /\ curr # None
  /\ mem[curr].size = want
  /\ Link(mem, mem[curr].next)
  /\ AllocReturn

(* Mutant of Split: the size of the block is not looked at.                *)
SplitUnchecked ==
  /\ pc = "search" /\ curr # None
  /\ mem[curr].size # want
  /\ Link(SplitAt(mem, curr, want), OffsetAddr(curr, want))
  /\ AllocReturn

(* There is room for the allocation, a header and at least one unit.       *)
Split ==
  /\ pc = "search" /\ curr # None
  /\ mem[curr].size > want + 1
  /\ Link(SplitAt(mem, curr, want), OffsetAddr(curr, want))
  /\ AllocReturn

SearchNext ==
  /\ pc = "search" /\ curr # None
  /\ mem[curr].size < want \/ mem[curr].size = want + 1
  /\ prev' = curr
  /\ curr' = mem[curr].next
  /\ UNCHANGED <<head, mem, granted, live, relinked, pc, want, round, block>>

(* Mutant of NumPages: the pages of the request without the header.        *)
NumPagesNoHeader(n) == (n - 1 + PageUnits) \div PageUnits

(* (layout.size() + PAGE_SIZE) / PAGE_SIZE                                 *)
NumPages(n) == (n + 1 + PageUnits) \div PageUnits

(* p is num_pages.next_power_of_two()                                      *)
IsNextPowerOfTwo(p, n) ==
  \E o \in 0..MaxPages : p = 2^o /\ n <= p /\ \A q \in 0..(o - 1) : 2^q < n

(* A block of size pages from first is one of the zone's: it starts in the *)
(* zone, a multiple of its size from where the zone does.                  *)
IsBlockOf(zone, first, size) ==
  /\ first \in zone
  /\ \E start \in zone : (\A p \in zone : start <= p) /\ (first - start) % size = 0

(* What PhysAllocator::alloc may return for so many pages: a block of the  *)
(* next power of two, of some zone, that meets no block granted before.    *)
(* The end of the block may be past the zone.  That the blocks of a zone   *)
(* never meet is shown in module Zone; that no block past its zone meets   *)
(* memory of another owner is assumed here.                                *)
IsPhysAlloc(first, size, pages) ==
  /\ IsNextPowerOfTwo(size, pages)
  /\ size <= MAX_ORDER_PAGES
  /\ \E zone \in Zones : IsBlockOf(zone, first, size)
  /\ first + size <= MaxPages
  /\ \A g \in granted : first + size <= g.first \/ g.first + g.size <= first

(* The list has no block that fits: morecore gets pages and calls          *)
(* dealloc_inner with them.                                                *)
Morecore ==
  /\ pc = "search" /\ curr = None
  /\ LET pages == NumPages(want)
     IN  \E first \in 0..(MaxPages - 1), size \in 1..MaxPages :
           /\ IsPhysAlloc(first, size, pages)
           /\ granted' = granted \cup {[first |-> first, size |-> size, pages |-> pages]}
           /\ block' = first * PageUnits
           /\ mem' = [mem EXCEPT ![block'] = [size |-> pages * PageUnits - 1, next |-> None]]
  /\ pc' = "insert"
  /\ head' = head /\ StartWalk
  /\ UNCHANGED <<live, relinked, want, round>>

(* PhysAllocator::alloc panics: the order is too large, or no zone has a   *)
(* block of it left inside.                                                *)
OutOfMemory ==
  /\ pc = "search" /\ curr = None
  /\ \A first \in 0..(MaxPages - 1), size \in 1..MaxPages :
       IsPhysAlloc(first, size, NumPages(want)) =>
         \A zone \in Zones : ~(first..(first + size - 1) \subseteq zone)
  /\ pc' = "out_of_memory"
  /\ UNCHANGED <<head, mem, granted, live, relinked, want, round, block, prev, curr>>

-----------------------------------------------------------------------------
(* dealloc_inner *)

(* The owner of an allocation gives it back.                               *)
DeallocCall(b) ==
  /\ pc = "idle"
  /\ live' = live \ {b}
  /\ block' = b.addr
  /\ pc' = "insert"
  /\ head' = head /\ StartWalk
  /\ UNCHANGED <<mem, granted, relinked, want, round>>

(* The walk passes the blocks before block; assert_ne!(curr, block).       *)
InsertNext ==
  /\ pc = "insert" /\ curr # None
  /\ curr <= block
  /\ pc' = IF curr = block THEN "double_free" ELSE "insert"
  /\ prev' = curr
  /\ curr' = mem[curr].next
  /\ UNCHANGED <<head, mem, granted, live, relinked, want, round, block>>

(* dealloc_inner returns: to its caller, or to the next iteration of       *)
(* alloc_inner's loop, which has only two.                                 *)
InsertDone ==
  \/ want = 0 /\ pc' = "idle" /\ Quiet
  \/ /\ want # 0
     /\ pc' = IF round = 2 THEN "unreachable" ELSE "search"
     /\ round' = round + 1
     /\ StartWalk
     /\ UNCHANGED <<want, block>>

(* Mutant of InsertBefore: block goes before any block of the list.        *)
InsertBeforeAny ==
  /\ pc = "insert" /\ curr # None
  /\ LET m == [mem EXCEPT ![block].next = curr]
     IN  /\ head' = IF prev = None THEN block ELSE head
         /\ mem' = IF prev = None THEN m ELSE [m EXCEPT ![prev].next = block]
  /\ InsertDone
  /\ UNCHANGED <<granted, live, relinked>>

(* block goes between prev and curr, and is merged with both if possible.  *)
InsertBefore ==
  /\ pc = "insert" /\ curr # None
  /\ curr > block
  /\ LET m == [mem EXCEPT ![block].next = curr]
         merge == prev # None /\ Mergeable(m, prev, block)
     IN  /\ head' = IF prev = None THEN block ELSE head
         /\ mem' = TryMerge(IF prev = None THEN m
                            ELSE TryMerge([m EXCEPT ![prev].next = block], prev, block),
                            IF merge THEN prev ELSE block, curr)
  /\ InsertDone
  /\ UNCHANGED <<granted, live, relinked>>

(* Mutant of InsertLast: block becomes the head of the list also when the  *)
(* list is not empty.                                                      *)
InsertLastAsHead ==
  /\ pc = "insert" /\ curr = None
  /\ head' = block
  /\ mem' = [mem EXCEPT ![block].next = None]
  /\ InsertDone
  /\ UNCHANGED <<granted, live, relinked>>

(* block goes to the end of the list.  In an empty list it becomes the     *)
(* head, with whatever its next was.                                       *)
InsertLast ==
  /\ pc = "insert" /\ curr = None
  /\ \/ /\ prev # None
        /\ mem' = TryMerge([mem EXCEPT ![prev].next = block, ![block].next = None], prev, block)
        /\ UNCHANGED <<head, relinked>>
     \/ /\ prev = None
        /\ head' = block
        /\ relinked' = (relinked \/ mem[block].next # None)
        /\ UNCHANGED mem
  /\ InsertDone
  /\ UNCHANGED <<granted, live>>

Next ==
  \/ \E n \in Requests : AllocCall(n)
  \/ ExactFit
  \/ Split
  \/ SearchNext
  \/ Morecore
  \/ OutOfMemory
  \/ \E b \in live : DeallocCall(b)
  \/ InsertNext
  \/ InsertBefore
  \/ InsertLast

Spec == Init /\ [][Next]_vars

(* State constraint: behaviours are followed up to the first relinking.    *)
UpToRelinking == ~relinked

-----------------------------------------------------------------------------
PCs == {"idle", "search", "insert", "unreachable", "double_free", "out_of_memory"}

Links == Units \cup {None}

TypeOK ==
  /\ {head, block, prev, curr} \subseteq Links
  /\ mem \in [Units -> [size : 0..(MaxPages * PageUnits), next : Links]]
  /\ live \subseteq [addr : Units, len : Requests]
  /\ pc \in PCs

(* The blocks from a on, as long as addresses increase.                    *)
Ascending[a \in Links] ==
  IF a = None THEN {}
  ELSE {a} \cup (IF mem[a].next > a THEN Ascending[mem[a].next] ELSE {})

FreeBlocks == {[addr |-> a, len |-> mem[a].size] : a \in Ascending[head]}

Covers(b, u) == b.addr <= u /\ u < OffsetAddr(b.addr, b.len)

GrantedUnits ==
  UNION {(g.first * PageUnits)..((g.first + g.pages) * PageUnits - 1) : g \in granted}

(* The free list is in strictly increasing order of addresses, so that it  *)
(* has no cycle and dealloc_inner finds the right place, as long as no     *)
(* block was linked into an empty list with a next of its own.             *)
FreeListSorted ==
  ~relinked => \A a \in Ascending[head] : mem[a].next = None \/ mem[a].next > a

(* Between two calls every unit that the physical allocator granted is in  *)
(* exactly one block, in use or free: nothing is given to two owners and   *)
(* nothing is lost, through every sequence of splits, exact fits and       *)
(* merges (same proviso).                                                  *)
Tiled ==
  pc = "idle" /\ ~relinked =>
    \A u \in Units :
      Cardinality({b \in live : Covers(b, u)}) + Cardinality({b \in FreeBlocks : Covers(b, u)})
        = IF u \in GrantedUnits THEN 1 ELSE 0

(* The header of a block in use says its length until it is given back,    *)
(* when dealloc_inner relies on it (same proviso).                         *)
HeaderIntact == ~relinked => \A b \in live : mem[b.addr].size = b.len

(* assert_ne!(curr, block, "double free"): a client that gives back what   *)
(* it owns, once, never trips it.                                          *)
NoDoubleFree == pc # "double_free"

(* unreachable!(): alloc_inner gives up after its second search only for a *)
(* length that leaves exactly one header of the pages asked for, whatever  *)
(* is on the list (same proviso).                                          *)
SecondSearchMissesOnlyOneHeader ==
  pc = "unreachable" /\ ~relinked => NumPages(want) * PageUnits = want + 2
=============================================================================
