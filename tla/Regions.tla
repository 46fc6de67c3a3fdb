------------------------------ MODULE Regions -------------------------------
(***************************************************************************)
(* The arithmetic of boot memory: how many pages of a region become a      *)
(* zone (usable_pages and blocks_in_region of src/mm/pmm.rs) and the bump  *)
(* allocator of a chunk (RegionBumpAllocator of src/mm/map.rs).            *)
(***************************************************************************)
EXTENDS Integers

CONSTANTS
  PAGE_SIZE,        \* 4096
  MAX_ORDER_PAGES,  \* 2^MAX_ORDER, 2048
  PageInfoSize,     \* size_of::<PageInfo>(), 8
  Word              \* the modulus of u64

ASSUME RegionsAssumption ==
  /\ PAGE_SIZE \in Nat \ {0} /\ MAX_ORDER_PAGES \in Nat \ {0}
  /\ PageInfoSize \in Nat \ {0} /\ Word \in Nat \ {0}

-----------------------------------------------------------------------------
AlignUp(a, align) == ((a + align - 1) \div align) * align

(* The Blocks of a buddy forest over so many pages: the geometric series.  *)
BlocksInRegion(pages) ==
  (AlignUp(pages, MAX_ORDER_PAGES) \div MAX_ORDER_PAGES) * (2 * MAX_ORDER_PAGES - 1)

(* Mutant of PagesAfterOverhead: pages where bytes are meant.              *)
PagesInsteadOfBytes(total) ==
  (total - BlocksInRegion(total)) \div (PageInfoSize + PAGE_SIZE)

(* usable_pages before it subtracts 2.                                     *)
PagesAfterOverhead(total) ==
  (PAGE_SIZE * total - BlocksInRegion(total)) \div (PageInfoSize + PAGE_SIZE)

(* The subtraction of 2 goes below zero: a debug build panics.             *)
UsablePagesOverflows(total) == PagesAfterOverhead(total) < 2

(* usable_pages as a release build has it, modulo the width of u64.        *)
UsablePages(total) == (PagesAfterOverhead(total) - 2) % Word

-----------------------------------------------------------------------------
(* RegionBumpAllocator: a chunk of size bytes from start, offset used.     *)

BumpFrom(start, size) == [start |-> start, size |-> size, offset |-> 0]

(* alloc's new_off, which must not pass the end of the chunk.              *)
BumpOffset(bump, size, align) == AlignUp(bump.offset + size, align)

BumpFits(bump, size, align) == BumpOffset(bump, size, align) <= bump.size

(* Where the allocation starts.                                            *)
BumpOut(bump, align) == bump.start + AlignUp(bump.offset, align)
=============================================================================
