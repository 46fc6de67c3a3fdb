----------------------------- MODULE BootMemory -----------------------------
(***************************************************************************)
(* Memory at boot: MemoryMap::new and its frame allocator (src/mm/map.rs), *)
(* which map the PageInfo array, and PhysAllocator::init (src/mm/pmm.rs),  *)
(* which makes zones of what they leave.  One action is one iteration of a *)
(* loop or one frame allocated.  Addresses and sizes of regions are in     *)
(* frames: the bootloader's ranges are ranges of frames.                   *)
(***************************************************************************)
EXTENDS Regions, Sequences, FiniteSets

CONSTANTS
  MemoryMaps,     \* the memory maps a bootloader may pass
  Builds,         \* a subset of {"debug", "release"}
  InfosPerPage,   \* PageInfos in a page, PAGE_SIZE / size_of::<RwSpinLock<PageInfo>>()
  MaxTables,      \* the most page tables one map_to may need, 3
  TinyPages       \* the fewest pages for which usable_pages does not overflow, 4

(* ArrayVec::remove *)
RemoveAt(s, i) == SubSeq(s, 1, i - 1) \o SubSeq(s, i + 1, Len(s))

Inside(frame, region) == region.addr <= frame /\ frame < region.addr + region.size

Apart(r, s) == r.addr + r.size <= s.addr \/ s.addr + s.size <= r.addr

ASSUME BootAssumption ==
  /\ Builds \subseteq {"debug", "release"}
  /\ InfosPerPage \in Nat \ {0} /\ MaxTables \in Nat /\ TinyPages \in Nat

(* The entries of a memory map are apart, and a byte address is a u64.     *)
ASSUME MemoryMapsAssumption ==
  \A map \in MemoryMaps :
    /\ map \in Seq([addr : Nat, size : Nat, region_type : STRING])
    /\ \A i, j \in DOMAIN map : i # j => Apart(map[i], map[j])
    /\ \A i \in DOMAIN map : (map[i].addr + map[i].size) * PAGE_SIZE < Word

VARIABLES
  memory_map,     \* the bootloader's map: [addr, size, region_type]
  build,          \* with or without overflow checks
  phase,          \* where kernel_main is, or the panic it met
  regions,        \* MemoryMap.regions: what is left of the usable regions
  num_pages,      \* MemoryMap.num_pages
  clone,          \* the regions that the second loop of MemoryMap::new visits
  rg, page,       \* its loops: the index of the entry or region, the frame
  tables,         \* page tables that the map_to under way has yet to allocate
  mapped,         \* the pages of the PageInfo array that are mapped
  written,        \* the frames whose PageInfo has been written
  taken,          \* history: the frames that allocate_frame has returned
  zones           \* PMM.zones; base is history: where the zone's region started

vars == <<memory_map, build, phase, regions, num_pages, clone, rg, page, tables,
          mapped, written, taken, zones>>

-----------------------------------------------------------------------------
IsUsable(entry) == entry.region_type \in {"Usable", "Bootloader"}

(* Mutant of RegionOf: the end of a range taken as its last frame.         *)
RegionOfInclusive(entry) == [addr |-> entry.addr, size |-> entry.size + 1]

RegionOf(entry) == [addr |-> entry.addr, size |-> entry.size]

Init ==
  /\ memory_map \in MemoryMaps
  /\ build \in Builds
  /\ phase = "collect"
  /\ regions = <<>> /\ clone = <<>> /\ num_pages = 0
  /\ rg = 1 /\ page = 0 /\ tables = 0
  /\ mapped = {} /\ written = {} /\ taken = {}
  /\ zones = <<>>

Push ==
  /\ regions' = Append(regions, RegionOf(memory_map[rg]))
  /\ num_pages' = num_pages + memory_map[rg].size

(* An iteration of the first loop of MemoryMap::new.                       *)
Collect ==
  /\ phase = "collect" /\ rg <= Len(memory_map)
  /\ IF IsUsable(memory_map[rg]) THEN Push ELSE UNCHANGED <<regions, num_pages>>
  /\ rg' = rg + 1
  /\ UNCHANGED <<memory_map, build, phase, clone, page, tables, mapped, written, taken, zones>>

(* The loop is over: without a region MemoryMap::new panics, otherwise it  *)
(* clones them for its second loop.                                        *)
Collected ==
  /\ phase = "collect" /\ rg > Len(memory_map)
  /\ IF regions = <<>>
     THEN phase' = "no_memory" /\ UNCHANGED <<clone, rg, page>>
     ELSE phase' = "infos" /\ clone' = regions /\ rg' = 1 /\ page' = regions[1].addr
  /\ UNCHANGED <<memory_map, build, regions, num_pages, tables, mapped, written, taken, zones>>

-----------------------------------------------------------------------------
(* allocate_frame *)

(* The first region with a page; there is none: the expect panics.         *)
FirstFit(i) ==
  /\ i \in DOMAIN regions /\ regions[i].size >= 1
  /\ \A j \in 1..(i - 1) : regions[j].size < 1

OutOfMemory == \A i \in DOMAIN regions : regions[i].size < 1

(* Mutant of AllocateFrame: the region is not advanced past a last page.   *)
AllocateFrameKeepingLast ==
  \E i \in DOMAIN regions :
    /\ FirstFit(i)
    /\ taken' = taken \cup {regions[i].addr}
    /\ num_pages' = num_pages - 1
    /\ regions' = IF regions[i].size = 1 THEN regions
                  ELSE [regions EXCEPT ![i] = [addr |-> @.addr + 1, size |-> @.size - 1]]

(* Mutant of AllocateFrame: the page is not counted off.                   *)
AllocateFrameUncounted ==
  \E i \in DOMAIN regions :
    /\ FirstFit(i)
    /\ taken' = taken \cup {regions[i].addr}
    /\ num_pages' = num_pages
    /\ regions' = IF regions[i].size = 1 THEN RemoveAt(regions, i)
                  ELSE [regions EXCEPT ![i] = [addr |-> @.addr + 1, size |-> @.size - 1]]

(* Mutant of AllocateFrame: the rest of the region becomes a new one.      *)
AllocateFrameSplitting ==
  \E i \in DOMAIN regions :
    /\ FirstFit(i)
    /\ taken' = taken \cup {regions[i].addr}
    /\ num_pages' = num_pages - 1
    /\ regions' = Append([regions EXCEPT ![i].size = 0],
                         [addr |-> regions[i].addr + 1, size |-> regions[i].size - 1])

AllocateFrame ==
  \E i \in DOMAIN regions :
    /\ FirstFit(i)
    /\ taken' = taken \cup {regions[i].addr}
    /\ num_pages' = num_pages - 1
    /\ regions' = IF regions[i].size = 1 THEN RemoveAt(regions, i)
                  ELSE [regions EXCEPT ![i] = [addr |-> @.addr + 1, size |-> @.size - 1]]

-----------------------------------------------------------------------------
(* The second loop of MemoryMap::new: a PageInfo for every frame *)

(* phys_to_page_info: the page of the array that holds a frame's PageInfo. *)
InfoPage(frame) == frame \div InfosPerPage

(* Mutant of NextPage: the loop over a region ends a page early.           *)
NextPageExclusive ==
  LET last == clone[rg].addr + clone[rg].size - 2
  IN  IF page < last THEN page' = page + 1 /\ rg' = rg /\ phase' = "infos"
      ELSE /\ rg' = rg + 1
           /\ IF rg < Len(clone) THEN page' = clone[rg + 1].addr /\ phase' = "infos"
                                 ELSE page' = 0 /\ phase' = "init"

(* Mutant of NextPage: the iterator over the regions is not advanced.      *)
NextPageSameRegion ==
  LET last == clone[rg].addr + clone[rg].size
  IN  IF page < last THEN page' = page + 1 /\ rg' = rg /\ phase' = "infos"
      ELSE page' = clone[rg].addr /\ rg' = rg /\ phase' = "infos"

(* The next frame of the inclusive range, the next region, or the end.     *)
NextPage ==
  LET last == clone[rg].addr + clone[rg].size
  IN  IF page < last THEN page' = page + 1 /\ rg' = rg /\ phase' = "infos"
      ELSE /\ rg' = rg + 1
           /\ IF rg < Len(clone) THEN page' = clone[rg + 1].addr /\ phase' = "infos"
                                 ELSE page' = 0 /\ phase' = "init"

(* translate_addr finds the page: the PageInfo is written.                 *)
WriteInfo ==
  /\ phase = "infos" /\ InfoPage(page) \in mapped
  /\ written' = written \cup {page}
  /\ NextPage
  /\ UNCHANGED <<memory_map, build, regions, num_pages, clone, tables, mapped, taken, zones>>

(* It does not: a frame for the page, then map_to with n new page tables.  *)
(* The PageInfo that asked for the page is not written.                    *)
AllocateInfoPage(n) ==
  /\ phase = "infos" /\ InfoPage(page) \notin mapped
  /\ AllocateFrame
  /\ tables' = n
  /\ phase' = "map_to"
  /\ UNCHANGED <<memory_map, build, clone, rg, page, mapped, written, zones>>

AllocateTable ==
  /\ phase = "map_to" /\ tables > 0
  /\ AllocateFrame
  /\ tables' = tables - 1
  /\ UNCHANGED <<memory_map, build, phase, clone, rg, page, mapped, written, zones>>

MapInfoPage ==
  /\ phase = "map_to" /\ tables = 0
  /\ mapped' = mapped \cup {InfoPage(page)}
  /\ NextPage
  /\ UNCHANGED <<memory_map, build, regions, num_pages, clone, tables, written, taken, zones>>

BumpOutOfMemory ==
  /\ \/ phase = "infos" /\ InfoPage(page) \notin mapped
     \/ phase = "map_to" /\ tables > 0
  /\ OutOfMemory
  /\ phase' = "out_of_memory"
  /\ UNCHANGED <<memory_map, build, regions, num_pages, clone, rg, page, tables,
                 mapped, written, taken, zones>>

-----------------------------------------------------------------------------
(* PhysAllocator::init: the next region of the map becomes a zone *)

(* Mutant of SplitOffset: a page too few is reserved.                      *)
SplitOffsetShort(pages) == (((pages - UsablePages(pages) - 1) % Word) * PAGE_SIZE) % Word

(* The byte offset at which init splits a region of so many pages.         *)
SplitOffset(pages) == (((pages - UsablePages(pages)) % Word) * PAGE_SIZE) % Word

(* usable_pages goes below zero in a build that checks.                    *)
InitOverflow(region) ==
  /\ build = "debug" /\ UsablePagesOverflows(region.size)
  /\ phase' = "overflow"
  /\ UNCHANGED zones

InitSkip(region) ==
  /\ build = "debug" => ~UsablePagesOverflows(region.size)
  /\ UsablePages(region.size) <= 1
  /\ phase' = "init"
  /\ UNCHANGED zones

(* Region::split_at: its assertion, and the part past the offset; the part *)
(* before it is the chunk of offset bytes that the Blocks are taken from.  *)
SplitAsserts(region, offset) == offset >= region.size * PAGE_SIZE

SplitRight(region, offset) ==
  [addr |-> region.addr + offset \div PAGE_SIZE, size |-> region.size - offset \div PAGE_SIZE]

(* new_blocks_for_region: the Blocks, unless the expect finds no room.     *)
NewBlocksForRegion(reserved, pages) ==
  LET count == BlocksInRegion(pages)
  IN  [fit |-> BumpFits(reserved, count, 1), ptr |-> BumpOut(reserved, 1), count |-> count]

(* The region is split, its Blocks are made and the zone is pushed.        *)
InitZone(region) ==
  LET offset == SplitOffset(region.size)
      usable == SplitRight(region, offset)
      blocks == NewBlocksForRegion(BumpFrom(region.addr * PAGE_SIZE, offset),
                                   UsablePages(region.size))
      zone   == [base |-> region.addr, start |-> usable.addr, pages |-> usable.size,
                 blocks |-> blocks.ptr, count |-> blocks.count]
  IN  /\ build = "debug" => ~UsablePagesOverflows(region.size)
      /\ UsablePages(region.size) > 1
      /\ phase' = IF SplitAsserts(region, offset) THEN "split_assert"
                  ELSE IF ~blocks.fit THEN "blocks_expect"
                  ELSE "init"
      /\ zones' = IF phase' = "init" THEN Append(zones, zone) ELSE zones

(* One iteration of init's loop, which pops the first region.              *)
InitRegion ==
  /\ phase = "init" /\ regions # <<>>
  /\ regions' = Tail(regions)
  /\ \/ InitOverflow(Head(regions))
     \/ InitSkip(Head(regions))
     \/ InitZone(Head(regions))
  /\ UNCHANGED <<memory_map, build, num_pages, clone, rg, page, tables, mapped, written, taken>>

(* The write of PMM.zones.                                                 *)
InitDone ==
  /\ phase = "init" /\ regions = <<>>
  /\ phase' = "done"
  /\ UNCHANGED <<memory_map, build, regions, num_pages, clone, rg, page, tables,
                 mapped, written, taken, zones>>

-----------------------------------------------------------------------------
Next ==
  \/ Collect
  \/ Collected
  \/ WriteInfo
  \/ \E n \in 0..MaxTables : AllocateInfoPage(n)
  \/ AllocateTable
  \/ MapInfoPage
  \/ BumpOutOfMemory
  \/ InitRegion
  \/ InitDone

Spec == Init /\ [][Next]_vars

(* Boot is sequential code that nothing suspends.                          *)
FairSpec == Spec /\ WF_vars(Next)

-----------------------------------------------------------------------------
Frames == Nat
Region == [addr : Frames, size : Nat]
Panics == {"no_memory", "out_of_memory", "overflow", "split_assert", "blocks_expect"}

(* The fixed vectors never overflow: at no time are there more regions and *)
(* zones than the bootloader's map, of at most 64 entries, has.            *)
VectorsFit == Len(regions) + Len(zones) <= Len(memory_map)

TypeOK ==
  /\ memory_map \in MemoryMaps /\ build \in Builds
  /\ phase \in {"collect", "infos", "map_to", "init", "done"} \cup Panics
  /\ regions \in Seq(Region) /\ clone \in Seq(Region) /\ num_pages \in Nat
  /\ rg \in Nat \ {0} /\ page \in Frames /\ tables \in 0..MaxTables
  /\ mapped \subseteq Nat /\ written \subseteq Frames /\ taken \subseteq Frames
  /\ zones \in Seq([base : Frames, start : Frames, pages : Nat, blocks : Nat, count : Nat])
  /\ VectorsFit

(* The region a zone was made of, with its reserved part.                  *)
Whole(zone) == [addr |-> zone.base, size |-> zone.start + zone.pages - zone.base]

(* No frame has two owners: the frames that the bump allocator gave to the *)
(* page tables and to the PageInfo array, the regions it still allocates   *)
(* from, and the zones with their reserved parts never overlap.            *)
NoFrameTwice ==
  /\ \A i, j \in DOMAIN regions : i # j => Apart(regions[i], regions[j])
  /\ \A i, j \in DOMAIN zones : i # j => Apart(Whole(zones[i]), Whole(zones[j]))
  /\ \A i \in DOMAIN regions, j \in DOMAIN zones : Apart(regions[i], Whole(zones[j]))
  /\ \A f \in taken : /\ \A i \in DOMAIN regions : ~Inside(f, regions[i])
                      /\ \A j \in DOMAIN zones : ~Inside(f, Whole(zones[j]))

Within(r, s) == s.addr <= r.addr /\ r.addr + r.size <= s.addr + s.size

InUsable(r) ==
  \E k \in DOMAIN memory_map : IsUsable(memory_map[k]) /\ Within(r, memory_map[k])

(* Nothing is taken from memory that the bootloader did not call usable:   *)
(* every frame allocated and every zone lies in a usable region.           *)
OnlyUsableMemory ==
  /\ \A f \in taken : InUsable([addr |-> f, size |-> 1])
  /\ \A j \in DOMAIN zones : InUsable(Whole(zones[j]))

FramesOf(rgs) == UNION {rgs[i].addr..(rgs[i].addr + rgs[i].size - 1) : i \in DOMAIN rgs}

(* num_pages counts the frames that are left, until init consumes the map: *)
(* no allocated frame, no removed region, and none that two regions share. *)
NumPagesExact ==
  phase \in {"collect", "infos", "map_to"} => num_pages = Cardinality(FramesOf(regions))

UsableFrames == {f \in FramesOf(memory_map) : InUsable([addr |-> f, size |-> 1])}

(* When the PageInfo array is done, the PageInfo of every usable frame is  *)
(* mapped, and in each page of the array, also in one that regions share,  *)
(* at most one PageInfo of a usable frame is left as the fill that         *)
(* allocate_frame put there: the one for which the page was mapped.        *)
InfosReady ==
  phase \in {"init", "done"} =>
    \A f, g \in UsableFrames :
      /\ InfoPage(f) \in mapped
      /\ f # g /\ InfoPage(f) = InfoPage(g) => f \in written \/ g \in written

(* The Blocks of a zone lie in the reserved part in front of it, and there *)
(* are as many as the buddy forest over the zone's pages has.              *)
BlocksInReserved ==
  \A j \in DOMAIN zones :
    LET zone == zones[j]
    IN  /\ zone.base * PAGE_SIZE <= zone.blocks
        /\ zone.blocks + zone.count <= zone.start * PAGE_SIZE
        /\ zone.count = BlocksInRegion(zone.pages)
        /\ zone.pages > 1

(* init panics only on a region of fewer than TinyPages pages, and then    *)
(* because usable_pages went below zero; the reserved part is never too    *)
(* small for the Blocks, whatever the size of the region.                  *)
InitPanicsOnlyOnTiny ==
  [][phase = "init" /\ phase' \in Panics =>
       phase' # "blocks_expect" /\ Head(regions).size < TinyPages]_vars

(* Boot comes to an end: every loop ends, in zones or in a panic.          *)
BootEnds == <>(phase \in {"done"} \cup Panics)
=============================================================================
