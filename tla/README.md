# Solstice in TLA+

TLA+ specifications, TLC models and TLAPS proofs of the Solstice kernel: its
locks, its memory from the boot map to the heap, its console, and how they work
together.  Everything is translated from
the Rust code under `src/src/`; paths below are relative to that directory.

## The system

Solstice is a small x86_64 kernel.  `_start` (main.rs) calls `kernel_main`
(kernel.rs), which sets up the console, the descriptor tables, the memory map,
the physical allocator and ACPI, and halts.

| Part | Source | Used by | Module |
|------|--------|---------|--------|
| Reader-writer spin lock | ds/sync/rwspinlock.rs | the zone list, the page tables | `RwSpinLock` |
| Spin lock | ds/sync/spinlock.rs | zones, heap, screen | `SpinLock` |
| Preemption count | cpu/percpu.rs | both locks | in both lock modules |
| Physical allocator, one zone | mm/pmm.rs | heap, page tables | `Zone` |
| Physical allocator, init | mm/pmm.rs | kernel start | `Regions`, `BootMemory` |
| Physical allocator, list of zones | mm/pmm.rs | heap, page tables | `Kernel` |
| Kernel heap | mm/slob.rs | every `Box`, `Vec`, `format!` | `Slob` |
| Memory map, boot allocators | mm/map.rs | physical allocator | `Regions`, `BootMemory` |
| Page tables | mm/addr_space.rs | memory map | `Kernel` (the lock and the frames taken under it) |
| Escape sequence parser | drivers/vga/ransid.rs | screen | `Ransid` |
| Screen | drivers/vga/text_mode.rs | print and log | `Terminal` |
| print! and log records | macros.rs | everything | `Logger` (bytes), `Kernel` (locks) |
| Exception handlers | cpu/idt.rs | | `Kernel` |
| Kernel start, panic handler | kernel.rs, main.rs | | `Kernel` |
| Serial port, keyboard, ACPI, GDT, test runner | drivers/, cpu/gdt.rs, testing.rs | | not modelled, see below |

The parts interact through locks.  The heap takes the HEAP lock, asks the
physical allocator for pages, which takes a read guard of the zone list and the
lock of a zone.  Printing takes the SCREEN lock with interrupts off.  Every lock
operation changes the preemption count.

## Modules

**ReadWriteLock** is what a lock promises: `hold` says which guard each client
has, and the actions say when a guard may appear.

**RwSpinLock** has the lock word, the preemption count and a program counter per
client.  One action is one atomic access, so that everything that can happen
between two accesses does.  The word is `4 * readers + 2 * UPGRADED + WRITER`.
A spurious failure of the weak exchange is a spin that changes nothing, that is
a stuttering step.  A client holds at most one guard; a thread with two guards
is two clients.

**SpinLock** is the same for the AtomicBool lock.  In the kernel only `Debug`
calls `try_lock`, whose test of the exchange's result is inverted (see
Findings).  The history variable `tried` says whether anybody has called it:
what the lock promises is stated for behaviours up to that call, the balance of
the preemption count for all of them.

**BlockSource** is what a zone promises, without a tree: a block that it gives is
aligned, starts in the zone and meets no block given before; it refuses an order
only if no free block of that order is left inside the zone.

**Zone** is the buddy tree of one zone.  `order_list[o][i]` is 0 for `Used` and
`v` for `LargestFreeOrder(v)`.  The descent of `alloc` and the loop of
`update_tree` take one action per level.  `allocated` and `refused` are history.
`BlockPages` is the function `o -> 2^o`, a constant with an assumption, because
the provers know nothing of powers.  Frames count from the start of the zone.
`RefinesBlockSource` maps its history variables to `BlockSource`.

**Slob** is the heap: `mem` holds the headers, `head` the free list, and the two
walks take one action per block.  Addresses and lengths are in units of
`size_of::<Block>()`, 16 bytes; `alloc_inner` pads every length to 16.  A header
that has been merged away is forgotten: nothing reads it again.  The physical
allocator is seen from outside (`IsPhysAlloc`): it returns a block of pages, the
next power of two of what is asked for, that starts in a zone, a multiple of its
size from the start of that zone (pmm.rs:114), and meets none granted yet; it panics
if the order is above MAX_ORDER or no such block is left inside a zone.  As in the
code the block may end past the zone (finding 2).  That the blocks of one zone never
meet is proved in `ZoneProofs`; that a block past its zone does not meet memory of
another owner is an assumption of everything said about the heap, and true when every
zone is a multiple of its largest block.  `granted` remembers the whole block and how
many pages of it `morecore` uses: the rest is granted and never used, as in the code.

**Regions** has the arithmetic of boot memory as operators: `usable_pages`,
`blocks_in_region` and the bump allocator of a chunk, with u64 wrap-around.
**BootMemory** is boot up to the zones: the loop of `MemoryMap::new` that
collects regions, the loop that builds the PageInfo array while `allocate_frame`
takes frames from the regions it is walking, and `PhysAllocator::init`, which
turns what is left into zones.  An action is an iteration of a loop or a frame
allocated.  `build` says whether overflow panics or wraps.  How many page tables
a `map_to` needs is left open between 0 and three.  `taken` and `base` are
history.

**Kernel** composes the parts.  A thread is the sequence of steps it has yet to
do; an operation (print, log, heap allocation, mapping, physical allocation and
free) is the set of step sequences of its paths, with what depends on data (does
the first search of the heap find a block) left open; `map_to` finds out at each
level of its walk whether a page table is missing (`NextTable`).  Locks are what
`ReadWriteLock` promises and zones what `BlockSource`
promises, for blocks of one order, so that "exhausted" means no block of that order;
a request above MAX_ORDER panics on the assertion at the head of
`PhysAllocator::alloc`, before any lock of the allocator is taken but perhaps under
the heap's (`PhysAllocTooLarge`; a release build goes through the zones, none of
which has the order, and panics at the end).  That `SpinLock`, `RwSpinLock` and `Zone` keep these
promises is shown in their own modules.  `Zone::alloc` is two steps, so that its lock matters.
`Zone::free` panics, as it does (finding 3).  An exception may come at any step;
its handler panics, what was interrupted is never resumed and its guards are never
dropped.  A panic prints a record and halts.  The record of a panic never carries
its message: the handler logs `"{}", info`, and `log` prints arguments that are not
a plain string as "Cannot format log entry" (macros.rs:103).

**Ransid** has the parser as operators (`Process`), with a style byte split into
its fields.  **Logger** runs it on arbitrary printed bytes with log records in
between.  **Terminal** runs it in front of the screen buffer, one action per
byte.  **Paper** is what a terminal promises: an endless strip of rows.

`MC*` modules give TLC constants, and bounded calls with fairness.
`*Proofs` modules hold the theorems.

## Runs

| Run | Instance | States | Shows |
|-----|----------|--------|-------|
| rwlock | 3 clients, 2 calls each, all operations | 44,361 | exclusion; the reader count, both bits and the preemption count are exact; `RwSpinLock` implements `ReadWriteLock`; every call returns, except an `upgrade()` that spinning readers starve |
| spinlock | 4 clients, 2 calls each, lock() and try_lock() | 66,251 | the preemption count is exact on every path; an exact flag, `ReadWriteLock` (and with it exclusion) and returning calls until somebody has called `try_lock` |
| zone | MAX_ORDER 3, zones of 2 to 12 pages | 82,197 | no page twice, no unreachable!(); `Zone` implements `BlockSource`, so that no padding is handed out and None means exhausted |
| slob | 5 pages of 6 units, a zone of pages 1 to 3, blocks of up to 2 pages, lengths 1, 4, 6, 11, 4 live blocks | 377,992 | free list sorted, free and used blocks tile the pages, headers intact, the second search fails only for a length that leaves one header |
| logger | 10 bytes, sequences of up to 8 bytes, 5 levels | 200,164 | sequences apply as a whole, messages are plain |
| terminal | 3 x 2 cells, 6 bytes, 2 scrolls | 69,415 | `Terminal` implements `Paper`; cursor; tabs |
| boot | 109 memory maps of up to three entries of 2, 6 and 13 pages, both builds | 103,490 | no frame has two owners, only usable memory is used, `num_pages` is the number of frames left in the regions, the vectors never overflow, the PageInfo array is complete, Blocks lie in front of their zone, `init` panics only on tiny regions, boot ends |
| kernel | 2 processors, 2 calls each, 2 zones of one block, 1 exception | 172,057 | no block is given twice; out of memory is true when it is reported; nobody allocates before `init`; the locks nest without a cycle; calls end and every panic gets a record out unless a panic hit a print |

Four more runs expect a violation; see Findings.

**Bounds.**  Three clients allow a holder, a waiter and an undo at once, and two
calls each let a client come back to what it left behind; the safety proofs
remove both bounds.  With MAX_ORDER 3 the zone sizes cover
one and two trees, powers of two, odd sizes and sizes one off a power; again the
proofs remove the bound.  The heap's six-unit page
fits three blocks, so that one may be merged with free neighbours on both sides, an
exact fit, a split and a length that leaves one header (4); length 6 needs two pages,
and 11 more than the largest block.  The zone starts at an odd page, and its last
block of two pages ends past it.  The heap run follows a behaviour up to the moment a block with a stale
next is made the only free block (`UpToRelinking`): from there on the list is
wrong, which is a finding, and its properties say so.  Escape sequences of eight
bytes hold three parameters.  On a screen three cells wide a tab wraps at least
once and scrolls.  Boot runs with pages of 16 bytes and trees of 4 pages, so that
a region of 2 pages makes `usable_pages` wrap, one of 6 has one tree and one of 13
several; regions touch, are separated by a hole or by memory in use, and frames
run out in some.  Four PageInfos fit a page, so that pages of the array are shared
between regions.  The proofs about init use the kernel's own constants.  In the
kernel run two processors with two calls each hold any two operations against each
other; with one block in each zone, memory runs out while both are in `alloc`.

**Deadlock** is checked where the system never stops.  It is off for the
liveness runs, where the calls run out; for `Zone`, `Slob` and `Kernel`, where a panic
halts the kernel; for boot, which ends; and for try_lock, which can leave the lock
locked for ever.

**Fairness.**  Liveness assumes weak fairness of each client's own steps: code
that holds or waits for a spin lock runs with preemption counted off, and every
owner drops its guard in the end.  No fairness is assumed about who wins a race.
`upgrade()` needs the word to be exactly UPGRADED; clients that spin in `read()`
keep adding and taking back READER, and may keep it away for ever.
`EveryCallReturns` names that behaviour (`ReadersStarveUpgrade`) and excludes
nothing else; the safety properties are checked in all behaviours.  Boot is
sequential code (weak fairness of `Next`).  In `Kernel` each processor that has a
step to do does it in the end (weak fairness of `Step(t)`); nothing makes it call
an operation or meet an exception.  A spin lock that is free again and again may
be missed for ever by one processor under weak fairness alone, but calls are
bounded in the instance, so that `EveryCallEnds` speaks about cycles and lost
locks and not about starvation.

## Findings

Each is a run that TLC ends with a counterexample to something the code itself
asserts or tests.

1. `try_lock` returns a guard when the lock is held (`spinlock_try_exclusion`;
   spinlock.rs:43 against the test at 112).  On a free lock the same inverted
   test locks it and returns None, against the test at 110, and nobody unlocks
   it.
2. A zone whose size is not a multiple of a block hands out a block that ends
   past the zone (`zone_in_zone`; pmm.rs:35 against the assertion at 135).
3. `Zone::free` takes the order from a length in bytes and always trips its
   assertion (`zone_free`; pmm.rs:132 against 133).
4. A block freed into an empty free list keeps its old `next`, which may point
   to a block in use; freeing that one looks like a double free
   (`slob_double_free`; slob.rs:151 against 120).

Two more observations are not runs of their own.  A request that leaves exactly
one header of its new pages is found by neither search of `alloc_inner`, which
then reaches its unreachable!() (slob.rs:95 and 112; payloads of 4049 to 4064 bytes
for one page); `SecondSearchMissesOnlyOneHeader` of the run `slob` says that
nothing else does.  And `parent_state` calls two siblings with equal largest
orders a free block of the next order, which is right only because `alloc` is the
only operation that changes the tree (see Proofs): a repaired `Zone::free` would
have to be looked at together with pmm.rs:180.

## Proofs

All theorems hold for every value of the constants that satisfies the named
assumptions: a finite set of clients for the locks; for zones, `BlockPages` with
the laws of powers of two and positive sizes; for boot, memory maps whose entries
are apart and fit a u64; for the heap, positive page size and lengths; for the
kernel, zones without common blocks; for the screen, no more cells than two bytes
can count.  Bounds such as `MaxCalls`, `MaxLive` or `MaxScroll` are arbitrary
numbers in the proofs.

| Run | Proved | Only model-checked |
|-----|--------|--------------------|
| rwlock | type, exclusion, lock word, preemption count, refinement | `EveryCallReturns` |
| spinlock | flag, preemption count, refinement | `EveryCallReturns` |
| zone | all | |
| slob | all | |
| logger | all | |
| terminal | all | |
| boot | all but liveness | `BootEnds` |
| kernel | type, blocks, panics, lock order | `EveryCallEnds`, `PanicsAreReported` |

**RwSpinLockProofs.**  The inductive invariant `IInv` is the conjunction of type
correctness, exclusion, the exact reader count, both exact bits and the exact
preemption count.  None is inductive alone: exclusion of an upgrade needs the
count to be exact (the word is UPGRADED only if no reader is inside), the count
needs the bits (an unlock must not borrow from it), and the bits need exclusion
(clearing them must not hide another guard).  `CountsStep` and `HoldStep` say how
one client's move changes cardinalities and guards; `StepIInv` has one step per
action.  `Refinement` uses `IInv` to show that every step is a step of
`ReadWriteLock` or a stutter.

**SpinLockProofs.**  `PreemptBalanced` holds for all behaviours; `LockExcludes`,
`FlagExact` and `Refinement` hold until `tried`, and would be false otherwise.
Exclusion is inductive together with the exact flag.

**ZoneProofs.**  `Disjoint` is not inductive: that the block found is new depends
on what the tree says about the blocks handed out before.  `IInv` adds, for every
frame and the chain of blocks above it: of a block handed out, the block itself
is `Used` and no ancestor claims to be wholly free (`HeldInv`); while `alloc`
descends, every block from the current one up says that it has the order asked
for (`PathInv`); while `update_tree` runs, the block about to be returned is
`Used`, meets no other, and the ancestors passed do not claim to be wholly free
(`PendingInv`); blocks that start past the end of the zone are `Used`
(`PaddingInv`).  A descent that met a block handed out would contradict
`HeldInv` at the order of the larger of the two.  From `IInv` follow that no page
is handed out twice (`NoPageTwice`) and that padding stays unused
(`NoPaddingHandedOut`).

That the tree never misleads `alloc` needs more than that it is safe.  `SearchInv` adds: a block says at least what its children say
together (`ParentInv`), and one of its children has what it says, unless it is
the block that `update_tree` is about to set (`ChildInv`); `alloc` left no block
of the order behind on its way (`LowInv`); a free block is known to be free all
the way up (`FreeInv`); and, the heart of the matter, every block of a right half
is `Used`, wholly free, or has more than the left half (`RightInv`): `alloc` goes
right only if the left half lacks the order, and nothing is ever freed.  So two
siblings with equal largest orders are both wholly free, and the `+ 1` of
`parent_state` is true.  From it follow `UnreachableIsUnreachable`,
`RefusesOnlyIfExhausted` and `Refinement`.

**BootMemoryProofs.**  With the kernel's constants (pages of
4096, trees of 2048 pages, PageInfo of 8 bytes, u64) `usable_pages` underflows
exactly below four pages, and otherwise leaves room for the Blocks: the comment
above it derives this for real numbers, the proof for its rounding divisions.
`InitPanics` and `BlocksFit` carry it over to `PhysAllocator::init` in both
builds, for a region of any size.  `NoFrameOwnedTwice` and `UsableMemoryOnly` hold
for every memory map: `IInv` says that the regions are parts of different usable
entries, and `AllocateFrameRegions` that `allocate_frame` leaves every region
part of one that was there and takes its frame out of all of them.
`NoVectorOverflows` counts: an entry gives at most one region, a region at most
one zone.  `PagesCounted` rests on the regions being apart: then a pushed region
adds its size to the number of frames (`PushCount`), and `allocate_frame` takes
exactly one away (`AllocateFrameCount`).  `InfosAreReady` needs `Loop`: the clone
that the loop walks lists every usable entry, whatever has happened to the
originals, and of the frames visited so far every page of the array is mapped and
at most one PageInfo in it is unwritten, whichever regions share the page.  `BootTyped` adds that neither `num_pages`
nor the pages of a zone go below zero.

**SlobProofs.**  The state of a heap is described by the set S of the blocks on its
free list: following `next` from `head` visits S in increasing order (`ListOf`), and
S together with the blocks in use and the block in hand covers the granted units
exactly once (`Tiles`).  `IInv` says that there is such an S in every step of both
walks, that `prev` and `curr` are neighbours on the list, that `prev` is below the
block to insert, and, in the second search, that some block of the list is as large
as the new chunk and that the blocks passed do not fit.  Lemmas say what unlinking,
splitting, linking and merging do to `ListOf` and `Tiles`; the step lemmas combine
them.  `Ascending`, a recursive function of the properties, is shown to exist and to
be S: a largest block for which it were not leads to a contradiction.  All of it holds until a block with a stale `next` becomes the only free one (finding
4), and up to then the double free assertion holds as well.

**KernelProofs.**  A step is allowed in a context, the set of locks that its thread
holds and whether the zone list is known to be set, and leads to another context
(`Leads`).  `IInv` says that what a thread has yet to do is a path from the context
it is in to one without locks, or the rest of the panic handler; that guards
exclude; that a block about to be marked is free, and a free block was never given;
and that who goes on to zone z has seen all zones before it exhausted, which stays
true because nothing is ever freed.  A lock may only be taken above all locks held,
in the order page table, heap, zone list, zone, screen; so a chain of waiting
threads goes up in this order and cannot close (`LocksNest`), except at a thread
that panicked inside a print.

**LoggerProofs.**  The invariant lists, for each of the fifteen bytes of a record, the
states in which the parser can be before it, from whatever state the record found
it in.  After its eleventh byte only one is left: outside a sequence, in white.
`AppliesWholeSequences` compares the parser, which reads byte by byte, with a
definition of whole sequences by their number of parameters (`Opened`, `Complete`).
The invariant `Parses` says for each state of the parser what the bytes seen are: a
beginning of `Opened`, perhaps followed by a part of a parameter or by a whole one,
and `next_style` is what the parameters so far ask for.  Outside a sequence
`next_style` is the style, which is why a sequence that is broken off leaves nothing
behind.  That the style reached is the one asked for by *the* sequence needs that
bytes can be read as a sequence in one way only (`ParamUnique`, `OpenedUnique`), by
induction on the number of parameters; `SetInduction` is that induction, for a set
of numbers in place of an operator.  The theorem holds for every `Bytes` and every
`MaxSeen`, so for sequences of any length.

**TerminalProofs.**  The type invariant, the tab's place outside a sequence and the
cursor are inductive together.  `WriterIsPaper` shows for each outcome of a byte
(drawn, wrapped, scrolled, returned, swallowed) that the rows scrolled off and the
buffer, read as one strip, make a step of `Paper` or none.

**Only model-checked:** liveness (`EveryCallReturns`, `BootEnds`, `EveryCallEnds`,
`PanicsAreReported`), because fairness is out of the provers' reach; every safety
property and every refinement that a run checks is proved.  The violations under Findings are counterexamples and need no proof.

## Abstractions

- Atomics are sequentially consistent; the orderings in the code are acquire on
  taking and release on giving back.
- The lock word is an unbounded number: its 62-bit reader count cannot overflow
  with fewer than 2^62 guards.
- The contents of pages, the data behind locks and the text of messages are left
  out, as is the serial copy of everything printed.
- The heap is modelled for alignments of at most 16.
- The processor is `CPUS[0]` for everybody, as `PerCpu::current` has it.
- `Kernel` lets any processor call any operation once boot is done, although today
  the kernel starts no second processor and `map_to` and `PhysAllocator::free`
  have no callers: the locks are there for callers to come.  Its heap, page table
  and zone list are locks with outcomes left open; their data are in the modules of
  their own.
- A region's address and size are whole frames in `BootMemory`, as the
  bootloader's frame ranges are.

## Not modelled

- *ACPI* (drivers/acpi.rs): `init` hands the tables to the acpi and aml crates and
  stores one value; `enable` and `shutdown` have no callers, and their loops poll a
  device without a bound: whether they end is up to the device.
- *Keyboard* (drivers/keyboard.rs): not compiled, no `mod` names it.
- *Serial port* (drivers/serial.rs): port output without state.
- *GDT and the layout of the IDT* (cpu/gdt.rs, cpu/idt.rs): tables of constants in
  hardware formats; what the handlers do is in `Kernel`.
- *Page tables*: the walk and the entries belong to the x86_64 crate.
- *`without_preempts`* (cpu/percpu.rs) has no callers; only tests read the
  preemption count, so that it is checked for balance only.
- *Test runner* (testing.rs): sequential, leaves the emulator through a port.
- *Alignments above 16* on the heap: `alloc_inner` asserts that they do not occur
  in debug builds (slob.rs:78).
- *Backgrounds in escape sequences*: the parser keeps a bit of the old colour
  (ransid.rs:117); the model does too, and no comment or test says what is meant.
