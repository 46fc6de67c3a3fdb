------------------------------- MODULE Kernel -------------------------------
(***************************************************************************)
(* The kernel's parts working together: which locks an operation takes, in *)
(* which order and under which other locks, how the physical allocator     *)
(* goes through its zones, and what an exception or a panic does to it.    *)
(* A thread is the steps that it has yet to do.  Locks are what            *)
(* ReadWriteLock promises; a zone is what BlockSource promises, for blocks *)
(* of one order; what the heap finds in its list is left open.             *)
(***************************************************************************)
EXTENDS Integers, Sequences

CONSTANTS
  Threads, Main,   \* processors; Main runs kernel_main
  NumZones,        \* zones in PMM.zones
  ZoneBlocks,      \* ZoneBlocks[z]: the blocks that zone z can hand out
  MaxTables,       \* the most frames one map_to allocates
  MaxCalls,        \* bound: operations that a thread calls
  MaxFaults        \* bound: exceptions altogether

Zones == 1..NumZones

ASSUME KernelAssumption ==
  /\ Main \in Threads
  /\ {NumZones, MaxTables, MaxCalls, MaxFaults} \subseteq Nat
  /\ ZoneBlocks = [z \in Zones |-> ZoneBlocks[z]]
  /\ \A y, z \in Zones : y # z => ZoneBlocks[y] \cap ZoneBlocks[z] = {}

SCREEN == <<"screen", 0>>
HEAP   == <<"heap", 0>>
TABLE  == <<"table", 0>>
PMM    == <<"pmm", 0>>
ZONE(z) == <<"zone", z>>
Locks == {SCREEN, HEAP, TABLE, PMM} \cup {ZONE(z) : z \in Zones}

VARIABLES
  todo,            \* todo[t]: the steps that thread t has yet to do
  held,            \* held[l]: the guards of lock l, <<thread, mode>>
  init,            \* PMM.zones is Some
  booted,          \* PhysAllocator::init has returned
  free,            \* free[z]: the blocks that zone z has not handed out
  given,           \* history: how often each block was handed out
  calls,           \* calls[t]: operations thread t has begun
  faults           \* exceptions so far

vars == <<todo, held, init, booted, free, given, calls, faults>>

-----------------------------------------------------------------------------
(* Steps *)

Lock(l)      == [do |-> "write", lock |-> l]   \* SpinLock::lock, RwSpinLock::write
Read(l)      == [do |-> "read", lock |-> l]    \* RwSpinLock::read
Unlock(l)    == [do |-> "unlock", lock |-> l]  \* a guard is dropped
SetZones     == [do |-> "set_zones"]           \* *PMM.zones.write() = Some(zones)
Booted       == [do |-> "booted"]
Unwrap       == [do |-> "unwrap"]              \* as_ref().unwrap() on PMM.zones
TryZone(z)   == [do |-> "try_zone", zone |-> z]
Alloc(z)     == [do |-> "alloc", zone |-> z]
Take(z, b)   == [do |-> "take", zone |-> z, block |-> b]
TryFree(z, b) == [do |-> "try_free", zone |-> z, block |-> b]
Free(z, b)   == [do |-> "free", zone |-> z, block |-> b]
Tables(n)    == [do |-> "tables", most |-> n]  \* map_to walks the page tables
Panic(why)   == [do |-> "panic", why |-> why]
Halt         == [do |-> "halt"]

-----------------------------------------------------------------------------
(* What an operation does, as the steps of its paths *)

PrintOut == <<Lock(SCREEN), Unlock(SCREEN)>>

(* Mutant of Log: the message is put into a String first.                  *)
LogToString == <<Lock(HEAP), Unlock(HEAP)>> \o PrintOut

Log == PrintOut

(* PhysAllocator::alloc of an order that some zone may have.               *)
PhysAlloc == <<Read(PMM), Unwrap, TryZone(1)>>

(* Of an order above MAX_ORDER: the debug_assert comes before any lock.    *)
PhysAllocTooLarge == <<Panic("order")>>

PhysFree(b) == <<Read(PMM), Unwrap, TryFree(1, b)>>

(* GlobalAlloc::alloc: the first search finds a block, or the second does, *)
(* or neither, or morecore asks for too large an order, with the heap      *)
(* locked; a large request logs first, if the log level says so.           *)
HeapAlloc ==
  {<<Lock(HEAP)>> \o large \o found : large \in {<<>>, Log},
     found \in {<<Unlock(HEAP)>>,
                PhysAllocTooLarge,
                PhysAlloc \o <<Unlock(HEAP)>>,
                PhysAlloc \o PhysAlloc \o <<Panic("unreachable")>>}}

(* GlobalAlloc::dealloc, which may take a free for a double one.           *)
HeapDealloc == {<<Lock(HEAP), Unlock(HEAP)>>, <<Lock(HEAP), Panic("double free")>>}

(* SlobAllocator::debug, with a block on the list.                         *)
HeapDebug == <<Lock(HEAP)>> \o Log \o <<Unlock(HEAP)>>

(* map_to: a frame for every page table that is missing.                   *)
MapTo == <<Lock(TABLE), Tables(MaxTables), Unlock(TABLE)>>

TranslateAddr == <<Read(TABLE), Unlock(TABLE)>>

PhysInit == <<Lock(PMM), SetZones, Unlock(PMM)>> \o Log

(* kernel_main up to the call of acpi::init: the banner, MemoryMap::new    *)
(* with its page table lookups and mappings, PhysAllocator::init.          *)
Boot ==
  PrintOut \o <<Read(TABLE), Unlock(TABLE), Lock(TABLE), Unlock(TABLE)>>
    \o PhysInit \o <<Booted>>

(* The panic handler: one record, then halt_loop.                          *)
PanicHandler == Log \o <<Halt>>

Operations ==
  {PrintOut, Log, PhysAlloc, PhysAllocTooLarge, HeapDebug, MapTo, TranslateAddr}
    \cup HeapAlloc \cup HeapDealloc
    \cup {PhysFree(b) : b \in {c \in DOMAIN given : given[c] > 0}}

-----------------------------------------------------------------------------
Init ==
  /\ todo = [t \in Threads |-> IF t = Main THEN Boot ELSE <<>>]
  /\ held = [l \in Locks |-> {}]
  /\ init = FALSE /\ booted = FALSE
  /\ free = ZoneBlocks
  /\ given = [b \in UNION {ZoneBlocks[z] : z \in Zones} |-> 0]
  /\ calls = [t \in Threads |-> 0]
  /\ faults = 0

(* Thread t replaces the step it is at by others.                          *)
Replace(t, steps) == todo' = [todo EXCEPT ![t] = steps \o Tail(@)]

At(t, do) == todo[t] # <<>> /\ Head(todo[t]).do = do

Begin(t) ==
  /\ todo[t] = <<>> /\ booted
  /\ calls[t] < MaxCalls
  /\ \E steps \in Operations : todo' = [todo EXCEPT ![t] = steps]
  /\ calls' = [calls EXCEPT ![t] = @ + 1]
  /\ UNCHANGED <<held, init, booted, free, given, faults>>

(* int3 and its handler, which logs and returns.                           *)
Breakpoint(t) ==
  /\ todo[t] = <<>> /\ booted
  /\ faults < MaxFaults
  /\ todo' = [todo EXCEPT ![t] = Log]
  /\ faults' = faults + 1
  /\ UNCHANGED <<held, init, booted, free, given, calls>>

(* Any other exception, at any step: its handler panics.  What thread t    *)
(* was doing is never resumed, and its guards are never dropped.           *)
Fault(t) ==
  /\ todo[t] # <<>> /\ ~At(t, "halt")
  /\ faults < MaxFaults
  /\ todo' = [todo EXCEPT ![t] = PanicHandler]
  /\ faults' = faults + 1
  /\ UNCHANGED <<held, init, booted, free, given, calls>>

DoPanic(t) ==
  /\ At(t, "panic")
  /\ todo' = [todo EXCEPT ![t] = PanicHandler]
  /\ UNCHANGED <<held, init, booted, free, given, calls, faults>>

(* _start after kernel_main.                                               *)
Finish ==
  /\ todo[Main] = <<>> /\ booted
  /\ todo' = [todo EXCEPT ![Main] = Log \o <<Halt>>]
  /\ UNCHANGED <<held, init, booted, free, given, calls, faults>>

-----------------------------------------------------------------------------
(* Locks *)

CanTake(step) ==
  IF step.do = "write" THEN held[step.lock] = {}
                       ELSE \A guard \in held[step.lock] : guard[2] = "read"

Acquire(t) ==
  /\ At(t, "write") \/ At(t, "read")
  /\ LET step == Head(todo[t])
     IN  /\ CanTake(step)
         /\ held' = [held EXCEPT ![step.lock] = @ \cup {<<t, step.do>>}]
  /\ Replace(t, <<>>)
  /\ UNCHANGED <<init, booted, free, given, calls, faults>>

Release(t) ==
  /\ At(t, "unlock")
  /\ LET l == Head(todo[t]).lock
     IN  held' = [held EXCEPT ![l] = @ \ ({t} \X {"read", "write"})]
  /\ Replace(t, <<>>)
  /\ UNCHANGED <<init, booted, free, given, calls, faults>>

-----------------------------------------------------------------------------
(* PhysAllocator *)

PublishZones(t) ==
  /\ \/ At(t, "set_zones") /\ init' = TRUE /\ UNCHANGED booted
     \/ At(t, "booted") /\ booted' = TRUE /\ UNCHANGED init
  /\ Replace(t, <<>>)
  /\ UNCHANGED <<held, free, given, calls, faults>>

UnwrapZones(t) ==
  /\ At(t, "unwrap")
  /\ Replace(t, IF init THEN <<>> ELSE <<Panic("unwrap")>>)
  /\ UNCHANGED <<held, init, booted, free, given, calls, faults>>

(* Mutant of NextZone: the zone's lock is not taken.                       *)
NextZoneUnlocked(t) ==
  /\ At(t, "try_zone")
  /\ LET z == Head(todo[t]).zone
     IN  Replace(t, IF z \in Zones THEN <<Alloc(z)>> ELSE <<Unlock(PMM), Panic("out of memory")>>)
  /\ UNCHANGED <<held, init, booted, free, given, calls, faults>>

(* Mutant of NextZone: the last zone is not tried.                         *)
NextZoneNotLast(t) ==
  /\ At(t, "try_zone")
  /\ LET z == Head(todo[t]).zone
     IN  Replace(t, IF z < NumZones THEN <<Lock(ZONE(z)), Alloc(z)>>
                    ELSE <<Unlock(PMM), Panic("out of memory")>>)
  /\ UNCHANGED <<held, init, booted, free, given, calls, faults>>

(* Mutant of NextZone: one zone too many.                                  *)
NextZonePastEnd(t) ==
  /\ At(t, "try_zone")
  /\ LET z == Head(todo[t]).zone
     IN  Replace(t, <<Lock(ZONE(z)), Alloc(z)>>)
  /\ UNCHANGED <<held, init, booted, free, given, calls, faults>>

(* The loop of alloc: the next zone; after the last, the read guard is     *)
(* dropped before the panic.                                               *)
NextZone(t) ==
  /\ At(t, "try_zone")
  /\ LET z == Head(todo[t]).zone
     IN  Replace(t, IF z \in Zones THEN <<Lock(ZONE(z)), Alloc(z)>>
                    ELSE <<Unlock(PMM), Panic("out of memory")>>)
  /\ UNCHANGED <<held, init, booted, free, given, calls, faults>>

(* Mutant of ZoneAlloc: the lock of an exhausted zone is kept.             *)
ZoneAllocKeepingLock(t) ==
  /\ At(t, "alloc")
  /\ LET z == Head(todo[t]).zone
     IN  \/ \E b \in free[z] : Replace(t, <<Take(z, b), Unlock(ZONE(z)), Unlock(PMM)>>)
         \/ free[z] = {} /\ Replace(t, <<TryZone(z + 1)>>)
  /\ UNCHANGED <<held, init, booted, free, given, calls, faults>>

(* Zone::alloc chooses a block that is free, or there is none.             *)
ZoneAlloc(t) ==
  /\ At(t, "alloc")
  /\ LET z == Head(todo[t]).zone
     IN  \/ \E b \in free[z] : Replace(t, <<Take(z, b), Unlock(ZONE(z)), Unlock(PMM)>>)
         \/ free[z] = {} /\ Replace(t, <<Unlock(ZONE(z)), TryZone(z + 1)>>)
  /\ UNCHANGED <<held, init, booted, free, given, calls, faults>>

(* It marks the block Used and returns it.                                 *)
ZoneTake(t) ==
  /\ At(t, "take")
  /\ LET step == Head(todo[t])
     IN  /\ free' = [free EXCEPT ![step.zone] = @ \ {step.block}]
         /\ given' = [given EXCEPT ![step.block] = @ + 1]
  /\ Replace(t, <<>>)
  /\ UNCHANGED <<held, init, booted, calls, faults>>

(* The loop of free: the zone that has the block, whose Zone::free panics  *)
(* under both locks.                                                       *)
NextZoneToFree(t) ==
  /\ At(t, "try_free")
  /\ LET step == Head(todo[t])
     IN  Replace(t, IF step.zone \in Zones
                    THEN <<Lock(ZONE(step.zone)), Free(step.zone, step.block)>>
                    ELSE <<Unlock(PMM), Panic("not managed")>>)
  /\ UNCHANGED <<held, init, booted, free, given, calls, faults>>

ZoneFree(t) ==
  /\ At(t, "free")
  /\ LET step == Head(todo[t])
     IN  Replace(t, IF step.block \in ZoneBlocks[step.zone] THEN <<Panic("free order")>>
                    ELSE <<Unlock(ZONE(step.zone)), TryFree(step.zone + 1, step.block)>>)
  /\ UNCHANGED <<held, init, booted, free, given, calls, faults>>

(* map_to finds no more page tables missing, or needs a frame for one.     *)
NextTable(t) ==
  /\ At(t, "tables")
  /\ LET n == Head(todo[t]).most
     IN  \/ Replace(t, <<>>)
         \/ n > 0 /\ Replace(t, PhysAlloc \o <<Tables(n - 1)>>)
  /\ UNCHANGED <<held, init, booted, free, given, calls, faults>>

-----------------------------------------------------------------------------
Step(t) ==
  \/ DoPanic(t)
  \/ Acquire(t) \/ Release(t)
  \/ PublishZones(t) \/ UnwrapZones(t)
  \/ NextZone(t) \/ ZoneAlloc(t) \/ ZoneTake(t)
  \/ NextZoneToFree(t) \/ ZoneFree(t)
  \/ NextTable(t)

Next ==
  \/ \E t \in Threads : Step(t) \/ Begin(t) \/ Breakpoint(t) \/ Fault(t)
  \/ Finish

Spec == Init /\ [][Next]_vars

(* A processor that runs keeps running; nothing makes it call or fault.    *)
FairSpec == Spec /\ \A t \in Threads : WF_vars(Step(t))

-----------------------------------------------------------------------------
TypeOK ==
  /\ \A t \in Threads : \A i \in DOMAIN todo[t] :
       "lock" \in DOMAIN todo[t][i] => todo[t][i].lock \in Locks
  /\ held \in [Locks -> SUBSET (Threads \X {"read", "write"})]
  /\ init \in BOOLEAN /\ booted \in BOOLEAN
  /\ \A z \in Zones : free[z] \subseteq ZoneBlocks[z]
  /\ calls \in [Threads -> 0..MaxCalls] /\ faults \in 0..MaxFaults

(* No block is handed out twice, by whichever threads and from whichever   *)
(* zones: choosing a block and marking it are one under the zone's lock.   *)
BlocksGivenOnce == \A b \in DOMAIN given : given[b] <= 1

(* PhysAllocator::alloc runs out of memory only when no zone has a block   *)
(* of the order left, although it holds one zone's lock at a time and      *)
(* other threads allocate from the zones it has passed or has yet to try;  *)
(* and it never panics on the unwrap, since nobody allocates before        *)
(* PhysAllocator::init has stored the zones.                               *)
AllocPanicsOnlyIfExhausted ==
  \A t \in Threads : At(t, "panic") =>
    /\ Head(todo[t]).why # "unwrap"
    /\ Head(todo[t]).why = "out of memory" => \A z \in Zones : free[z] = {}

Panicking(t) == todo[t] # <<>> /\ todo[t][Len(todo[t])] = Halt

Blocked(t) == (At(t, "write") \/ At(t, "read")) /\ ~CanTake(Head(todo[t]))

(* t spins on a lock of which u has a guard.                               *)
WaitsFor(t, u) == Blocked(t) /\ \E g \in held[Head(todo[t]).lock] : g[1] = u

(* t waits for u, directly or through others: u is in every set that has   *)
(* the threads t waits for and those its members wait for.                 *)
WaitsOn(t, u) ==
  \A S \in SUBSET Threads :
    (\A x \in S \cup {t} : \A y \in Threads : WaitsFor(x, y) => y \in S) => u \in S

(* t panicked while it held SCREEN: it spins on its own lock.              *)
LostInPrint(t) == Panicking(t) /\ Blocked(t) /\ <<t, "write">> \in held[SCREEN]

(* The locks nest without a cycle: page table, heap, zone list, zone and   *)
(* screen.  The only thread that waits for itself, directly or through     *)
(* others, is one that panicked in the middle of a print.                  *)
NoCircularWait == \A t \in Threads : WaitsOn(t, t) => LostInPrint(t)

(* Waits for a guard that is never dropped.                                *)
Stranded(t) ==
  \E u \in Threads : (u = t \/ WaitsOn(t, u)) /\ (LostInPrint(u) \/ At(u, "halt"))

(* Every operation returns or ends in halt_loop, unless it needs a lock    *)
(* that a halted thread, or one lost in print, has taken to its end.       *)
EveryCallEnds == \A t \in Threads : todo[t] # <<>> ~> todo[t] = <<>> \/ Stranded(t)

(* A panic gets a record out and halts, whatever locks its thread and      *)
(* other halted threads still hold, unless some panic hit a print.  (What  *)
(* the record says is another matter: log() prints arguments that are not  *)
(* a plain string, as the panic's are not, as "Cannot format log entry".)  *)
PanicsAreReported ==
  \A t \in Threads :
    Panicking(t) ~> At(t, "halt") \/ \E u \in Threads : LostInPrint(u)
=============================================================================
