----------------------------- MODULE RwSpinLock -----------------------------
(***************************************************************************)
(* The upgradeable reader-writer spin lock of src/ds/sync/rwspinlock.rs.   *)
(* One action is one atomic access: to the lock word or to the preemption  *)
(* counter of PerCpu.  A client is a context that holds at most one guard; *)
(* a thread that holds two guards (as the smoke test does) is two clients. *)
(***************************************************************************)
EXTENDS Integers, FiniteSets

CONSTANTS
  Clients,     \* the contexts that use the lock
  Ops          \* the acquiring operations they call

(* The six acquiring operations of RwSpinLock.                             *)
AllOps == {"read", "try_read", "write", "try_write",
           "upgradeable_read", "try_upgradeable_read"}

ASSUME ClientsFinite == IsFiniteSet(Clients)
ASSUME OpsAssumption == Ops \subseteq AllOps

VARIABLES
  lock,           \* the AtomicUsize: 4 * (reader units) + UPGRADED + WRITER
  preempt_count,  \* PerCpu::current().preempt_count
  pc              \* what each client does next, or the guard it holds

vars == <<lock, preempt_count, pc>>

READER   == 4
UPGRADED == 2
WRITER   == 1

-----------------------------------------------------------------------------
(* Between two atomic accesses a client is in one of these places.         *)

(* A failed fetch_add is still to be undone.                               *)
UndoPCs == {"read_undo", "try_read_undo"}

(* A write guard exists: in use, or being downgraded and not yet dropped.  *)
WritePCs == {"writer", "w_reserved", "w_old"}

(* An upgradeable guard exists: in use, consumed by upgrade(), or being    *)
(* downgraded and not yet dropped.                                         *)
UpgradeablePCs == {"upgradeable", "upgrade", "u_reserved", "u_old"}

(* A read guard and no other guard exists.                                 *)
ReadPCs == {"reader", "downgraded"}

(* Places where the client has added READER to the word and not taken it   *)
(* back.                                                                   *)
UnitPCs == UndoPCs \cup ReadPCs \cup {"w_reserved", "w_old", "u_reserved", "u_old"}

(* Places where the client is counted twice in preempt_count: it has both  *)
(* the guard it downgrades and the new read guard.                         *)
TwicePCs == {"w_old", "u_old", "downgraded"}

PCs == {"idle", "unpreempt"} \cup AllOps \cup UndoPCs
         \cup WritePCs \cup UpgradeablePCs \cup ReadPCs

TypeOK ==
  /\ lock \in Nat
  /\ preempt_count \in Nat
  /\ pc \in [Clients -> PCs]

Init ==
  /\ lock = 0
  /\ preempt_count = 0
  /\ pc = [c \in Clients |-> "idle"]

Goto(c, place) == pc' = [pc EXCEPT ![c] = place]

(* value & (WRITER | UPGRADED)                                             *)
Bits(value) == value % 4

(* value | UPGRADED                                                        *)
OrUpgraded(value) == IF Bits(value) \in {0, 1} THEN value + UPGRADED ELSE value

(* Mutants of ClearBits: an unlock that forgets UPGRADED, one that         *)
(* subtracts both bits, and one that stores 0.                             *)
ClearWriterOnly(value) == value - (value % 2)

SubtractBits(value) == value - (WRITER + UPGRADED)

StoreZero(value) == 0

(* value & !(WRITER | UPGRADED)                                            *)
ClearBits(value) == value - Bits(value)

-----------------------------------------------------------------------------
(* Every acquiring operation starts by incrementing the preemption count.  *)
Begin(c, op) ==
  /\ pc[c] = "idle"
  /\ preempt_count' = preempt_count + 1
  /\ Goto(c, op)
  /\ UNCHANGED lock

(* Mutant of ReadFetchAdd: only the WRITER bit keeps readers out.          *)
ReadFetchAddIgnoringUpgraded(c) ==
  /\ pc[c] \in {"read", "try_read"}
  /\ lock' = lock + READER
  /\ Goto(c, IF lock % 2 = 0 THEN "reader"
             ELSE IF pc[c] = "read" THEN "read_undo" ELSE "try_read_undo")
  /\ UNCHANGED preempt_count

(* read and try_read: fetch_add(READER), a guard only if neither WRITER    *)
(* nor UPGRADED was set.                                                   *)
ReadFetchAdd(c) ==
  /\ pc[c] \in {"read", "try_read"}
  /\ lock' = lock + READER
  /\ Goto(c, IF Bits(lock) = 0 THEN "reader"
             ELSE IF pc[c] = "read" THEN "read_undo" ELSE "try_read_undo")
  /\ UNCHANGED preempt_count

(* "Lock is taken, undo": read spins, try_read gives up.                   *)
ReadUndo(c) ==
  /\ pc[c] \in UndoPCs
  /\ lock' = lock - READER
  /\ Goto(c, IF pc[c] = "read_undo" THEN "read" ELSE "unpreempt")
  /\ UNCHANGED preempt_count

(* try_write_internal: compare_exchange(0, WRITER) succeeds.               *)
TryWriteInternal(c) ==
  /\ pc[c] \in {"write", "try_write"}
  /\ lock = 0
  /\ lock' = WRITER
  /\ Goto(c, "writer")
  /\ UNCHANGED preempt_count

(* Mutant of TryWriteFail: try_write returns None without preempt_dec.     *)
TryWriteFailStillCounted(c) ==
  /\ pc[c] = "try_write"
  /\ lock # 0
  /\ Goto(c, "idle")
  /\ UNCHANGED <<lock, preempt_count>>

(* A strong compare_exchange that fails makes try_write give up; write     *)
(* spins, which changes nothing (as does a spurious failure of the weak    *)
(* exchange write uses).                                                   *)
TryWriteFail(c) ==
  /\ pc[c] = "try_write"
  /\ lock # 0
  /\ Goto(c, "unpreempt")
  /\ UNCHANGED <<lock, preempt_count>>

(* upgradeable_read and try_upgradeable_read: fetch_or(UPGRADED).  The bit *)
(* stays set when the attempt fails; whoever holds the lock clears it.     *)
UpgradeableFetchOr(c) ==
  /\ pc[c] \in {"upgradeable_read", "try_upgradeable_read"}
  /\ lock' = OrUpgraded(lock)
  /\ Goto(c, IF Bits(lock) = 0 THEN "upgradeable"
             ELSE IF pc[c] = "upgradeable_read" THEN "upgradeable_read" ELSE "unpreempt")
  /\ UNCHANGED preempt_count

(* upgrade() consumes the guard and spins until it is a write guard.       *)
UpgradeCall(c) ==
  /\ pc[c] = "upgradeable"
  /\ Goto(c, "upgrade")
  /\ UNCHANGED <<lock, preempt_count>>

(* Mutant of TryUpgradeInternal: the exchange looks at the bits only and   *)
(* ignores the readers that are still inside.                              *)
TryUpgradeIgnoringReaders(c) ==
  /\ pc[c] \in {"upgradeable", "upgrade"}
  /\ Bits(lock) = UPGRADED
  /\ lock' = lock - UPGRADED + WRITER
  /\ Goto(c, "writer")
  /\ UNCHANGED preempt_count

(* try_upgrade_internal: compare_exchange(UPGRADED, WRITER) succeeds; the  *)
(* old guard is forgotten, so its destructor does not run.  On failure     *)
(* try_upgrade returns the guard and upgrade spins: nothing changes.       *)
TryUpgradeInternal(c) ==
  /\ pc[c] \in {"upgradeable", "upgrade"}
  /\ lock = UPGRADED
  /\ lock' = WRITER
  /\ Goto(c, "writer")
  /\ UNCHANGED preempt_count

(* Both downgrades: reserve the read guard, count it, then drop the old    *)
(* guard (DropUpgradeable or DropWrite below).                             *)
DowngradeReserve(c) ==
  /\ pc[c] \in {"upgradeable", "writer"}
  /\ lock' = lock + READER
  /\ Goto(c, IF pc[c] = "upgradeable" THEN "u_reserved" ELSE "w_reserved")
  /\ UNCHANGED preempt_count

DowngradePreemptInc(c) ==
  /\ pc[c] \in {"u_reserved", "w_reserved"}
  /\ preempt_count' = preempt_count + 1
  /\ Goto(c, IF pc[c] = "u_reserved" THEN "u_old" ELSE "w_old")
  /\ UNCHANGED lock

DropRead(c) ==
  /\ pc[c] = "reader"
  /\ lock' = lock - READER
  /\ Goto(c, "unpreempt")
  /\ UNCHANGED preempt_count

DropUpgradeable(c) ==
  /\ pc[c] \in {"upgradeable", "u_old"}
  /\ lock' = lock - UPGRADED
  /\ Goto(c, IF pc[c] = "u_old" THEN "downgraded" ELSE "unpreempt")
  /\ UNCHANGED preempt_count

DropWrite(c) ==
  /\ pc[c] \in {"writer", "w_old"}
  /\ lock' = ClearBits(lock)
  /\ Goto(c, IF pc[c] = "w_old" THEN "downgraded" ELSE "unpreempt")
  /\ UNCHANGED preempt_count

(* The last access of a failed attempt and of every destructor.            *)
PreemptDec(c) ==
  /\ pc[c] \in {"unpreempt", "downgraded"}
  /\ preempt_count' = preempt_count - 1
  /\ Goto(c, IF pc[c] = "downgraded" THEN "reader" ELSE "idle")
  /\ UNCHANGED lock

-----------------------------------------------------------------------------
Next ==
  \E c \in Clients :
    \/ \E op \in Ops : Begin(c, op)
    \/ ReadFetchAdd(c)
    \/ ReadUndo(c)
    \/ TryWriteInternal(c)
    \/ TryWriteFail(c)
    \/ UpgradeableFetchOr(c)
    \/ UpgradeCall(c)
    \/ TryUpgradeInternal(c)
    \/ DowngradeReserve(c)
    \/ DowngradePreemptInc(c)
    \/ DropRead(c)
    \/ DropUpgradeable(c)
    \/ DropWrite(c)
    \/ PreemptDec(c)

Spec == Init /\ [][Next]_vars

-----------------------------------------------------------------------------
(* The guard that exists at a place, and the one a client holds.           *)
GuardAt(place) ==
  IF place \in WritePCs THEN "write"
  ELSE IF place \in UpgradeablePCs THEN "upgradeable"
  ELSE IF place \in ReadPCs THEN "read" ELSE "none"

Hold(c) == GuardAt(pc[c])

(* The clients that are at one of the given places.                        *)
At(places) == {c \in Clients : pc[c] \in places}

(* The data behind the lock is never aliased: a write guard excludes every *)
(* other guard, and two upgradeable guards never exist together            *)
(* (read, write, upgradeable_read, upgrade and both downgrades).           *)
MutualExclusion ==
  \A c, d \in Clients :
    c # d => /\ Hold(c) = "write" => Hold(d) = "none"
             /\ Hold(c) = "upgradeable" => Hold(d) # "upgradeable"

(* The reader count of the word is the number of clients whose fetch_add   *)
(* is not yet taken back, however adds, undos, downgrades and drops        *)
(* interleave: no bit operation ever borrows from or carries into it.      *)
ReaderCountExact == lock \div 4 = Cardinality(At(UnitPCs))

WriterSet == lock % 2 = 1

UpgradedOnly == Bits(lock) = UPGRADED

(* WRITER is set exactly while a write guard exists.                       *)
WriterBitExact == WriterSet <=> \E c \in Clients : Hold(c) = "write"

(* UPGRADED without WRITER is set exactly while an upgradeable guard       *)
(* exists.  A failed upgradeable_read leaves the bit behind, "when they    *)
(* unlock, they will clear the bit": an orphaned bit would shut every      *)
(* reader and writer out for ever.                                         *)
UpgradedBitExact == UpgradedOnly <=> \E c \in Clients : Hold(c) = "upgradeable"

(* The lock word says exactly who is inside: no access of an attempt, an   *)
(* undo, an unlock or a downgrade loses or invents a unit or a bit.        *)
LockWordExact == ReaderCountExact /\ WriterBitExact /\ UpgradedBitExact

(* preempt_count counts the guards that exist and the operations under     *)
(* way, so it is 0 when no client uses the lock: each increment of read,   *)
(* write, upgradeable_read, try_* and downgrade is matched by a decrement  *)
(* of a failed attempt or of a destructor.                                 *)
PreemptExact ==
  preempt_count = Cardinality(At(PCs \ {"idle"})) + Cardinality(At(TwicePCs))

(* The lock implements the abstract reader-writer lock: guards appear and  *)
(* disappear only as ReadWriteLock allows.  In particular no reader is     *)
(* admitted while an upgradeable guard exists.                             *)
Abstract == INSTANCE ReadWriteLock WITH hold <- [c \in Clients |-> Hold(c)]

RefinesReadWriteLock == Abstract!Spec
=============================================================================
