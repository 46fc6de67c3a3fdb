------------------------------ MODULE SpinLock ------------------------------
(***************************************************************************)
(* The spin lock of src/ds/sync/spinlock.rs.  One action is one atomic     *)
(* access: to the flag or to the preemption counter of PerCpu.  A client   *)
(* is a context that holds at most one guard; a thread that holds two (as  *)
(* the tests do) is two clients.                                           *)
(***************************************************************************)
EXTENDS Integers, FiniteSets

CONSTANTS
  Clients,     \* the contexts that use the lock
  Ops          \* the acquiring operations they call

AllOps == {"lock", "try_lock"}

ASSUME ClientsFinite == IsFiniteSet(Clients)
ASSUME OpsAssumption == Ops \subseteq AllOps

VARIABLES
  locked,         \* the AtomicBool
  preempt_count,  \* PerCpu::current().preempt_count
  pc,             \* what each client does next; "guard": it holds a guard
  tried           \* history: somebody has called try_lock

vars == <<locked, preempt_count, pc, tried>>

PCs == {"idle", "spin", "guard", "unpreempt"} \cup AllOps

TypeOK ==
  /\ locked \in BOOLEAN
  /\ preempt_count \in Nat
  /\ pc \in [Clients -> PCs]
  /\ tried \in BOOLEAN

Init ==
  /\ locked = FALSE
  /\ preempt_count = 0
  /\ pc = [c \in Clients |-> "idle"]
  /\ tried = FALSE

Goto(c, place) == pc' = [pc EXCEPT ![c] = place]

-----------------------------------------------------------------------------
(* preempt_inc, the first access of lock and of try_lock.                  *)
Begin(c, op) ==
  /\ pc[c] = "idle"
  /\ preempt_count' = preempt_count + 1
  /\ Goto(c, op)
  /\ tried' = (tried \/ op = "try_lock")
  /\ UNCHANGED locked

(* Mutant of Lock: a load and a store instead of the exchange, so that a   *)
(* client that saw the flag clear in the inner loop just sets it.          *)
LockAfterLoad(c) ==
  /\ pc[c] = "lock"
  /\ locked' = TRUE
  /\ Goto(c, "guard")
  /\ UNCHANGED <<preempt_count, tried>>

(* lock: compare_exchange(false, true).  It fails when the flag is already *)
(* TRUE, and the inner loop follows.                                       *)
Lock(c) ==
  /\ pc[c] = "lock"
  /\ locked' = TRUE
  /\ Goto(c, IF locked THEN "spin" ELSE "guard")
  /\ UNCHANGED <<preempt_count, tried>>

(* The inner loop of lock ends when a relaxed load sees the flag clear.    *)
SpinLoad(c) ==
  /\ pc[c] = "spin"
  /\ ~locked
  /\ Goto(c, "lock")
  /\ UNCHANGED <<locked, preempt_count, tried>>

(* try_lock returns a guard when the exchange is_err(), that is when the   *)
(* flag was already set, and None when the exchange set it.                *)
TryLock(c) ==
  /\ pc[c] = "try_lock"
  /\ locked' = TRUE
  /\ Goto(c, IF locked THEN "guard" ELSE "unpreempt")
  /\ UNCHANGED <<preempt_count, tried>>

(* Mutant of Drop: the destructor does not touch the preemption count.     *)
DropUncounted(c) ==
  /\ pc[c] = "guard"
  /\ locked' = FALSE
  /\ Goto(c, "idle")
  /\ UNCHANGED <<preempt_count, tried>>

(* Mutant of Drop: the flag is never cleared.                              *)
DropStillLocked(c) ==
  /\ pc[c] = "guard"
  /\ Goto(c, "unpreempt")
  /\ UNCHANGED <<locked, preempt_count, tried>>

(* The destructor of a guard clears the flag.                              *)
Drop(c) ==
  /\ pc[c] = "guard"
  /\ locked' = FALSE
  /\ Goto(c, "unpreempt")
  /\ UNCHANGED <<preempt_count, tried>>

(* preempt_dec, the last access of the destructor and of a try_lock that   *)
(* returns None.                                                           *)
PreemptDec(c) ==
  /\ pc[c] = "unpreempt"
  /\ preempt_count' = preempt_count - 1
  /\ Goto(c, "idle")
  /\ UNCHANGED <<locked, tried>>

Next ==
  \E c \in Clients :
    \/ \E op \in Ops : Begin(c, op)
    \/ Lock(c)
    \/ SpinLoad(c)
    \/ TryLock(c)
    \/ Drop(c)
    \/ PreemptDec(c)

Spec == Init /\ [][Next]_vars

-----------------------------------------------------------------------------
At(places) == {c \in Clients : pc[c] \in places}

GuardsExclude ==
  \A c, d \in Clients : pc[c] = "guard" /\ pc[d] = "guard" => c = d

(* Two guards, two &mut to the data, never exist at the same time, as long *)
(* as nobody has called try_lock.                                          *)
MutualExclusion == ~tried => GuardsExclude

(* What the test of try_lock says: a lock that is held yields no guard.    *)
TryLockExcludes == tried => GuardsExclude

(* The flag is set exactly while a guard exists: the lock is never left    *)
(* locked with nobody to unlock it, and never unlocked under a guard,      *)
(* again until the first try_lock.                                         *)
LockedExact == ~tried => (locked <=> \E c \in Clients : pc[c] = "guard")

(* preempt_count counts the guards and the operations under way, so that   *)
(* lock, try_lock and the destructor leave it balanced.                    *)
PreemptExact == preempt_count = Cardinality(At(PCs \ {"idle"}))

(* Until the first try_lock a guard appears and disappears only as the     *)
(* write guard of the abstract lock does.                                  *)
Hold(c) == IF pc[c] = "guard" /\ ~tried THEN "write" ELSE "none"

Abstract == INSTANCE ReadWriteLock WITH hold <- [c \in Clients |-> Hold(c)]

(* SpinLock implements ReadWriteLock: no step of lock() or of a guard's    *)
(* destructor makes a guard that the abstract lock would not give.         *)
RefinesReadWriteLock == Abstract!Spec
=============================================================================
