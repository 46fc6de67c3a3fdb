--------------------------- MODULE SpinLockProofs ---------------------------
(***************************************************************************)
(* Proofs about SpinLock for every finite set of clients: what lock()      *)
(* guarantees as long as nobody has called try_lock, the refinement of     *)
(* ReadWriteLock, and the balance of the preemption count.                 *)
(***************************************************************************)
EXTENDS SpinLock, FiniteSetTheorems, TLAPS

(* The counting half of the invariant.                                     *)
CountInv == TypeOK /\ PreemptExact

(* The locking half: until the first try_lock the flag says whether a      *)
(* guard exists, and no client is inside try_lock.                         *)
LockInv ==
  /\ MutualExclusion
  /\ LockedExact
  /\ ~tried => \A c \in Clients : pc[c] # "try_lock"

-----------------------------------------------------------------------------
(* When one client moves, the count of the clients that are not idle       *)
(* changes by what it contributes.                                         *)
LEMMA BusyStep ==
  ASSUME CountInv, NEW c \in Clients, NEW q \in PCs, Goto(c, q),
         preempt_count' = preempt_count
            + (IF q # "idle" THEN 1 ELSE 0) - (IF pc[c] # "idle" THEN 1 ELSE 0)
  PROVE  /\ PreemptExact'
         /\ preempt_count' \in Nat
         /\ pc' \in [Clients -> PCs]
<1> DEFINE R == At(PCs \ {"idle"}) \ {c}
<1>1. pc \in [Clients -> PCs] /\ pc' = [pc EXCEPT ![c] = q] /\ pc' \in [Clients -> PCs]
  BY DEF CountInv, TypeOK, Goto
<1>2. IsFiniteSet(R) /\ c \notin R /\ Cardinality(R) \in Nat
  BY ClientsFinite, FS_Subset, FS_CardinalityType DEF At
<1>3. At(PCs \ {"idle"}) = IF pc[c] # "idle" THEN R \cup {c} ELSE R
  BY <1>1 DEF At
<1>4. At(PCs \ {"idle"})' = IF q # "idle" THEN R \cup {c} ELSE R
  BY <1>1 DEF At
<1>5. Cardinality(R \cup {c}) = Cardinality(R) + 1
  BY <1>2, FS_AddElement, Zenon
<1> HIDE DEF R
<1>6. preempt_count = Cardinality(R) + (IF pc[c] # "idle" THEN 1 ELSE 0)
  BY <1>2, <1>3, <1>5 DEF CountInv, PreemptExact
<1>7. Cardinality(At(PCs \ {"idle"})') = Cardinality(R) + (IF q # "idle" THEN 1 ELSE 0)
  BY <1>2, <1>4, <1>5
<1>8. preempt_count' = Cardinality(At(PCs \ {"idle"})') /\ preempt_count' \in Nat
  BY <1>2, <1>6, <1>7
<1>9. QED
  BY <1>1, <1>8 DEF PreemptExact

(* Every step preserves the counting half.                                 *)
LEMMA CountStep == CountInv /\ [Next]_vars => CountInv'
<1> SUFFICES ASSUME CountInv, [Next]_vars PROVE CountInv'
  OBVIOUS
<1>a. /\ locked \in BOOLEAN /\ preempt_count \in Nat
      /\ pc \in [Clients -> PCs] /\ tried \in BOOLEAN
  BY DEF CountInv, TypeOK
<1>1. ASSUME NEW c \in Clients, NEW op \in Ops, Begin(c, op) PROVE CountInv'
  <2>1. op \in PCs /\ op # "idle" /\ Goto(c, op) /\ locked' = locked /\ tried' \in BOOLEAN
    BY <1>a, <1>1, OpsAssumption DEF Begin, PCs, AllOps
  <2>2. preempt_count' = preempt_count
           + (IF op # "idle" THEN 1 ELSE 0) - (IF pc[c] # "idle" THEN 1 ELSE 0)
    BY <1>a, <1>1, <2>1 DEF Begin
  <2> QED
    BY <1>a, <2>1, <2>2, BusyStep DEF CountInv, TypeOK
<1>2. ASSUME NEW c \in Clients, Lock(c) \/ SpinLoad(c) \/ TryLock(c) \/ Drop(c)
      PROVE  CountInv'
  <2>1. \E q \in PCs \ {"idle"} : Goto(c, q)
    BY <1>2 DEF Lock, SpinLoad, TryLock, Drop, PCs, AllOps
  <2>2. PICK q \in PCs \ {"idle"} : Goto(c, q)
    BY <2>1
  <2>3. locked' \in BOOLEAN /\ tried' = tried /\ preempt_count' = preempt_count /\ pc[c] # "idle"
    BY <1>a, <1>2, Zenon DEF Lock, SpinLoad, TryLock, Drop
  <2>4. preempt_count' = preempt_count
           + (IF q # "idle" THEN 1 ELSE 0) - (IF pc[c] # "idle" THEN 1 ELSE 0)
    BY <1>a, <2>2, <2>3
  <2> QED
    BY <1>a, <2>2, <2>3, <2>4, BusyStep DEF CountInv, TypeOK
<1>3. ASSUME NEW c \in Clients, PreemptDec(c) PROVE CountInv'
  <2>1. "idle" \in PCs /\ Goto(c, "idle") /\ locked' = locked /\ tried' = tried
    BY <1>3 DEF PreemptDec, PCs
  <2>2. preempt_count' = preempt_count
           + (IF "idle" # "idle" THEN 1 ELSE 0) - (IF pc[c] # "idle" THEN 1 ELSE 0)
    BY <1>a, <1>3 DEF PreemptDec
  <2> QED
    BY <1>a, <2>1, <2>2, BusyStep DEF CountInv, TypeOK
<1>4. CASE UNCHANGED vars
  BY <1>4 DEF vars, CountInv, TypeOK, PreemptExact, At
<1> QED
  BY <1>1, <1>2, <1>3, <1>4 DEF Next

(* The preemption count is exact whatever the clients call.                *)
THEOREM PreemptBalanced == Spec => [](TypeOK /\ PreemptExact)
<1>1. Init => CountInv
  <2> SUFFICES ASSUME Init PROVE CountInv
    OBVIOUS
  <2>1. At(PCs \ {"idle"}) = {}
    BY DEF Init, At
  <2> QED
    BY <2>1, FS_EmptySet, Zenon DEF Init, CountInv, TypeOK, PreemptExact, PCs
<1>2. QED
  BY <1>1, CountStep, PTL DEF Spec, CountInv

-----------------------------------------------------------------------------
(* Every step preserves the locking half.                                  *)
LEMMA LockStep ==
  ASSUME TypeOK, TypeOK', LockInv, [Next]_vars
  PROVE  LockInv'
<1>a. /\ pc \in [Clients -> PCs] /\ pc' \in [Clients -> PCs]
      /\ locked \in BOOLEAN /\ tried \in BOOLEAN
  BY DEF TypeOK
<1> USE DEF LockInv, MutualExclusion, GuardsExclude, LockedExact, Goto
<1>1. ASSUME NEW c \in Clients, NEW op \in Ops, Begin(c, op) PROVE LockInv'
  BY <1>a, <1>1, OpsAssumption, Zenon DEF Begin, AllOps
<1>2. ASSUME NEW c \in Clients, Lock(c) PROVE LockInv'
  BY <1>a, <1>2 DEF Lock
<1>3. ASSUME NEW c \in Clients, SpinLoad(c) PROVE LockInv'
  BY <1>a, <1>3 DEF SpinLoad
<1>4. ASSUME NEW c \in Clients, TryLock(c) PROVE LockInv'
  BY <1>a, <1>4 DEF TryLock
<1>5. ASSUME NEW c \in Clients, Drop(c) PROVE LockInv'
  BY <1>a, <1>5 DEF Drop
<1>6. ASSUME NEW c \in Clients, PreemptDec(c) PROVE LockInv'
  BY <1>a, <1>6 DEF PreemptDec
<1>7. CASE UNCHANGED vars
  BY <1>7 DEF vars
<1> QED
  BY <1>1, <1>2, <1>3, <1>4, <1>5, <1>6, <1>7 DEF Next

(* The locking half is an invariant.                                       *)
LEMMA LockInvariant == Spec => []LockInv
<1>1. Init => LockInv
  <2> SUFFICES ASSUME Init PROVE LockInv
    OBVIOUS
  <2>1. locked = FALSE /\ tried = FALSE /\ \A c \in Clients : pc[c] = "idle"
    BY DEF Init
  <2> QED
    BY <2>1 DEF LockInv, MutualExclusion, GuardsExclude, LockedExact
<1>2. TypeOK /\ TypeOK' /\ LockInv /\ [Next]_vars => LockInv'
  BY LockStep
<1>3. QED
  BY <1>1, <1>2, PreemptBalanced, PTL DEF Spec

(* Until somebody calls try_lock, the spin lock excludes.                  *)
THEOREM LockExcludes == Spec => []MutualExclusion
<1>1. LockInv => MutualExclusion
  BY DEF LockInv
<1>2. QED
  BY <1>1, LockInvariant, PTL

(* Until somebody calls try_lock, the flag is set exactly while a guard    *)
(* exists.                                                                 *)
THEOREM FlagExact == Spec => []LockedExact
<1>1. LockInv => LockedExact
  BY DEF LockInv
<1>2. QED
  BY <1>1, LockInvariant, PTL

-----------------------------------------------------------------------------
Holds == [c \in Clients |-> Hold(c)]

(* Client c alone changes what it holds, as ReadWriteLock lets it.         *)
LEMMA HoldStep ==
  ASSUME TypeOK, TypeOK', LockInv, LockInv', [Next]_vars
  PROVE  [Abstract!Next]_Holds
<1>a. /\ pc \in [Clients -> PCs] /\ pc' \in [Clients -> PCs]
      /\ locked \in BOOLEAN /\ tried \in BOOLEAN
  BY DEF TypeOK
<1> SUFFICES \/ Holds' = Holds
             \/ \E c \in Clients : Abstract!AcquireWrite(c) \/ Abstract!Release(c)
  BY DEF Abstract!Next, Holds
<1> USE DEF Holds, Hold
<1>1. ASSUME NEW c \in Clients, Lock(c), ~locked, ~tried PROVE Abstract!AcquireWrite(c)
  <2>1. \A d \in Clients : pc[d] # "guard"
    BY <1>1 DEF LockInv, LockedExact
  <2>2. pc' = [pc EXCEPT ![c] = "guard"] /\ tried' = tried
    BY <1>1 DEF Lock, Goto
  <2> QED
    BY <1>a, <1>1, <2>1, <2>2, Zenon
       DEF Abstract!AcquireWrite, Abstract!OthersIn, Abstract!Become
<1>2. ASSUME NEW c \in Clients, Drop(c), ~tried PROVE Abstract!Release(c)
  <2>1. pc' = [pc EXCEPT ![c] = "unpreempt"] /\ tried' = tried /\ pc[c] = "guard"
    BY <1>2 DEF Drop, Goto
  <2> QED
    BY <1>a, <1>2, <2>1, Zenon DEF Abstract!Release, Abstract!Become
<1>3. ASSUME NEW c \in Clients, NEW op \in Ops, Begin(c, op), tried' # tried,
             NEW d \in Clients, pc[d] = "guard"
      PROVE  Abstract!Release(d)
  <2>1. ~tried /\ tried' = TRUE
    BY <1>a, <1>3, Zenon DEF Begin
  <2>2. \A e \in Clients : pc[e] = "guard" => e = d
    BY <1>3, <2>1 DEF LockInv, MutualExclusion, GuardsExclude
  <2> QED
    BY <1>a, <1>3, <2>1, <2>2, Zenon DEF Abstract!Release, Abstract!Become
<1>4. ASSUME NEW c \in Clients, NEW op \in Ops, Begin(c, op),
             tried' = tried \/ \A d \in Clients : pc[d] # "guard"
      PROVE  Holds' = Holds
  BY <1>a, <1>4, OpsAssumption DEF Begin, Goto, AllOps
<1>5. ASSUME NEW c \in Clients,
             \/ Lock(c) /\ locked
             \/ SpinLoad(c) \/ TryLock(c) \/ PreemptDec(c)
             \/ tried /\ (Lock(c) \/ Drop(c))
      PROVE  Holds' = Holds
  BY <1>a, <1>5 DEF Lock, SpinLoad, TryLock, PreemptDec, Drop, Goto, LockInv
<1>6. CASE UNCHANGED vars
  BY <1>6 DEF vars
<1> QED
  BY <1>1, <1>2, <1>3, <1>4, <1>5, <1>6 DEF Next

(* SpinLock implements ReadWriteLock until the first try_lock.             *)
THEOREM Refinement == Spec => RefinesReadWriteLock
<1>1. Init => Abstract!Init
  BY DEF Init, Abstract!Init, Hold
<1>2. TypeOK /\ TypeOK' /\ LockInv /\ LockInv' /\ [Next]_vars => [Abstract!Next]_Holds
  BY HoldStep
<1>3. QED
  BY <1>1, <1>2, LockInvariant, PreemptBalanced, PTL
     DEF Spec, RefinesReadWriteLock, Abstract!Spec, Holds
=============================================================================
