-------------------------- MODULE RwSpinLockProofs --------------------------
(***************************************************************************)
(* Proofs about RwSpinLock for every finite set of clients and every set   *)
(* of operations they call.                                                *)
(***************************************************************************)
EXTENDS RwSpinLock, FiniteSetTheorems, TLAPS

(* The inductive invariant: exclusion alone is not preserved by the        *)
(* compare_exchange of write and upgrade, which see only the word; the     *)
(* word has to say exactly who is inside.                                  *)
IInv ==
  /\ TypeOK
  /\ MutualExclusion
  /\ ReaderCountExact
  /\ WriterBitExact
  /\ UpgradedBitExact
  /\ PreemptExact

-----------------------------------------------------------------------------
(* Finitely many clients are at any set of places.                         *)
LEMMA AtFinite ==
  ASSUME NEW P
  PROVE  /\ IsFiniteSet(At(P))
         /\ Cardinality(At(P)) \in Nat
<1>1. At(P) \subseteq Clients
  BY DEF At
<1>2. IsFiniteSet(At(P))
  BY <1>1, ClientsFinite, FS_Subset
<1>3. QED
  BY <1>2, FS_CardinalityType

(* When one client moves, the number of clients at a set of places changes *)
(* by what that client contributes (every action of RwSpinLock is such a   *)
(* move).                                                                  *)
LEMMA AtStep ==
  ASSUME NEW CONSTANT P, NEW c \in Clients, NEW q \in PCs,
         pc \in [Clients -> PCs],
         pc' = [pc EXCEPT ![c] = q]
  PROVE  Cardinality(At(P)') = Cardinality(At(P))
            + (IF q \in P THEN 1 ELSE 0) - (IF pc[c] \in P THEN 1 ELSE 0)
<1> DEFINE R == At(P) \ {c}
<1>1. IsFiniteSet(R) /\ c \notin R /\ Cardinality(R) \in Nat
  BY AtFinite, FS_Subset, FS_CardinalityType
<1>2. At(P) = IF pc[c] \in P THEN R \cup {c} ELSE R
  BY DEF At
<1>3. At(P)' = IF q \in P THEN R \cup {c} ELSE R
  BY DEF At
<1>4. Cardinality(R \cup {c}) = Cardinality(R) + 1
  BY <1>1, FS_AddElement
<1> HIDE DEF R
<1>5. Cardinality(At(P)) = Cardinality(R) + (IF pc[c] \in P THEN 1 ELSE 0)
  BY <1>1, <1>2, <1>4
<1>6. Cardinality(At(P)') = Cardinality(R) + (IF q \in P THEN 1 ELSE 0)
  BY <1>1, <1>3, <1>4
<1>7. QED
  BY <1>1, <1>5, <1>6

-----------------------------------------------------------------------------
(* Initially the word is 0 and nobody is inside.                           *)
LEMMA InitIInv == Init => IInv
<1> SUFFICES ASSUME Init PROVE IInv
  OBVIOUS
<1>1. TypeOK /\ MutualExclusion /\ WriterBitExact /\ UpgradedBitExact
  BY DEF Init, TypeOK, MutualExclusion, WriterBitExact, UpgradedBitExact,
         WriterSet, UpgradedOnly, UPGRADED, Bits, Hold, GuardAt, PCs, WritePCs, UpgradeablePCs, ReadPCs
<1>2. At(UnitPCs) = {} /\ At(PCs \ {"idle"}) = {} /\ At(TwicePCs) = {}
  BY DEF Init, At, UnitPCs, UndoPCs, ReadPCs, TwicePCs
<1>3. ReaderCountExact /\ PreemptExact
  BY <1>2, FS_EmptySet DEF Init, ReaderCountExact, PreemptExact
<1>4. QED
  BY <1>1, <1>3 DEF IInv
-----------------------------------------------------------------------------
(* What a client at a place contributes to the reader count of the word    *)
(* and to preempt_count.                                                   *)
Units(place)  == IF place \in UnitPCs THEN 1 ELSE 0
Weight(place) == (IF place # "idle" THEN 1 ELSE 0) + (IF place \in TwicePCs THEN 1 ELSE 0)

(* When client c moves to place q, the two counters stay exact if they     *)
(* change by what c contributes before and after.                          *)
LEMMA CountsStep ==
  ASSUME IInv, NEW c \in Clients, NEW q \in PCs, Goto(c, q),
         lock' \in Int, lock' \div 4 = (lock \div 4) + Units(q) - Units(pc[c]),
         preempt_count' = preempt_count + Weight(q) - Weight(pc[c])
  PROVE  TypeOK' /\ ReaderCountExact' /\ PreemptExact'
<1>1. pc \in [Clients -> PCs] /\ pc' = [pc EXCEPT ![c] = q] /\ pc' \in [Clients -> PCs]
  BY DEF IInv, TypeOK, Goto
<1>2. Cardinality(At(UnitPCs)') = Cardinality(At(UnitPCs)) + Units(q) - Units(pc[c])
  BY <1>1, AtStep, Zenon DEF Units
<1>3. Cardinality(At(TwicePCs)') = Cardinality(At(TwicePCs))
       + (IF q \in TwicePCs THEN 1 ELSE 0) - (IF pc[c] \in TwicePCs THEN 1 ELSE 0)
  BY <1>1, AtStep, Zenon
<1>4. Cardinality(At(PCs \ {"idle"})') = Cardinality(At(PCs \ {"idle"}))
       + (IF q \in PCs \ {"idle"} THEN 1 ELSE 0) - (IF pc[c] \in PCs \ {"idle"} THEN 1 ELSE 0)
  BY <1>1, AtStep, Zenon
<1>5. (q \in PCs \ {"idle"} <=> q # "idle") /\ (pc[c] \in PCs \ {"idle"} <=> pc[c] # "idle")
  BY <1>1
<1>6. /\ Cardinality(At(UnitPCs)') \in Nat /\ Cardinality(At(UnitPCs)) \in Nat
      /\ Cardinality(At(TwicePCs)') \in Nat /\ Cardinality(At(TwicePCs)) \in Nat
      /\ Cardinality(At(PCs \ {"idle"})') \in Nat /\ Cardinality(At(PCs \ {"idle"})) \in Nat
  <2>1. \A P : IsFiniteSet({d \in Clients : pc'[d] \in P})
    BY ClientsFinite, FS_Subset
  <2>2. QED
    BY <2>1, AtFinite, FS_CardinalityType, Zenon DEF At
<1>7. ReaderCountExact'
  BY <1>2 DEF IInv, ReaderCountExact
<1>8. PreemptExact'
  BY <1>3, <1>4, <1>5, <1>6 DEF IInv, PreemptExact, Weight
<1>9. lock' \in Nat /\ preempt_count' \in Nat
  BY <1>6, <1>7, <1>8 DEF ReaderCountExact, PreemptExact
<1>10. QED
  BY <1>1, <1>7, <1>8, <1>9 DEF TypeOK

(* A move of client c changes no other client's guard.                     *)
LEMMA HoldStep ==
  ASSUME TypeOK, NEW c \in Clients, NEW q \in PCs, Goto(c, q)
  PROVE  /\ Hold(c) = GuardAt(pc[c])
         /\ \A d \in Clients : Hold(d)' = IF d = c THEN GuardAt(q) ELSE Hold(d)
  BY DEF TypeOK, Goto, Hold

(* With no reader unit in the word nobody holds a read guard: what the     *)
(* compare_exchange of write and of upgrade learns from the word.          *)
LEMMA NoUnitsNoReaders ==
  ASSUME IInv, lock \div 4 = 0
  PROVE  \A c \in Clients : Hold(c) \in {"none", "upgradeable", "write"}
<1>1. At(UnitPCs) = {}
  BY AtFinite, FS_EmptySet DEF IInv, ReaderCountExact
<1>2. QED
  BY <1>1 DEF At, Hold, GuardAt, UnitPCs

(* Every step preserves the inductive invariant.                           *)
LEMMA StepIInv == IInv /\ [Next]_vars => IInv'
<1> SUFFICES ASSUME IInv, [Next]_vars PROVE IInv'
  OBVIOUS
<1>a. lock \in Nat /\ preempt_count \in Nat /\ pc \in [Clients -> PCs]
  BY DEF IInv, TypeOK
<1> DEFINE Words == MutualExclusion /\ WriterBitExact /\ UpgradedBitExact
<1>1. ASSUME NEW c \in Clients, NEW op \in Ops, Begin(c, op) PROVE IInv'
  <2> DEFINE p == pc[c]
             q == op
  <2>1. q \in PCs /\ Goto(c, q)
    BY <1>1, OpsAssumption DEF Begin, PCs, AllOps, UndoPCs, WritePCs, UpgradeablePCs, ReadPCs
  <2>2. /\ Units(p) = 0 /\ Units(q) = 0
        /\ Weight(p) = 0 /\ Weight(q) = 1
        /\ GuardAt(q) = GuardAt(p)
    BY <1>1, OpsAssumption DEF Begin, Units, Weight, GuardAt, UnitPCs, TwicePCs, AllOps, UndoPCs,
                  WritePCs, UpgradeablePCs, ReadPCs
  <2>3. /\ Hold(c) = GuardAt(p)
        /\ \A d \in Clients : Hold(d)' = IF d = c THEN GuardAt(q) ELSE Hold(d)
    BY <2>1, HoldStep DEF IInv
  <2>4. /\ lock' \in Int /\ lock' \div 4 = (lock \div 4) + Units(q) - Units(p)
        /\ preempt_count' = preempt_count + Weight(q) - Weight(p)
        /\ (WriterSet' <=> WriterSet) /\ (UpgradedOnly' <=> UpgradedOnly)
    BY <1>a, <1>1, <2>2 DEF Begin, WriterSet, UpgradedOnly, UPGRADED, Bits
  <2>5. TypeOK' /\ ReaderCountExact' /\ PreemptExact'
    BY <2>1, <2>4, CountsStep
  <2>6. Words'
    BY <2>2, <2>3, <2>4 DEF IInv, MutualExclusion, WriterBitExact, UpgradedBitExact
  <2> QED
    BY <2>5, <2>6 DEF IInv
<1>2. ASSUME NEW c \in Clients, ReadFetchAdd(c) PROVE IInv'
  <2> DEFINE p == pc[c]
             q == IF Bits(lock) = 0 THEN "reader"
                  ELSE IF p = "read" THEN "read_undo" ELSE "try_read_undo"
  <2>1. q \in PCs /\ Goto(c, q)
    BY <1>2 DEF ReadFetchAdd, PCs, AllOps, UndoPCs, WritePCs, UpgradeablePCs, ReadPCs
  <2>2. /\ Units(p) = 0 /\ Units(q) = 1
        /\ Weight(q) = Weight(p) /\ Weight(p) \in Int
        /\ GuardAt(p) = "none" /\ GuardAt(q) = IF Bits(lock) = 0 THEN "read" ELSE "none"
    BY <1>2 DEF ReadFetchAdd, Units, Weight, GuardAt, UnitPCs, TwicePCs, AllOps, UndoPCs,
                  WritePCs, UpgradeablePCs, ReadPCs
  <2>3. /\ Hold(c) = GuardAt(p)
        /\ \A d \in Clients : Hold(d)' = IF d = c THEN GuardAt(q) ELSE Hold(d)
    BY <2>1, HoldStep DEF IInv
  <2>4. /\ lock' \in Int /\ lock' \div 4 = (lock \div 4) + Units(q) - Units(p)
        /\ preempt_count' = preempt_count + Weight(q) - Weight(p)
        /\ (WriterSet' <=> WriterSet) /\ (UpgradedOnly' <=> UpgradedOnly)
        /\ (Bits(lock) = 0 <=> ~WriterSet /\ ~UpgradedOnly)
    BY <1>a, <1>2, <2>2 DEF ReadFetchAdd, READER, WriterSet, UpgradedOnly, UPGRADED, Bits
  <2>5. TypeOK' /\ ReaderCountExact' /\ PreemptExact'
    BY <2>1, <2>4, CountsStep
  <2>6. Words'
    BY <2>2, <2>3, <2>4 DEF IInv, MutualExclusion, WriterBitExact, UpgradedBitExact
  <2> QED
    BY <2>5, <2>6 DEF IInv
<1>3. ASSUME NEW c \in Clients, ReadUndo(c) PROVE IInv'
  <2> DEFINE p == pc[c]
             q == IF p = "read_undo" THEN "read" ELSE "unpreempt"
  <2>1. q \in PCs /\ Goto(c, q)
    BY <1>3 DEF ReadUndo, PCs, AllOps, UndoPCs, WritePCs, UpgradeablePCs, ReadPCs
  <2>2. /\ Units(p) = 1 /\ Units(q) = 0
        /\ Weight(q) = Weight(p) /\ Weight(p) \in Int
        /\ GuardAt(q) = GuardAt(p)
    BY <1>3 DEF ReadUndo, Units, Weight, GuardAt, UnitPCs, TwicePCs, AllOps, UndoPCs,
                  WritePCs, UpgradeablePCs, ReadPCs
  <2>3. /\ Hold(c) = GuardAt(p)
        /\ \A d \in Clients : Hold(d)' = IF d = c THEN GuardAt(q) ELSE Hold(d)
    BY <2>1, HoldStep DEF IInv
  <2>4. /\ lock' \in Int /\ lock' \div 4 = (lock \div 4) + Units(q) - Units(p)
        /\ preempt_count' = preempt_count + Weight(q) - Weight(p)
        /\ (WriterSet' <=> WriterSet) /\ (UpgradedOnly' <=> UpgradedOnly)
    BY <1>a, <1>3, <2>2 DEF ReadUndo, READER, WriterSet, UpgradedOnly, UPGRADED, Bits
  <2>5. TypeOK' /\ ReaderCountExact' /\ PreemptExact'
    BY <2>1, <2>4, CountsStep
  <2>6. Words'
    BY <2>2, <2>3, <2>4 DEF IInv, MutualExclusion, WriterBitExact, UpgradedBitExact
  <2> QED
    BY <2>5, <2>6 DEF IInv
<1>4. ASSUME NEW c \in Clients, TryWriteInternal(c) PROVE IInv'
  <2> DEFINE p == pc[c]
             q == "writer"
  <2>1. q \in PCs /\ Goto(c, q)
    BY <1>4 DEF TryWriteInternal, PCs, AllOps, UndoPCs, WritePCs, UpgradeablePCs, ReadPCs
  <2>2. /\ Units(p) = 0 /\ Units(q) = 0
        /\ Weight(q) = Weight(p) /\ Weight(p) \in Int
        /\ GuardAt(p) = "none" /\ GuardAt(q) = "write"
    BY <1>4 DEF TryWriteInternal, Units, Weight, GuardAt, UnitPCs, TwicePCs, AllOps, UndoPCs,
                  WritePCs, UpgradeablePCs, ReadPCs
  <2>3. /\ Hold(c) = GuardAt(p)
        /\ \A d \in Clients : Hold(d)' = IF d = c THEN GuardAt(q) ELSE Hold(d)
    BY <2>1, HoldStep DEF IInv
  <2>4. /\ lock' \in Int /\ lock' \div 4 = (lock \div 4) + Units(q) - Units(p)
        /\ preempt_count' = preempt_count + Weight(q) - Weight(p)
        /\ ~WriterSet /\ ~UpgradedOnly /\ WriterSet' /\ ~UpgradedOnly'
    BY <1>a, <1>4, <2>2 DEF TryWriteInternal, WRITER, WriterSet, UpgradedOnly, UPGRADED, Bits
  <2>5. TypeOK' /\ ReaderCountExact' /\ PreemptExact'
    BY <2>1, <2>4, CountsStep
  <2>6. \A d \in Clients : Hold(d) \in {"none", "upgradeable", "write"}
    BY <1>4, NoUnitsNoReaders DEF TryWriteInternal, UPGRADED
  <2>7. Words'
    BY <2>2, <2>3, <2>4, <2>6 DEF IInv, MutualExclusion, WriterBitExact, UpgradedBitExact
  <2> QED
    BY <2>5, <2>7 DEF IInv
<1>5. ASSUME NEW c \in Clients, TryWriteFail(c) PROVE IInv'
  <2> DEFINE p == pc[c]
             q == "unpreempt"
  <2>1. q \in PCs /\ Goto(c, q)
    BY <1>5 DEF TryWriteFail, PCs, AllOps, UndoPCs, WritePCs, UpgradeablePCs, ReadPCs
  <2>2. /\ Units(p) = 0 /\ Units(q) = 0
        /\ Weight(q) = Weight(p) /\ Weight(p) \in Int
        /\ GuardAt(q) = GuardAt(p)
    BY <1>5 DEF TryWriteFail, Units, Weight, GuardAt, UnitPCs, TwicePCs, AllOps, UndoPCs,
                  WritePCs, UpgradeablePCs, ReadPCs
  <2>3. /\ Hold(c) = GuardAt(p)
        /\ \A d \in Clients : Hold(d)' = IF d = c THEN GuardAt(q) ELSE Hold(d)
    BY <2>1, HoldStep DEF IInv
  <2>4. /\ lock' \in Int /\ lock' \div 4 = (lock \div 4) + Units(q) - Units(p)
        /\ preempt_count' = preempt_count + Weight(q) - Weight(p)
        /\ (WriterSet' <=> WriterSet) /\ (UpgradedOnly' <=> UpgradedOnly)
    BY <1>a, <1>5, <2>2 DEF TryWriteFail, WriterSet, UpgradedOnly, UPGRADED, Bits
  <2>5. TypeOK' /\ ReaderCountExact' /\ PreemptExact'
    BY <2>1, <2>4, CountsStep
  <2>6. Words'
    BY <2>2, <2>3, <2>4 DEF IInv, MutualExclusion, WriterBitExact, UpgradedBitExact
  <2> QED
    BY <2>5, <2>6 DEF IInv
<1>6. ASSUME NEW c \in Clients, UpgradeableFetchOr(c) PROVE IInv'
  <2> DEFINE p == pc[c]
             q == IF Bits(lock) = 0 THEN "upgradeable"
                  ELSE IF p = "upgradeable_read" THEN "upgradeable_read" ELSE "unpreempt"
  <2>1. q \in PCs /\ Goto(c, q)
    BY <1>6 DEF UpgradeableFetchOr, PCs, AllOps, UndoPCs, WritePCs, UpgradeablePCs, ReadPCs
  <2>2. /\ Units(p) = 0 /\ Units(q) = 0
        /\ Weight(q) = Weight(p) /\ Weight(p) \in Int
        /\ GuardAt(p) = "none" /\ GuardAt(q) = IF Bits(lock) = 0 THEN "upgradeable" ELSE "none"
    BY <1>6 DEF UpgradeableFetchOr, Units, Weight, GuardAt, UnitPCs, TwicePCs, AllOps, UndoPCs,
                  WritePCs, UpgradeablePCs, ReadPCs
  <2>3. /\ Hold(c) = GuardAt(p)
        /\ \A d \in Clients : Hold(d)' = IF d = c THEN GuardAt(q) ELSE Hold(d)
    BY <2>1, HoldStep DEF IInv
  <2>4. /\ lock' \in Int /\ lock' \div 4 = (lock \div 4) + Units(q) - Units(p)
        /\ preempt_count' = preempt_count + Weight(q) - Weight(p)
        /\ (WriterSet' <=> WriterSet) /\ (UpgradedOnly' <=> ~WriterSet)
        /\ (Bits(lock) = 0 <=> ~WriterSet /\ ~UpgradedOnly)
    BY <1>a, <1>6, <2>2 DEF UpgradeableFetchOr, OrUpgraded, WriterSet, UpgradedOnly, UPGRADED, Bits
  <2>5. TypeOK' /\ ReaderCountExact' /\ PreemptExact'
    BY <2>1, <2>4, CountsStep
  <2>6. Words'
    BY <2>2, <2>3, <2>4 DEF IInv, MutualExclusion, WriterBitExact, UpgradedBitExact
  <2> QED
    BY <2>5, <2>6 DEF IInv
<1>7. ASSUME NEW c \in Clients, UpgradeCall(c) PROVE IInv'
  <2> DEFINE p == pc[c]
             q == "upgrade"
  <2>1. q \in PCs /\ Goto(c, q)
    BY <1>7 DEF UpgradeCall, PCs, AllOps, UndoPCs, WritePCs, UpgradeablePCs, ReadPCs
  <2>2. /\ Units(p) = 0 /\ Units(q) = 0
        /\ Weight(q) = Weight(p) /\ Weight(p) \in Int
        /\ GuardAt(q) = GuardAt(p)
    BY <1>7 DEF UpgradeCall, Units, Weight, GuardAt, UnitPCs, TwicePCs, AllOps, UndoPCs,
                  WritePCs, UpgradeablePCs, ReadPCs
  <2>3. /\ Hold(c) = GuardAt(p)
        /\ \A d \in Clients : Hold(d)' = IF d = c THEN GuardAt(q) ELSE Hold(d)
    BY <2>1, HoldStep DEF IInv
  <2>4. /\ lock' \in Int /\ lock' \div 4 = (lock \div 4) + Units(q) - Units(p)
        /\ preempt_count' = preempt_count + Weight(q) - Weight(p)
        /\ (WriterSet' <=> WriterSet) /\ (UpgradedOnly' <=> UpgradedOnly)
    BY <1>a, <1>7, <2>2 DEF UpgradeCall, WriterSet, UpgradedOnly, UPGRADED, Bits
  <2>5. TypeOK' /\ ReaderCountExact' /\ PreemptExact'
    BY <2>1, <2>4, CountsStep
  <2>6. Words'
    BY <2>2, <2>3, <2>4 DEF IInv, MutualExclusion, WriterBitExact, UpgradedBitExact
  <2> QED
    BY <2>5, <2>6 DEF IInv
<1>8. ASSUME NEW c \in Clients, TryUpgradeInternal(c) PROVE IInv'
  <2> DEFINE p == pc[c]
             q == "writer"
  <2>1. q \in PCs /\ Goto(c, q)
    BY <1>8 DEF TryUpgradeInternal, PCs, AllOps, UndoPCs, WritePCs, UpgradeablePCs, ReadPCs
  <2>2. /\ Units(p) = 0 /\ Units(q) = 0
        /\ Weight(q) = Weight(p) /\ Weight(p) \in Int
        /\ GuardAt(p) = "upgradeable" /\ GuardAt(q) = "write"
    BY <1>8 DEF TryUpgradeInternal, Units, Weight, GuardAt, UnitPCs, TwicePCs, AllOps, UndoPCs,
                  WritePCs, UpgradeablePCs, ReadPCs
  <2>3. /\ Hold(c) = GuardAt(p)
        /\ \A d \in Clients : Hold(d)' = IF d = c THEN GuardAt(q) ELSE Hold(d)
    BY <2>1, HoldStep DEF IInv
  <2>4. /\ lock' \in Int /\ lock' \div 4 = (lock \div 4) + Units(q) - Units(p)
        /\ preempt_count' = preempt_count + Weight(q) - Weight(p)
        /\ ~WriterSet /\ UpgradedOnly /\ WriterSet' /\ ~UpgradedOnly'
    BY <1>a, <1>8, <2>2 DEF TryUpgradeInternal, WRITER, WriterSet, UpgradedOnly, UPGRADED, Bits
  <2>5. TypeOK' /\ ReaderCountExact' /\ PreemptExact'
    BY <2>1, <2>4, CountsStep
  <2>6. \A d \in Clients : Hold(d) \in {"none", "upgradeable", "write"}
    BY <1>8, NoUnitsNoReaders DEF TryUpgradeInternal, UPGRADED
  <2>7. Words'
    BY <2>2, <2>3, <2>4, <2>6 DEF IInv, MutualExclusion, WriterBitExact, UpgradedBitExact
  <2> QED
    BY <2>5, <2>7 DEF IInv
<1>9. ASSUME NEW c \in Clients, DowngradeReserve(c) PROVE IInv'
  <2> DEFINE p == pc[c]
             q == IF p = "upgradeable" THEN "u_reserved" ELSE "w_reserved"
  <2>1. q \in PCs /\ Goto(c, q)
    BY <1>9 DEF DowngradeReserve, PCs, AllOps, UndoPCs, WritePCs, UpgradeablePCs, ReadPCs
  <2>2. /\ Units(p) = 0 /\ Units(q) = 1
        /\ Weight(q) = Weight(p) /\ Weight(p) \in Int
        /\ GuardAt(q) = GuardAt(p)
    BY <1>9 DEF DowngradeReserve, Units, Weight, GuardAt, UnitPCs, TwicePCs, AllOps, UndoPCs,
                  WritePCs, UpgradeablePCs, ReadPCs
  <2>3. /\ Hold(c) = GuardAt(p)
        /\ \A d \in Clients : Hold(d)' = IF d = c THEN GuardAt(q) ELSE Hold(d)
    BY <2>1, HoldStep DEF IInv
  <2>4. /\ lock' \in Int /\ lock' \div 4 = (lock \div 4) + Units(q) - Units(p)
        /\ preempt_count' = preempt_count + Weight(q) - Weight(p)
        /\ (WriterSet' <=> WriterSet) /\ (UpgradedOnly' <=> UpgradedOnly)
    BY <1>a, <1>9, <2>2 DEF DowngradeReserve, READER, WriterSet, UpgradedOnly, UPGRADED, Bits
  <2>5. TypeOK' /\ ReaderCountExact' /\ PreemptExact'
    BY <2>1, <2>4, CountsStep
  <2>6. Words'
    BY <2>2, <2>3, <2>4 DEF IInv, MutualExclusion, WriterBitExact, UpgradedBitExact
  <2> QED
    BY <2>5, <2>6 DEF IInv
<1>10. ASSUME NEW c \in Clients, DowngradePreemptInc(c) PROVE IInv'
  <2> DEFINE p == pc[c]
             q == IF p = "u_reserved" THEN "u_old" ELSE "w_old"
  <2>1. q \in PCs /\ Goto(c, q)
    BY <1>10 DEF DowngradePreemptInc, PCs, AllOps, UndoPCs, WritePCs, UpgradeablePCs, ReadPCs
  <2>2. /\ Units(p) = 1 /\ Units(q) = 1
        /\ Weight(p) = 1 /\ Weight(q) = 2
        /\ GuardAt(q) = GuardAt(p)
    BY <1>10 DEF DowngradePreemptInc, Units, Weight, GuardAt, UnitPCs, TwicePCs, AllOps, UndoPCs,
                  WritePCs, UpgradeablePCs, ReadPCs
  <2>3. /\ Hold(c) = GuardAt(p)
        /\ \A d \in Clients : Hold(d)' = IF d = c THEN GuardAt(q) ELSE Hold(d)
    BY <2>1, HoldStep DEF IInv
  <2>4. /\ lock' \in Int /\ lock' \div 4 = (lock \div 4) + Units(q) - Units(p)
        /\ preempt_count' = preempt_count + Weight(q) - Weight(p)
        /\ (WriterSet' <=> WriterSet) /\ (UpgradedOnly' <=> UpgradedOnly)
    BY <1>a, <1>10, <2>2 DEF DowngradePreemptInc, WriterSet, UpgradedOnly, UPGRADED, Bits
  <2>5. TypeOK' /\ ReaderCountExact' /\ PreemptExact'
    BY <2>1, <2>4, CountsStep
  <2>6. Words'
    BY <2>2, <2>3, <2>4 DEF IInv, MutualExclusion, WriterBitExact, UpgradedBitExact
  <2> QED
    BY <2>5, <2>6 DEF IInv
<1>11. ASSUME NEW c \in Clients, DropRead(c) PROVE IInv'
  <2> DEFINE p == pc[c]
             q == "unpreempt"
  <2>1. q \in PCs /\ Goto(c, q)
    BY <1>11 DEF DropRead, PCs, AllOps, UndoPCs, WritePCs, UpgradeablePCs, ReadPCs
  <2>2. /\ Units(p) = 1 /\ Units(q) = 0
        /\ Weight(q) = Weight(p) /\ Weight(p) \in Int
        /\ GuardAt(p) = "read" /\ GuardAt(q) = "none"
    BY <1>11 DEF DropRead, Units, Weight, GuardAt, UnitPCs, TwicePCs, AllOps, UndoPCs,
                  WritePCs, UpgradeablePCs, ReadPCs
  <2>3. /\ Hold(c) = GuardAt(p)
        /\ \A d \in Clients : Hold(d)' = IF d = c THEN GuardAt(q) ELSE Hold(d)
    BY <2>1, HoldStep DEF IInv
  <2>4. /\ lock' \in Int /\ lock' \div 4 = (lock \div 4) + Units(q) - Units(p)
        /\ preempt_count' = preempt_count + Weight(q) - Weight(p)
        /\ (WriterSet' <=> WriterSet) /\ (UpgradedOnly' <=> UpgradedOnly)
    BY <1>a, <1>11, <2>2 DEF DropRead, READER, WriterSet, UpgradedOnly, UPGRADED, Bits
  <2>5. TypeOK' /\ ReaderCountExact' /\ PreemptExact'
    BY <2>1, <2>4, CountsStep
  <2>6. Words'
    BY <2>2, <2>3, <2>4 DEF IInv, MutualExclusion, WriterBitExact, UpgradedBitExact
  <2> QED
    BY <2>5, <2>6 DEF IInv
<1>12. ASSUME NEW c \in Clients, DropUpgradeable(c) PROVE IInv'
  <2> DEFINE p == pc[c]
             q == IF p = "u_old" THEN "downgraded" ELSE "unpreempt"
  <2>1. q \in PCs /\ Goto(c, q)
    BY <1>12 DEF DropUpgradeable, PCs, AllOps, UndoPCs, WritePCs, UpgradeablePCs, ReadPCs
  <2>2. /\ Units(q) = Units(p) /\ Units(p) \in Int
        /\ Weight(q) = Weight(p) /\ Weight(p) \in Int
        /\ GuardAt(p) = "upgradeable" /\ GuardAt(q) \in {"none", "read"}
    BY <1>12 DEF DropUpgradeable, Units, Weight, GuardAt, UnitPCs, TwicePCs, AllOps, UndoPCs,
                  WritePCs, UpgradeablePCs, ReadPCs
  <2>3. /\ Hold(c) = GuardAt(p)
        /\ \A d \in Clients : Hold(d)' = IF d = c THEN GuardAt(q) ELSE Hold(d)
    BY <2>1, HoldStep DEF IInv
  <2>4. UpgradedOnly
    BY <2>2, <2>3 DEF IInv, UpgradedBitExact
  <2>5. /\ lock' \in Int /\ lock' \div 4 = (lock \div 4) + Units(q) - Units(p)
        /\ preempt_count' = preempt_count + Weight(q) - Weight(p)
        /\ ~WriterSet /\ ~WriterSet' /\ ~UpgradedOnly'
    BY <1>a, <1>12, <2>2, <2>4 DEF DropUpgradeable, WriterSet, UpgradedOnly, UPGRADED, Bits
  <2>6. TypeOK' /\ ReaderCountExact' /\ PreemptExact'
    BY <2>1, <2>5, CountsStep
  <2>7. Words'
    BY <2>2, <2>3, <2>5 DEF IInv, MutualExclusion, WriterBitExact, UpgradedBitExact
  <2> QED
    BY <2>6, <2>7 DEF IInv
<1>13. ASSUME NEW c \in Clients, DropWrite(c) PROVE IInv'
  <2> DEFINE p == pc[c]
             q == IF p = "w_old" THEN "downgraded" ELSE "unpreempt"
  <2>1. q \in PCs /\ Goto(c, q)
    BY <1>13 DEF DropWrite, PCs, AllOps, UndoPCs, WritePCs, UpgradeablePCs, ReadPCs
  <2>2. /\ Units(q) = Units(p) /\ Units(p) \in Int
        /\ Weight(q) = Weight(p) /\ Weight(p) \in Int
        /\ GuardAt(p) = "write" /\ GuardAt(q) \in {"none", "read"}
    BY <1>13 DEF DropWrite, Units, Weight, GuardAt, UnitPCs, TwicePCs, AllOps, UndoPCs,
                  WritePCs, UpgradeablePCs, ReadPCs
  <2>3. /\ Hold(c) = GuardAt(p)
        /\ \A d \in Clients : Hold(d)' = IF d = c THEN GuardAt(q) ELSE Hold(d)
    BY <2>1, HoldStep DEF IInv
  <2>4. WriterSet
    BY <2>2, <2>3 DEF IInv, WriterBitExact
  <2>5. /\ lock' \in Int /\ lock' \div 4 = (lock \div 4) + Units(q) - Units(p)
        /\ preempt_count' = preempt_count + Weight(q) - Weight(p)
        /\ ~UpgradedOnly /\ ~WriterSet' /\ ~UpgradedOnly'
    BY <1>a, <1>13, <2>2, <2>4 DEF DropWrite, ClearBits, WriterSet, UpgradedOnly, UPGRADED, Bits
  <2>6. TypeOK' /\ ReaderCountExact' /\ PreemptExact'
    BY <2>1, <2>5, CountsStep
  <2>7. Words'
    BY <2>2, <2>3, <2>5 DEF IInv, MutualExclusion, WriterBitExact, UpgradedBitExact
  <2> QED
    BY <2>6, <2>7 DEF IInv
<1>14. ASSUME NEW c \in Clients, PreemptDec(c) PROVE IInv'
  <2> DEFINE p == pc[c]
             q == IF p = "downgraded" THEN "reader" ELSE "idle"
  <2>1. q \in PCs /\ Goto(c, q)
    BY <1>14 DEF PreemptDec, PCs, AllOps, UndoPCs, WritePCs, UpgradeablePCs, ReadPCs
  <2>2. /\ Units(q) = Units(p) /\ Units(p) \in Int
        /\ Weight(q) = Weight(p) - 1 /\ Weight(p) \in Int
        /\ GuardAt(q) = GuardAt(p)
    BY <1>14 DEF PreemptDec, Units, Weight, GuardAt, UnitPCs, TwicePCs, AllOps, UndoPCs,
                  WritePCs, UpgradeablePCs, ReadPCs
  <2>3. /\ Hold(c) = GuardAt(p)
        /\ \A d \in Clients : Hold(d)' = IF d = c THEN GuardAt(q) ELSE Hold(d)
    BY <2>1, HoldStep DEF IInv
  <2>4. /\ lock' \in Int /\ lock' \div 4 = (lock \div 4) + Units(q) - Units(p)
        /\ preempt_count' = preempt_count + Weight(q) - Weight(p)
        /\ (WriterSet' <=> WriterSet) /\ (UpgradedOnly' <=> UpgradedOnly)
    BY <1>a, <1>14, <2>2 DEF PreemptDec, WriterSet, UpgradedOnly, UPGRADED, Bits
  <2>5. TypeOK' /\ ReaderCountExact' /\ PreemptExact'
    BY <2>1, <2>4, CountsStep
  <2>6. Words'
    BY <2>2, <2>3, <2>4 DEF IInv, MutualExclusion, WriterBitExact, UpgradedBitExact
  <2> QED
    BY <2>5, <2>6 DEF IInv
<1>15. CASE UNCHANGED vars
  BY <1>15 DEF vars, IInv, TypeOK, MutualExclusion, ReaderCountExact, WriterBitExact,
               UpgradedBitExact, PreemptExact, WriterSet, UpgradedOnly, Hold, At
<1> QED
  BY <1>1, <1>2, <1>3, <1>4, <1>5, <1>6, <1>7, <1>8, <1>9, <1>10, <1>11, <1>12, <1>13, <1>14, <1>15 DEF Next
-----------------------------------------------------------------------------
(* Spec => []IInv.                                                         *)
THEOREM Invariance == Spec => []IInv
<1>1. Init => IInv
  BY InitIInv
<1>2. IInv /\ [Next]_vars => IInv'
  BY StepIInv
<1>3. QED
  BY <1>1, <1>2, PTL DEF Spec

(* The lock word and preempt_count never go below 0: no fetch_sub of an    *)
(* undo or a destructor, and no preempt_dec, ever wraps around.            *)
THEOREM TypeCorrect == Spec => []TypeOK
<1>1. IInv => TypeOK
  BY DEF IInv
<1>2. QED
  BY <1>1, Invariance, PTL

(* A write guard excludes every other guard and upgradeable guards exclude *)
(* each other, for every number of clients.                                *)
THEOREM Exclusion == Spec => []MutualExclusion
<1>1. IInv => MutualExclusion
  BY DEF IInv
<1>2. QED
  BY <1>1, Invariance, PTL

(* The lock word says exactly how many readers are inside and whether a    *)
(* writer or an upgradeable reader is.                                     *)
THEOREM WordExact == Spec => []LockWordExact
<1>1. IInv => LockWordExact
  BY DEF IInv, LockWordExact
<1>2. QED
  BY <1>1, Invariance, PTL

(* Increments and decrements of the preemption count balance.              *)
THEOREM PreemptBalanced == Spec => []PreemptExact
<1>1. IInv => PreemptExact
  BY DEF IInv
<1>2. QED
  BY <1>1, Invariance, PTL

-----------------------------------------------------------------------------
(* The refinement mapping, and its change when one client moves.           *)
AbstractHold == [c \in Clients |-> Hold(c)]

LEMMA AbstractHoldStep ==
  ASSUME TypeOK, NEW c \in Clients, NEW q \in PCs, Goto(c, q)
  PROVE  /\ AbstractHold' = [AbstractHold EXCEPT ![c] = GuardAt(q)]
         /\ AbstractHold[c] = GuardAt(pc[c])
  BY HoldStep, Zenon DEF AbstractHold

(* A step of the lock is a step of the abstract lock or changes no guard.  *)
LEMMA StepRefines == IInv /\ [Next]_vars => [Abstract!Next]_AbstractHold
<1> SUFFICES ASSUME IInv, [Next]_vars PROVE [Abstract!Next]_AbstractHold
  OBVIOUS
<1>a. lock \in Nat /\ TypeOK
  BY DEF IInv, TypeOK
<1>1. ASSUME NEW c \in Clients, NEW op \in Ops, Begin(c, op) PROVE [Abstract!Next]_AbstractHold
  <2> DEFINE p == pc[c]
             q == op
  <2>1. q \in PCs /\ Goto(c, q)
    BY <1>1, OpsAssumption DEF Begin, PCs, AllOps, UndoPCs, WritePCs, UpgradeablePCs, ReadPCs
  <2>2. GuardAt(q) = GuardAt(p)
    BY <1>1, OpsAssumption DEF Begin, GuardAt, AllOps, UndoPCs, WritePCs, UpgradeablePCs, ReadPCs
  <2> QED
    BY <1>a, <2>1, <2>2, AbstractHoldStep, Zenon DEF AbstractHold
<1>2. ASSUME NEW c \in Clients, ReadFetchAdd(c) PROVE [Abstract!Next]_AbstractHold
  <2> DEFINE p == pc[c]
             q == IF Bits(lock) = 0 THEN "reader"
                  ELSE IF p = "read" THEN "read_undo" ELSE "try_read_undo"
  <2>1. q \in PCs /\ Goto(c, q)
    BY <1>2 DEF ReadFetchAdd, PCs, AllOps, UndoPCs, WritePCs, UpgradeablePCs, ReadPCs
  <2>2. GuardAt(p) = "none" /\ GuardAt(q) = IF Bits(lock) = 0 THEN "read" ELSE "none"
    BY <1>2 DEF ReadFetchAdd, GuardAt, AllOps, UndoPCs, WritePCs, UpgradeablePCs, ReadPCs
  <2>3. /\ AbstractHold' = [AbstractHold EXCEPT ![c] = GuardAt(q)]
        /\ AbstractHold[c] = GuardAt(p) /\ AbstractHold \in [Clients -> {"none", "read", "upgradeable", "write"}]
    BY <1>a, <2>1, AbstractHoldStep DEF AbstractHold, Hold, GuardAt
  <2>4. Bits(lock) = 0 => ~WriterSet /\ ~UpgradedOnly
    BY <1>a, <1>2 DEF ReadFetchAdd, WriterSet, UpgradedOnly, UPGRADED, Bits
  <2>5. CASE Bits(lock) = 0
    <3>1. \A d \in Clients \ {c} : AbstractHold[d] \in {"none", "read"}
      BY <2>3, <2>4, <2>5 DEF IInv, WriterBitExact, UpgradedBitExact, AbstractHold
    <3>2. Abstract!AcquireRead(c)
      BY <2>2, <2>3, <2>5, <3>1, Zenon DEF Abstract!AcquireRead, Abstract!OthersIn, Abstract!Become, AbstractHold
    <3> QED
      BY <3>2 DEF Abstract!Next
  <2>6. CASE Bits(lock) # 0
    BY <2>2, <2>3, <2>6
  <2> QED
    BY <2>5, <2>6
<1>3. ASSUME NEW c \in Clients, ReadUndo(c) PROVE [Abstract!Next]_AbstractHold
  <2> DEFINE p == pc[c]
             q == IF p = "read_undo" THEN "read" ELSE "unpreempt"
  <2>1. q \in PCs /\ Goto(c, q)
    BY <1>3 DEF ReadUndo, PCs, AllOps, UndoPCs, WritePCs, UpgradeablePCs, ReadPCs
  <2>2. GuardAt(q) = GuardAt(p)
    BY <1>3 DEF ReadUndo, GuardAt, AllOps, UndoPCs, WritePCs, UpgradeablePCs, ReadPCs
  <2> QED
    BY <1>a, <2>1, <2>2, AbstractHoldStep, Zenon DEF AbstractHold
<1>4. ASSUME NEW c \in Clients, TryWriteInternal(c) PROVE [Abstract!Next]_AbstractHold
  <2> DEFINE p == pc[c]
             q == "writer"
  <2>1. q \in PCs /\ Goto(c, q)
    BY <1>4 DEF TryWriteInternal, PCs, AllOps, UndoPCs, WritePCs, UpgradeablePCs, ReadPCs
  <2>2. GuardAt(p) = "none" /\ GuardAt(q) = "write"
    BY <1>4 DEF TryWriteInternal, GuardAt, AllOps, UndoPCs, WritePCs, UpgradeablePCs, ReadPCs
  <2>3. /\ AbstractHold' = [AbstractHold EXCEPT ![c] = GuardAt(q)]
        /\ AbstractHold[c] = GuardAt(p) /\ AbstractHold \in [Clients -> {"none", "read", "upgradeable", "write"}]
    BY <1>a, <2>1, AbstractHoldStep DEF AbstractHold, Hold, GuardAt
  <2>4. ~WriterSet /\ ~UpgradedOnly
    BY <1>a, <1>4 DEF TryWriteInternal, WriterSet, UpgradedOnly, UPGRADED, Bits
  <2>5. \A d \in Clients : Hold(d) \in {"none", "upgradeable", "write"}
    BY <1>4, NoUnitsNoReaders DEF TryWriteInternal, UPGRADED
  <2>6. \A d \in Clients \ {c} : AbstractHold[d] = "none"
    BY <2>2, <2>3, <2>4, <2>5 DEF IInv, MutualExclusion, WriterBitExact, UpgradedBitExact, AbstractHold
  <2>7. Abstract!AcquireWrite(c)
    BY <2>2, <2>3, <2>6, Zenon DEF Abstract!AcquireWrite, Abstract!OthersIn, Abstract!Become, AbstractHold
  <2> QED
    BY <2>7 DEF Abstract!Next
<1>5. ASSUME NEW c \in Clients, TryWriteFail(c) PROVE [Abstract!Next]_AbstractHold
  <2> DEFINE p == pc[c]
             q == "unpreempt"
  <2>1. q \in PCs /\ Goto(c, q)
    BY <1>5 DEF TryWriteFail, PCs, AllOps, UndoPCs, WritePCs, UpgradeablePCs, ReadPCs
  <2>2. GuardAt(q) = GuardAt(p)
    BY <1>5 DEF TryWriteFail, GuardAt, AllOps, UndoPCs, WritePCs, UpgradeablePCs, ReadPCs
  <2> QED
    BY <1>a, <2>1, <2>2, AbstractHoldStep, Zenon DEF AbstractHold
<1>6. ASSUME NEW c \in Clients, UpgradeableFetchOr(c) PROVE [Abstract!Next]_AbstractHold
  <2> DEFINE p == pc[c]
             q == IF Bits(lock) = 0 THEN "upgradeable"
                  ELSE IF p = "upgradeable_read" THEN "upgradeable_read" ELSE "unpreempt"
  <2>1. q \in PCs /\ Goto(c, q)
    BY <1>6 DEF UpgradeableFetchOr, PCs, AllOps, UndoPCs, WritePCs, UpgradeablePCs, ReadPCs
  <2>2. GuardAt(p) = "none" /\ GuardAt(q) = IF Bits(lock) = 0 THEN "upgradeable" ELSE "none"
    BY <1>6 DEF UpgradeableFetchOr, GuardAt, AllOps, UndoPCs, WritePCs, UpgradeablePCs, ReadPCs
  <2>3. /\ AbstractHold' = [AbstractHold EXCEPT ![c] = GuardAt(q)]
        /\ AbstractHold[c] = GuardAt(p) /\ AbstractHold \in [Clients -> {"none", "read", "upgradeable", "write"}]
    BY <1>a, <2>1, AbstractHoldStep DEF AbstractHold, Hold, GuardAt
  <2>4. Bits(lock) = 0 => ~WriterSet /\ ~UpgradedOnly
    BY <1>a, <1>6 DEF UpgradeableFetchOr, WriterSet, UpgradedOnly, UPGRADED, Bits
  <2>5. CASE Bits(lock) = 0
    <3>1. \A d \in Clients \ {c} : AbstractHold[d] \in {"none", "read"}
      BY <2>3, <2>4, <2>5 DEF IInv, WriterBitExact, UpgradedBitExact, AbstractHold
    <3>2. Abstract!AcquireUpgradeable(c)
      BY <2>2, <2>3, <2>5, <3>1, Zenon DEF Abstract!AcquireUpgradeable, Abstract!OthersIn, Abstract!Become, AbstractHold
    <3> QED
      BY <3>2 DEF Abstract!Next
  <2>6. CASE Bits(lock) # 0
    BY <2>2, <2>3, <2>6
  <2> QED
    BY <2>5, <2>6
<1>7. ASSUME NEW c \in Clients, UpgradeCall(c) PROVE [Abstract!Next]_AbstractHold
  <2> DEFINE p == pc[c]
             q == "upgrade"
  <2>1. q \in PCs /\ Goto(c, q)
    BY <1>7 DEF UpgradeCall, PCs, AllOps, UndoPCs, WritePCs, UpgradeablePCs, ReadPCs
  <2>2. GuardAt(q) = GuardAt(p)
    BY <1>7 DEF UpgradeCall, GuardAt, AllOps, UndoPCs, WritePCs, UpgradeablePCs, ReadPCs
  <2> QED
    BY <1>a, <2>1, <2>2, AbstractHoldStep, Zenon DEF AbstractHold
<1>8. ASSUME NEW c \in Clients, TryUpgradeInternal(c) PROVE [Abstract!Next]_AbstractHold
  <2> DEFINE p == pc[c]
             q == "writer"
  <2>1. q \in PCs /\ Goto(c, q)
    BY <1>8 DEF TryUpgradeInternal, PCs, AllOps, UndoPCs, WritePCs, UpgradeablePCs, ReadPCs
  <2>2. GuardAt(p) = "upgradeable" /\ GuardAt(q) = "write"
    BY <1>8 DEF TryUpgradeInternal, GuardAt, AllOps, UndoPCs, WritePCs, UpgradeablePCs, ReadPCs
  <2>3. /\ AbstractHold' = [AbstractHold EXCEPT ![c] = GuardAt(q)]
        /\ AbstractHold[c] = GuardAt(p) /\ AbstractHold \in [Clients -> {"none", "read", "upgradeable", "write"}]
    BY <1>a, <2>1, AbstractHoldStep DEF AbstractHold, Hold, GuardAt
  <2>4. ~WriterSet
    BY <1>a, <1>8 DEF TryUpgradeInternal, WriterSet, UpgradedOnly, UPGRADED, Bits
  <2>5. \A d \in Clients : Hold(d) \in {"none", "upgradeable", "write"}
    BY <1>8, NoUnitsNoReaders DEF TryUpgradeInternal, UPGRADED
  <2>6. \A d \in Clients \ {c} : AbstractHold[d] = "none"
    BY <2>2, <2>3, <2>4, <2>5 DEF IInv, MutualExclusion, WriterBitExact, UpgradedBitExact, AbstractHold
  <2>7. Abstract!Upgrade(c)
    BY <2>2, <2>3, <2>6, Zenon DEF Abstract!Upgrade, Abstract!OthersIn, Abstract!Become, AbstractHold
  <2> QED
    BY <2>7 DEF Abstract!Next
<1>9. ASSUME NEW c \in Clients, DowngradeReserve(c) PROVE [Abstract!Next]_AbstractHold
  <2> DEFINE p == pc[c]
             q == IF p = "upgradeable" THEN "u_reserved" ELSE "w_reserved"
  <2>1. q \in PCs /\ Goto(c, q)
    BY <1>9 DEF DowngradeReserve, PCs, AllOps, UndoPCs, WritePCs, UpgradeablePCs, ReadPCs
  <2>2. GuardAt(q) = GuardAt(p)
    BY <1>9 DEF DowngradeReserve, GuardAt, AllOps, UndoPCs, WritePCs, UpgradeablePCs, ReadPCs
  <2> QED
    BY <1>a, <2>1, <2>2, AbstractHoldStep, Zenon DEF AbstractHold
<1>10. ASSUME NEW c \in Clients, DowngradePreemptInc(c) PROVE [Abstract!Next]_AbstractHold
  <2> DEFINE p == pc[c]
             q == IF p = "u_reserved" THEN "u_old" ELSE "w_old"
  <2>1. q \in PCs /\ Goto(c, q)
    BY <1>10 DEF DowngradePreemptInc, PCs, AllOps, UndoPCs, WritePCs, UpgradeablePCs, ReadPCs
  <2>2. GuardAt(q) = GuardAt(p)
    BY <1>10 DEF DowngradePreemptInc, GuardAt, AllOps, UndoPCs, WritePCs, UpgradeablePCs, ReadPCs
  <2> QED
    BY <1>a, <2>1, <2>2, AbstractHoldStep, Zenon DEF AbstractHold
<1>11. ASSUME NEW c \in Clients, DropRead(c) PROVE [Abstract!Next]_AbstractHold
  <2> DEFINE p == pc[c]
             q == "unpreempt"
  <2>1. q \in PCs /\ Goto(c, q)
    BY <1>11 DEF DropRead, PCs, AllOps, UndoPCs, WritePCs, UpgradeablePCs, ReadPCs
  <2>2. GuardAt(p) = "read" /\ GuardAt(q) = "none"
    BY <1>11 DEF DropRead, GuardAt, AllOps, UndoPCs, WritePCs, UpgradeablePCs, ReadPCs
  <2>3. /\ AbstractHold' = [AbstractHold EXCEPT ![c] = GuardAt(q)]
        /\ AbstractHold[c] = GuardAt(p) /\ AbstractHold \in [Clients -> {"none", "read", "upgradeable", "write"}]
    BY <1>a, <2>1, AbstractHoldStep DEF AbstractHold, Hold, GuardAt
  <2>4. Abstract!Release(c)
    BY <2>2, <2>3, Zenon DEF Abstract!Release, Abstract!Become, AbstractHold
  <2> QED
    BY <2>4 DEF Abstract!Next
<1>12. ASSUME NEW c \in Clients, DropUpgradeable(c) PROVE [Abstract!Next]_AbstractHold
  <2> DEFINE p == pc[c]
             q == IF p = "u_old" THEN "downgraded" ELSE "unpreempt"
  <2>1. q \in PCs /\ Goto(c, q)
    BY <1>12 DEF DropUpgradeable, PCs, AllOps, UndoPCs, WritePCs, UpgradeablePCs, ReadPCs
  <2>2. GuardAt(p) = "upgradeable" /\ GuardAt(q) \in {"none", "read"}
    BY <1>12 DEF DropUpgradeable, GuardAt, AllOps, UndoPCs, WritePCs, UpgradeablePCs, ReadPCs
  <2>3. /\ AbstractHold' = [AbstractHold EXCEPT ![c] = GuardAt(q)]
        /\ AbstractHold[c] = GuardAt(p) /\ AbstractHold \in [Clients -> {"none", "read", "upgradeable", "write"}]
    BY <1>a, <2>1, AbstractHoldStep DEF AbstractHold, Hold, GuardAt
  <2>4. Abstract!Release(c) \/ Abstract!Downgrade(c)
    BY <2>2, <2>3, Zenon DEF Abstract!Release, Abstract!Downgrade, Abstract!Become, AbstractHold
  <2> QED
    BY <2>4 DEF Abstract!Next
<1>13. ASSUME NEW c \in Clients, DropWrite(c) PROVE [Abstract!Next]_AbstractHold
  <2> DEFINE p == pc[c]
             q == IF p = "w_old" THEN "downgraded" ELSE "unpreempt"
  <2>1. q \in PCs /\ Goto(c, q)
    BY <1>13 DEF DropWrite, PCs, AllOps, UndoPCs, WritePCs, UpgradeablePCs, ReadPCs
  <2>2. GuardAt(p) = "write" /\ GuardAt(q) \in {"none", "read"}
    BY <1>13 DEF DropWrite, GuardAt, AllOps, UndoPCs, WritePCs, UpgradeablePCs, ReadPCs
  <2>3. /\ AbstractHold' = [AbstractHold EXCEPT ![c] = GuardAt(q)]
        /\ AbstractHold[c] = GuardAt(p) /\ AbstractHold \in [Clients -> {"none", "read", "upgradeable", "write"}]
    BY <1>a, <2>1, AbstractHoldStep DEF AbstractHold, Hold, GuardAt
  <2>4. Abstract!Release(c) \/ Abstract!Downgrade(c)
    BY <2>2, <2>3, Zenon DEF Abstract!Release, Abstract!Downgrade, Abstract!Become, AbstractHold
  <2> QED
    BY <2>4 DEF Abstract!Next
<1>14. ASSUME NEW c \in Clients, PreemptDec(c) PROVE [Abstract!Next]_AbstractHold
  <2> DEFINE p == pc[c]
             q == IF p = "downgraded" THEN "reader" ELSE "idle"
  <2>1. q \in PCs /\ Goto(c, q)
    BY <1>14 DEF PreemptDec, PCs, AllOps, UndoPCs, WritePCs, UpgradeablePCs, ReadPCs
  <2>2. GuardAt(q) = GuardAt(p)
    BY <1>14 DEF PreemptDec, GuardAt, AllOps, UndoPCs, WritePCs, UpgradeablePCs, ReadPCs
  <2> QED
    BY <1>a, <2>1, <2>2, AbstractHoldStep, Zenon DEF AbstractHold
<1>15. CASE UNCHANGED vars
  BY <1>15 DEF vars, AbstractHold, Hold
<1> QED
  BY <1>1, <1>2, <1>3, <1>4, <1>5, <1>6, <1>7, <1>8, <1>9, <1>10, <1>11, <1>12, <1>13, <1>14, <1>15 DEF Next

(* The lock implements the abstract reader-writer lock.                    *)
THEOREM Refinement == Spec => RefinesReadWriteLock
<1>1. Init => Abstract!Init
  BY DEF Init, Abstract!Init, Hold, GuardAt, WritePCs, UpgradeablePCs, ReadPCs
<1>2. IInv /\ [Next]_vars => [Abstract!Next]_AbstractHold
  BY StepRefines
<1>3. QED
  BY <1>1, <1>2, Invariance, PTL DEF Spec, RefinesReadWriteLock, Abstract!Spec, AbstractHold
=============================================================================
