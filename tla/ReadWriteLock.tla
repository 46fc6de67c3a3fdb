---------------------------- MODULE ReadWriteLock ----------------------------
(***************************************************************************)
(* What an upgradeable reader-writer lock promises, with no word, no bits  *)
(* and no spinning: every client holds at most one guard, a write guard is *)
(* alone, and at most one upgradeable guard exists at a time.  RwSpinLock  *)
(* implements this specification.                                          *)
(***************************************************************************)
CONSTANT Clients        \* the contexts that use the lock

VARIABLE hold           \* the guard each client holds

Guards == {"none", "read", "upgradeable", "write"}

TypeOK == hold \in [Clients -> Guards]

Init == hold = [c \in Clients |-> "none"]

(* The guards that the clients other than c hold are all among gs.         *)
OthersIn(c, gs) == \A d \in Clients \ {c} : hold[d] \in gs

Become(c, g) == hold' = [hold EXCEPT ![c] = g]

AcquireRead(c) ==
  /\ hold[c] = "none"
  /\ OthersIn(c, {"none", "read"})
  /\ Become(c, "read")

AcquireUpgradeable(c) ==
  /\ hold[c] = "none"
  /\ OthersIn(c, {"none", "read"})
  /\ Become(c, "upgradeable")

AcquireWrite(c) ==
  /\ hold[c] = "none"
  /\ OthersIn(c, {"none"})
  /\ Become(c, "write")

Upgrade(c) ==
  /\ hold[c] = "upgradeable"
  /\ OthersIn(c, {"none"})
  /\ Become(c, "write")

Downgrade(c) ==
  /\ hold[c] \in {"upgradeable", "write"}
  /\ Become(c, "read")

Release(c) ==
  /\ hold[c] # "none"
  /\ Become(c, "none")

Next ==
  \E c \in Clients :
    \/ AcquireRead(c)
    \/ AcquireUpgradeable(c)
    \/ AcquireWrite(c)
    \/ Upgrade(c)
    \/ Downgrade(c)
    \/ Release(c)

Spec == Init /\ [][Next]_hold
=============================================================================
