---------------------------- MODULE MCRwSpinLock ----------------------------
(***************************************************************************)
(* RwSpinLock with at most MaxCalls acquiring calls per client, so that a  *)
(* call that never returns can only be one that spins for ever, and with   *)
(* clients that keep running.                                              *)
(***************************************************************************)
EXTENDS RwSpinLock

CONSTANT MaxCalls   \* bound on the acquiring calls of a client

VARIABLE calls      \* the acquiring calls each client has made

liveVars == <<vars, calls>>

LiveInit ==
  /\ Init
  /\ calls = [c \in Clients |-> 0]

Call(c) ==
  /\ calls[c] < MaxCalls
  /\ \E op \in Ops : Begin(c, op)
  /\ calls' = [calls EXCEPT ![c] = @ + 1]

(* The steps a client that is running takes by itself: it goes on with the *)
(* operation it is in, and drops the guard it holds after a finite time.   *)
Run(c) ==
  /\ \/ ReadFetchAdd(c)
     \/ ReadUndo(c)
     \/ TryWriteInternal(c)
     \/ TryWriteFail(c)
     \/ UpgradeableFetchOr(c)
     \/ pc[c] = "upgrade" /\ TryUpgradeInternal(c)
     \/ DowngradePreemptInc(c)
     \/ DropRead(c)
     \/ DropUpgradeable(c)
     \/ DropWrite(c)
     \/ PreemptDec(c)
  /\ UNCHANGED calls

(* What the owner of a guard may do with it, and need not.                 *)
Choose(c) ==
  /\ \/ UpgradeCall(c)
     \/ pc[c] = "upgradeable" /\ TryUpgradeInternal(c)
     \/ DowngradeReserve(c)
  /\ UNCHANGED calls

LiveNext == \E c \in Clients : Call(c) \/ Run(c) \/ Choose(c)

(* Every client keeps running; no client is promised to win a race.        *)
LiveSpec == LiveInit /\ [][LiveNext]_liveVars /\ \A c \in Clients : WF_liveVars(Run(c))

(* Clients in read() add and take back READER for ever while another one   *)
(* waits in upgrade() for the word to be exactly UPGRADED.                 *)
ReadersStarveUpgrade ==
  /\ []<>(\E c \in Clients : pc[c] = "upgrade")
  /\ []<>(\E c \in Clients : pc[c] = "read_undo")

(* Every call of read, write, upgradeable_read, upgrade and try_* returns, *)
(* and its guard is dropped, whatever the interleaving: the bits that shut *)
(* the others out are always cleared in the end.  The one exception is an  *)
(* upgrade() that spinning readers never let through.                      *)
EveryCallReturns ==
  \/ ReadersStarveUpgrade
  \/ \A c \in Clients : pc[c] # "idle" ~> pc[c] = "idle"
=============================================================================
