----------------------------- MODULE MCSpinLock -----------------------------
(***************************************************************************)
(* SpinLock with a bound on the calls of a client, so that a call that     *)
(* never returns can only be one that spins for ever, and with clients     *)
(* that keep running.                                                      *)
(***************************************************************************)
EXTENDS SpinLock

CONSTANT MaxCalls   \* bound on the acquiring calls of a client

VARIABLE calls      \* the acquiring calls each client has made

liveVars == <<vars, calls>>

LiveInit == Init /\ calls = [c \in Clients |-> 0]

Call(c) ==
  /\ calls[c] < MaxCalls
  /\ \E op \in Ops : Begin(c, op)
  /\ calls' = [calls EXCEPT ![c] = @ + 1]

Run(c) ==
  /\ Lock(c) \/ SpinLoad(c) \/ TryLock(c) \/ Drop(c) \/ PreemptDec(c)
  /\ UNCHANGED calls

LiveNext == \E c \in Clients : Call(c) \/ Run(c)

(* Every client keeps running; none is promised to win a race.             *)
LiveSpec == LiveInit /\ [][LiveNext]_liveVars /\ \A c \in Clients : WF_liveVars(Run(c))

(* Every call of lock returns and its guard is dropped, whatever the       *)
(* interleaving, unless somebody calls try_lock: a client that loses the   *)
(* exchange after a relaxed load that saw the flag clear goes round again  *)
(* and is not lost.                                                        *)
EveryCallReturns == \A c \in Clients : pc[c] # "idle" ~> pc[c] = "idle" \/ tried
=============================================================================
