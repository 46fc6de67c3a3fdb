CONSTANTS
  Clients = {c1, c2, c3, c4}
  Ops = {"lock", "try_lock"}
  MaxCalls = 2
SPECIFICATION LiveSpec
INVARIANTS LockedExact PreemptExact
PROPERTIES RefinesReadWriteLock EveryCallReturns
CHECK_DEADLOCK FALSE
