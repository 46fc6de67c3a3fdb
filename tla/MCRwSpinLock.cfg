CONSTANTS
  Clients = {c1, c2, c3}
  Ops <- AllOps
  MaxCalls = 2
SPECIFICATION LiveSpec
INVARIANTS TypeOK MutualExclusion LockWordExact PreemptExact
PROPERTIES RefinesReadWriteLock EveryCallReturns
CHECK_DEADLOCK FALSE
