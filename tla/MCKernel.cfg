SPECIFICATION FairSpec
CONSTANTS
  Threads = {t1, t2}
  Main = t1
  NumZones = 2
  ZoneBlocks <- MCZoneBlocks
  MaxTables = 1
  MaxCalls = 2
  MaxFaults = 1
INVARIANTS TypeOK BlocksGivenOnce AllocPanicsOnlyIfExhausted NoCircularWait
PROPERTIES EveryCallEnds PanicsAreReported
CHECK_DEADLOCK FALSE
