SPECIFICATION Spec
CONSTANTS
  PageUnits = 6
  MaxPages = 5
  Zones = {{1, 2, 3}}
  MAX_ORDER_PAGES = 2
  Requests = {1, 4, 6, 11}
  MaxLive = 4
CONSTRAINT UpToRelinking
INVARIANTS TypeOK FreeListSorted Tiled HeaderIntact SecondSearchMissesOnlyOneHeader
CHECK_DEADLOCK FALSE
