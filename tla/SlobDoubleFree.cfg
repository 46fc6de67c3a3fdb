SPECIFICATION Spec
CONSTANTS
  PageUnits = 6
  MaxPages = 1
  Zones = {{0}}
  MAX_ORDER_PAGES = 1
  Requests = {1, 3}
  MaxLive = 4
INVARIANT NoDoubleFree
CHECK_DEADLOCK FALSE
