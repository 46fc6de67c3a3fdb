SPECIFICATION Spec
CONSTANTS
  MaxOrder = 3
  BlockPages <- MCBlockPages
  PageShift = 12
  Sizes = {2, 3, 5, 6, 7, 8, 9, 11, 12}
INVARIANTS TypeOK Disjoint NeverUnreachable
PROPERTY RefinesBlockSource
CHECK_DEADLOCK FALSE
