SPECIFICATION Spec
CONSTANTS
  MaxOrder = 2
  BlockPages <- MCBlockPages
  PageShift = 12
  Sizes = {6}
INVARIANT AllInZone
CHECK_DEADLOCK FALSE
