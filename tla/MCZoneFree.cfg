SPECIFICATION Spec
CONSTANTS
  MaxOrder = 2
  BlockPages <- MCBlockPages
  PageShift = 12
  Sizes = {4}
INVARIANT FreeOrderInRange
CHECK_DEADLOCK FALSE
