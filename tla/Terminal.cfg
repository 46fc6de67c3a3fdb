SPECIFICATION Spec
CONSTANTS
  Width = 3
  Height = 2
  Bytes = {"ESC", "[", "a", "LF", "TAB", "CR"}
  MaxScroll = 1
  Byte = 4
INVARIANTS TypeOK TabOutsideSequence CursorShown
PROPERTY RefinesPaper
