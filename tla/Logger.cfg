SPECIFICATION Spec
CONSTANTS
  Bytes = {"ESC", "[", "0", "1", "3", "4", "=", ";", "m", "a"}
  MaxLevel = 5
  MaxSeen = 8
INVARIANTS TypeOK MessagePlain
PROPERTY AppliesWholeSequences
