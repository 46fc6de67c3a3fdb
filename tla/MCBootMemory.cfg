SPECIFICATION FairSpec
CONSTANTS
  PAGE_SIZE = 16
  MAX_ORDER_PAGES = 4
  PageInfoSize = 1
  Word = 65536
  Builds = {"debug", "release"}
  InfosPerPage = 4
  MaxTables = 3
  TinyPages = 3
  Sizes = {2, 6, 13}
  Types = {"Usable", "InUse"}
  Holes = {0, 2}
  MemoryMaps <- MCMemoryMaps
INVARIANTS TypeOK NoFrameTwice OnlyUsableMemory NumPagesExact InfosReady BlocksInReserved
PROPERTIES InitPanicsOnlyOnTiny BootEnds
CHECK_DEADLOCK FALSE
