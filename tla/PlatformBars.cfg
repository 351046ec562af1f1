CONSTANTS
  RegisterOthers = 0
  Threads = 1
  BarMoves = 0
  FlashPageSize = 2
  FlashMaxPage = 0
  FlashRanges = 0
  WalkEntries = 3
  WalkExtra = 2
  WalkFill = 3
SPECIFICATION Spec
INVARIANT BarsRestored
CHECK_DEADLOCK FALSE
