\* Three threads: one before and one after the one that differs.  Four pages of two bytes and three
\* protected ranges, so that a range can fall into what two others left.
CONSTANTS
  RegisterOthers = 1
  Threads = 3
  BarMoves = 2
  FlashPageSize = 2
  FlashMaxPage = 3
  FlashRanges = 3
  WalkEntries = 3
  WalkExtra = 2
  WalkFill = 3
SPECIFICATION Spec
INVARIANTS RegistersExact DetectionSound ConfigIsReference ChecksSound AreasExact
  PassedIffProtected MessageIsTrue VerdictIsReference PassedAfterAllThreads StatusMatchesVerdict
  BarsExact AccessesFresh VariablesRestored ModifyVerdictSound WalksExact  CommandsPrepared
CHECK_DEADLOCK FALSE
