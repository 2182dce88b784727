SPECIFICATION FairSpec
CONSTANTS
  a = a
  b = b
  Names = {a, b}
  NoName = NoName
  NoEntry = NoEntry
  Files <- AllFiles
  Together <- SeveralFiles
  MaxFiles = 2
  W = 2
  HALF = 16
  BASE <- MCBase
INVARIANTS AssemblerInv ImageRight SegmentsRight ScopesRight
PROPERTIES FileFinishes
CHECK_DEADLOCK FALSE
