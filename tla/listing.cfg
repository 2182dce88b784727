SPECIFICATION Spec
CONSTANTS
  Programs <- MCPrograms
  Consts <- MCConsts
  Labels <- MCLabels
  Resolved = 6
  MaxKept = 6
INVARIANTS LinesRight ExpressionsRight RoundTrip ListedRight
PROPERTIES TurnsConsume
CHECK_DEADLOCK FALSE
