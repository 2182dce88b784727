SPECIFICATION Spec
CONSTANTS
  Programs <- HangPrograms
  Consts <- MCConsts
  Labels <- MCLabels
  Resolved = 6
  MaxKept = 6
PROPERTY
  TurnsConsume
CHECK_DEADLOCK FALSE
