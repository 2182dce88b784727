SPECIFICATION Spec
CONSTANTS
  Bits = 8
  NaN = NaN
  MemSize = 8
  Insts <- MCInsts
  Starts <- MCInit
  MaxSteps = 3
  delayed_loads = TRUE
INVARIANTS ResultsRight FaultsChangeNothing DelaysHidden
