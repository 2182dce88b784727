SPECIFICATION Spec
CONSTANTS
  Bits = 16
  NaN = NaN
  MemSize = 24
  Cases <- MCCases
INVARIANTS ExpansionRight
PROPERTIES StatementEnds
