SPECIFICATION Spec
CONSTANTS
  Bits = 8
  NaN = NaN
  MemSize = 8
  Programs <- MCPrograms
  Starts <- MCStarts
  Levels = {0, 1, 2, 4}
  Answers <- MCAnswers
  Handler = 8
  MaxSteps = 5
  MAX_SUGGESTIONS = 16
INVARIANTS NarrationHarmless TellsRight PseudoTold
