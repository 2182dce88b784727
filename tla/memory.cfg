SPECIFICATION Spec
CONSTANTS
  TEXT_BOT = 4
  TextWords = 1
  DATA_BOT = 8
  DataSize = 4
  DataLimit = 12
  STACK_TOP = 96
  StackSize = 4
  StackLimit = 68
  K_DATA_BOT = 96
  KDataSize = 8
  KDataLimit = 24
  MM_IO_BOT = 120
  MM_IO_TOP = 123
  Reach = 30
  Chunk = 8
  IntMax = 127
  Null = Null
  Garbage = {0, 9}
  Addrs <- MCAddrs
  Words <- MCWords
  Amounts <- MCAmounts
  ArgVectors <- MCArgVectors
  MaxOps = 3
INVARIANTS ArgumentsReadable
PROPERTIES ImplementsFlat GrowthUsable
