SPECIFICATION Spec
CONSTANTS
  Size = 5
  Boot <- MCBoot
  Handler = 2
  Entry = 1
  Starts = {1}
  NoInst = NoInst
  BREAK = BREAK
  DataAddr = 6
  RunSteps = 3
  Lines <- FullLines
  ArgLists <- PassArgs
  File <- MCFile
  Startup <- MCStartup
  HandlerText = {2}
  AsmLines <- MCAsmLines
  Depth = 1
  MaxAddr = 3
  MaxSlips = 1
INVARIANTS BreakpointsIntact StepsExact PromptRestored StatusTells
PROPERTIES StopsAtBreakpoint Transparent CommandEnds
