CONSTANTS
  ThreadNums <- MCThreadNums
  MaxThreadNum = 3
  InterruptLocked = FALSE
  MaxConns = 4
  MaxSignals = 2
SPECIFICATION FairSpec
INVARIANTS
  LoopsThere
  Balanced
PROPERTIES
  EndsAfterSignal
