CONSTANTS
  Messages <- MCMessages
  Garbage <- MCGarbage
  InitialBufferSize = 3
  SizeMod = 1024
  TailCuts = TRUE
  MaxMessages = 2
SPECIFICATION Spec
CHECK_DEADLOCK FALSE
INVARIANTS
  SuccessMeansComplete
