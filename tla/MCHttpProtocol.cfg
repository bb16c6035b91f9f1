CONSTANTS
  Messages <- MCMessages
  MaxLineSize = 40
  MaxMessages = 2
SPECIFICATION Spec
CHECK_DEADLOCK FALSE
INVARIANTS
  SuccessMeansComplete
  VerdictRight
  NoStall
