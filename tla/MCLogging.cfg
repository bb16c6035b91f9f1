CONSTANTS
  Threads = {t1}
  RolloverS = 2
  SetTo <- MCSetTo
  Levels <- MCLevels
  LocalTime <- MCLocalTime
  Names <- MCNames
  OpenFails = FALSE
  CreateRaces = FALSE
  MaxLines = 2
  MaxTime = 4
  MaxTakes = 1
  MaxShort = 1
  MaxStarts = 3
SPECIFICATION Spec
CHECK_DEADLOCK FALSE
INVARIANTS
  LinesKept
  TakenFileLeft
  BackupsInOrder
  SpanBounded
