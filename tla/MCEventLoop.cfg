SPECIFICATION FairSpec
CONSTANTS
  Threads = {t1}
  Loop = loop
  Funcs = {f1, f2}
  Timers = {x1}
  Delays = {0, 9}
  DefaultEpollTimeout = 9
  MaxTime = 2
  MaxEintr = 1
INVARIANTS TypeOK WakeupPending
PROPERTIES ImplementsExecutor EveryFuncRuns EveryTimerFires StopEndsLoop
CHECK_DEADLOCK FALSE
