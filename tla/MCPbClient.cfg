CONSTANTS
  MaxCalls = 3
  Overlap = "none"
  SocketTakes = {"all", "cutHeader"}
SPECIFICATION FairSpec
CHECK_DEADLOCK FALSE
INVARIANTS
  ContextAlive
  IdleIsQuiet
PROPERTIES
  ImplementsChannel
  EveryCallAnswered
