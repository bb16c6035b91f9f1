CONSTANTS
  Socks = {s1, s2}
  Addrs = {a1, a2}
  Fds = {1, 2}
  NoSock = NoSock
  NoConn = NoConn
  Acceptor = Acceptor
  SubReactors = FALSE
  AsyncService = FALSE
  Pipelining = FALSE
  FullBuffers = TRUE
  PartialWrites = FALSE
  SameMs = FALSE
  ReadTimeout = 1
  WriteTimeout = 1
  Kinds = {"part", "keep"}
  MaxChunks = 2
  MaxTime = 3
SYMMETRY Symmetry
SPECIFICATION Spec
CHECK_DEADLOCK FALSE
INVARIANTS
  TypeOK
  NoFault
  FdOwned
  ChannelsExact
  AtMostOnce
  RepliesMatch
  CompleteMeansWritten
  RequestsNotDropped
PROPERTIES
  TimeoutNotEarly
  TimeoutKind
