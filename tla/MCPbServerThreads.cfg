CONSTANTS
  Socks = {s1, s2}
  Addrs = {a1, a2}
  Fds = {1, 2}
  NoSock = NoSock
  NoConn = NoConn
  Acceptor = Acceptor
  SubReactors = TRUE
  AsyncService = TRUE
  Pipelining = FALSE
  FullBuffers = FALSE
  PartialWrites = FALSE
  SameMs = FALSE
  ReadTimeout = 0
  WriteTimeout = 1
  Kinds = {"keep"}
  MaxChunks = 2
  MaxTime = 3
SYMMETRY Symmetry
SPECIFICATION Spec
CHECK_DEADLOCK FALSE
INVARIANTS
  RepliesMatch
PROPERTIES
  TimeoutNotEarly
