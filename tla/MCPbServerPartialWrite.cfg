CONSTANTS
  Socks = {s1}
  Addrs = {a1}
  Fds = {1, 2}
  NoSock = NoSock
  NoConn = NoConn
  Acceptor = Acceptor
  SubReactors = FALSE
  AsyncService = FALSE
  Pipelining = FALSE
  FullBuffers = FALSE
  PartialWrites = TRUE
  SameMs = FALSE
  ReadTimeout = 1
  WriteTimeout = 1
  Kinds = {"keep"}
  MaxChunks = 2
  MaxTime = 3
SYMMETRY Symmetry
SPECIFICATION Spec
CHECK_DEADLOCK FALSE
INVARIANTS
  CompleteMeansWritten
