CONSTANTS
  Socks = {s1}
  Addrs = {a1}
  Fds = {1, 2}
  NoSock = NoSock
  NoConn = NoConn
  Acceptor = Acceptor
  SubReactors = FALSE
  AsyncService = FALSE
  Pipelining = FALSE
  FullBuffers = TRUE
  PartialWrites = FALSE
  SameMs = FALSE
  ReadTimeout = 1
  WriteTimeout = 1
  Kinds = {"part", "short", "keep", "bad", "nosvc"}
  MaxChunks = 2
  MaxTime = 6
SPECIFICATION FairSpec
CHECK_DEADLOCK FALSE
PROPERTIES
  EveryWaitEnds
  EveryRequestServed
