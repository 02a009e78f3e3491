CONSTANTS
  s1 = s1
  s2 = s2
  k1 = k1
  k2 = k2
  c1 = c1
  c2 = c2
  NoOne = NoOne
  NoConn = NoConn
  Calls <- TwoCalls
  Closers <- TwoClosers
  Conns <- OneConn
  InitialDelay = 5
  MaxDelay = 5
SPECIFICATION FairSpec
INVARIANTS
  IInv
PROPERTIES
  ServeReturnsAfterShutdown
  CloseReturns
  AcceptedIsServed
  KeepsPromise
CHECK_DEADLOCK FALSE
