CONSTANTS
  c1 = c1
  c2 = c2
  o1 = o1
  o2 = o2
  get = get
  put = put
  v1 = v1
  v2 = v2
  None = None
  Partial = Partial
  Conns <- OneConn
  Objs <- TwoObjs
  Ops <- TwoOps
  Values <- TwoValues
  Requests <- AllRequests
  LogTraffic = FALSE
  MaxTurns = 3
SPECIFICATION FairSpec
CHECK_DEADLOCK FALSE
INVARIANTS
  IInv
PROPERTIES
  RequestsEnd
