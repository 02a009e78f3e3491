CONSTANTS
  c1 = c1
  c2 = c2
  o1 = o1
  o2 = o2
  get = get
  put = put
  v1 = v1
  v2 = v2
  None = None
  Partial = Partial
  Conns <- TwoConns
  Objs <- TwoObjs
  Ops <- TwoOps
  Values <- TwoValues
  Requests <- FewRequests
  LogTraffic = TRUE
  MaxTurns = 2
SPECIFICATION Spec
CHECK_DEADLOCK FALSE
SYMMETRY Symmetry
INVARIANTS
  PoolExclusive
PROPERTIES
  Isolation
  KeepsPromise
