CONSTANTS
  HeaderLen = 2
  BufSize = 4
  Lens = {2, 3, 7}
  MaxFrames = 3
SPECIFICATION FairSpec
INVARIANTS
  IInv
PROPERTIES
  DeliversMessages
  WrittenIsServed
  EndsWithClient
CHECK_DEADLOCK FALSE
