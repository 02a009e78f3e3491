SPECIFICATION Spec
CONSTANTS
  ByteBits = 2
  Kilo = 2
  Mega = 3
  ZeroTime <- MCZeroTime
  Parsed <- MCParsed
  Inputs <- MCInputs
CHECK_DEADLOCK FALSE
INVARIANTS
  MismatchRefused
