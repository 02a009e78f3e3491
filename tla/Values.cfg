SPECIFICATION MCSpec
CONSTANTS
  ByteBits = 2
  Kilo = 2
  Mega = 3
  ZeroTime <- MCZeroTime
  Parsed <- MCParsed
  Inputs <- MCInputs
  Decl <- MCDecl
  TagNames <- MCTagNames
  TagEnums <- MCTagEnums
  Cases <- MCCases
  Stranger = "Stranger"
CHECK_DEADLOCK FALSE
INVARIANTS
  RoundTrip
  NumbersNotChanged
  ValidLengths
  
  OrderUnseen
  ExtraValues
  RepeatStaysInField
  ErrorsLeavePrefix
