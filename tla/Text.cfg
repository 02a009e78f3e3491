CONSTANTS
  ByteBits = 1
  Cases <- MCCases
  Texts <- MCTexts
  TagOf <- MCTagOf
  FullName <- MCFullName
  Table14 <- Generated14
  Table20 <- Generated20
  R <- MCR
  tagAttributeName = 1
  tagAttributeValue = 2
  maxJSONInt = 16
  Micro = 3
  Second = 12
  FirstYear <- MCFirstYear
  LastYear = 80
  ZeroTime <- MCZeroTime
  Inputs <- MCInputs
  LineLimit = 63
  MaxRuns = 2
SPECIFICATION MCSpec
CHECK_DEADLOCK FALSE
INVARIANTS
  AllDefinitionsKnown
  PanicsForUnknownTag
  FormatsAreParsed
  AttributeNamesFound
  HexIsExact
  ReadBackSame
  RefusedExactlyFor
  HexIsInput
  HexMeansItsBytes
PROPERTIES
  KeepsNames
