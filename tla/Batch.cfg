CONSTANTS
  Conns = {c1, c2}
  Addrs = {a1, a2}
  Batches <- MCBatches
  ObjectTypes <- MCObjectTypes
  Supported <- MCSupported
  Tags <- MCTags
  TagUniqueIdentifier = "UniqueIdentifier"
  String <- MCString
  CanonicalName <- MCCanonicalName
  None = None
  MaxTurns = 2
  MaxAttributes = 2
SYMMETRY Symmetry
SPECIFICATION Spec
CHECK_DEADLOCK FALSE
INVARIANTS
  ActsOnOwnObject
  AnswersAreTrue
  VersionsCommon
PROPERTIES
  KeepsPromise
