CONSTANTS
  ByteBits = 4
  Tags <- MCTags
  TagPrefixes <- MCPrefixes
  Leaves <- MCLeaves
  MaxCalls = 3
  MaxValues = 4
SPECIFICATION Spec
INVARIANTS
  IInv
  EncodedIsRead
PROPERTIES
  PatchesOwnLength
CHECK_DEADLOCK FALSE
