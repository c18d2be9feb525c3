CONSTANTS
  ExtHeaderSize = 1
  RawLimit = 2
  MinSuffix = 2
  TokenLen = 1
  TokenLitMax = 1
  ExtMax = 3
  LitLens <- MCLitLens
  MatchLens <- MCMatchLens
  Distances <- MCDistances
  SrcLens <- MCSrcLens
  DstLens <- MCDstLens
  Suffixes <- MCSuffixes
  Chunk = 2
  Group = 2
  TokenMatchMax = 3
  MinDistance = 3
  MaxDistance = 6
SPECIFICATION Spec
INVARIANTS
  TypeOK
  CursorsOrdered
  GroupBudget
  BorrowsInBounds
  GroupCopiesInBounds
  StepCopiesInBounds
PROPERTIES
  ImplementsTokenDecoder
  Termination
