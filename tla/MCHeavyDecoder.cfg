CONSTANTS
  ExtHeaderSize = 1
  RawLimit = 2
  MinSuffix = 2
  TokenLen = 1
  TokenLitMax = 3
  ExtMax = 3
  LitLens <- MCLitLens
  MatchLens <- MCMatchLens
  Distances <- MCDistances
  SrcLens <- MCSrcLens
  DstLens <- MCDstLens
  Suffixes <- MCSuffixes
  Chunk = 1
  Group = 2
  TokenMatchMax = 3
  MatchRoom = 3
  StartWin = 12
  MinDistance = 2
  MaxDistance = 13
SPECIFICATION Spec
INVARIANTS
  TypeOK
  CursorsOrdered
  GroupBudget
  GroupInBounds
  StepInBounds
PROPERTIES
  ImplementsTokenDecoder
  Termination
