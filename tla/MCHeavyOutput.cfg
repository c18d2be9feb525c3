CONSTANTS
  ExtHeaderSize = 1
  RawLimit = 2
  MinSuffix = 4
  TokenLen = 1
  TokenLitMax = 4
  ExtMax = 3
  LitLens <- MCLitLens
  MatchLens <- MCMatchLens
  Distances <- MCDistances
  SrcLens <- MCSrcLens
  DstLens <- MCDstLens
  Suffixes <- MCSuffixes
  Chunk = 2
  Group = 2
  TokenMatchMax = 5
  MatchRoom = 6
  StartWin = 18
  MinDistance = 3
  MaxDistance = 9
SPECIFICATION OutputSpec
INVARIANTS
  OutputTypeOK
PROPERTIES
  ImplementsTokenOutput
