CONSTANTS
  ExtHeaderSize = 1
  RawLimit = 2
  MinSuffix = 2
  TokenLen = 1
  TokenLitMax = 1
  ExtMax = 2
  LitLens <- MCLitLens
  MatchLens <- MCMatchLens
  Distances <- MCDistances
  SrcLens <- MCSrcLens
  DstLens <- MCDstLens
  Suffixes <- MCSuffixes
  Chunk = 2
  Group = 2
  TokenMatchMax = 2
  MinDistance = 3
  MaxDistance = 4
SPECIFICATION OutputSpec
INVARIANTS
  OutputTypeOK
PROPERTIES
  ImplementsTokenOutput
