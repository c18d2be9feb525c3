CONSTANTS
  ExtHeaderSize = 2
  RawLimit = 2
  MinSuffix = 2
  TokenLen = 1
  TokenLitMax = 1
  ExtMax = 2
  LitLens <- MCLitLens
  MatchLens <- MCMatchLens
  Distances <- MCDistances
  SrcLens <- MCSizes
  DstLens <- MCSizes
  Suffixes <- MCSuffixes
  HeaderSize = 1
  SizeMax = 7
  Streams <- MCStreams
  Givens <- MCSizes
SPECIFICATION Spec
INVARIANT TruncatedIsTooShort
