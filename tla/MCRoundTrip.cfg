CONSTANTS
  ExtHeaderSize = 2
  RawLimit = 3
  MinSuffix = 1
  TokenLen = 2
  TokenLitMax = 3
  ExtMax = 3
  LitLens <- MCLitLens
  MatchLens <- MCMatchLens
  Distances <- MCDistances
  SrcLens = {}
  DstLens <- MCDstLens
  Suffixes = {}
  HeaderSize = 1
  MinMatch = 2
  ExactRaw = FALSE
  BoundDiv = 3
  BoundPad = 0
  Slack <- MCSlack
  Bytes <- MCBytes
SPECIFICATION TripSpec
INVARIANTS
  TypeOK
  StreamsApart
  BoundHolds
  TripTypeOK
  RoundTrips
