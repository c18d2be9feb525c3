CONSTANTS
  Bytes = {0, 1}
  Sizes = {14}
  MinMatchLen = 1
  MatchLens = {1, 2, 3}
  MinDistance = 4
  MaxDistance = 7
  MinSuffix = 3
  Lag = 3
  Wrap = 4
  Batch = 2
  MaxMatchLen = 3
  Slots = {0, 1}
  Short = 1
  Long = 2
  ShortHash <- MCShortHash
  LongHash <- MCLongHash
  Levels <- MCLevels
  SkipAfter = 4
  RegimeCap = 2
  RegimeThreshold = 2
  Gate = 3
  Patience = 2
SPECIFICATION Spec
INVARIANTS
  TypeOK
  CandidatesExist
  DeferredValid
PROPERTIES
  ImplementsParse
  Progress
