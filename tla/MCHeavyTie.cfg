CONSTANTS
  Bytes = {0, 1}
  Sizes = {9}
  MinMatchLen = 2
  MatchLens = {2, 4}
  MinDistance = 2
  MaxDistance = 5
  MinSuffix = 2
  Word = 2
  BlockSize = 6
  MaxMatchLen = 4
  ExtendLimit = 3
  PadLen = 3
  Sort <- MCSort
  LenOf <- MCLenOf
  TokenCost = 2
  HeaderCost = 2
  TokenLitMax = 2
  ExtMax = 5
  RelaxWindow = 5
  Inf = 99
SPECIFICATION HeavySpec
INVARIANTS
  Cheapest
