CONSTANTS
  Bytes = {0, 1}
  Sizes = {10, 11}
  MinMatchLen = 2
  MatchLens = {2, 4}
  MinDistance = 2
  MaxDistance = 5
  MinSuffix = 2
  Word = 2
  BlockSize = 5
  MaxMatchLen = 4
  ExtendLimit = 3
  PadLen = 5
  Sort <- MCSort
  LenOf <- MCLenOf
  TokenCost = 2
  HeaderCost = 2
  TokenLitMax = 2
  ExtMax = 5
  RelaxWindow = 5
  Inf = 99
SPECIFICATION HeavySpec
INVARIANTS
  HeavyTypeOK
  NeverFails
  PaidFor
  NearlyCheapest
PROPERTIES
  ImplementsParse
