CONSTANTS
  Bytes = {0, 1}
  Sizes = {9, 11}
  MinMatchLen = 2
  MatchLens = {2, 3}
  MinDistance = 2
  MaxDistance = 4
  MinSuffix = 2
  Word = 2
  BlockSize = 7
  MaxMatchLen = 3
  ExtendLimit = 3
  PadLen = 4
  Sort <- MCSort
SPECIFICATION Spec
INVARIANTS
  TypeOK
  LiveWindow
  LongestMatch
PROPERTIES
  ImplementsParse
