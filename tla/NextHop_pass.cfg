SPECIFICATION Spec
CONSTANTS
  Distances = {4,8,16}
  Speeds <- mcSpeeds
  MaxRange = 10
  Margin = 3
  Scale = 2
  Infinity = 100
  NaN = NaN
  MaxNeighbors = 3
INVARIANT LowestTTI
CHECK_DEADLOCK FALSE
