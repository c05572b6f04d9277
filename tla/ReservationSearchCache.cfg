SPECIFICATION Spec
CONSTANTS
  Horizon = 2
  Word = 3
  Requests = {1, 2}
  Durations = {0, 2}
  Origins = {0, 1}
  MaxShapes = 2
INVARIANT BoundsSound
PROPERTY CacheImplementsPlan
