CONSTANTS
  UsizeMax = 10000
  Sizes <- MCSizes
  BatchLen = 3
  Pace = 2
SPECIFICATION Spec
INVARIANTS
  IsOriented
  NothingLost
