CONSTANTS
  Lengths <- MCLengths
  MinPrefix = 2
  IsizeMax = 6
  U64Max = 20
  MaxStray = 0
  Sources <- FewSources
  LimitSets <- FewLimits
SPECIFICATION Spec
INVARIANTS
  TransientStopIsTerminal
