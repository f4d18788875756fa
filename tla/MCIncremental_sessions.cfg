CONSTANTS
  Lengths <- MCLengths
  MinPrefix = 2
  IsizeMax = 6
  U64Max = 20
  MaxStray = 1
  Sources <- MCSources
  LimitSets <- MCLimitSets
SPECIFICATION Spec
INVARIANTS
  BudgetKept
  NeverDeniedInVain
PROPERTIES
  ImplementsSession
  StopIsHeard
  Terminates
