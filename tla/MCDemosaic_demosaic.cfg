CONSTANTS
  UsizeMax = 130
  Calls <- MCCalls
  Pace = 2
SPECIFICATION Spec
INVARIANTS
  TypeOK
  EveryPixelOnce
  ColoursKept
  Centred
  PathsAgree
