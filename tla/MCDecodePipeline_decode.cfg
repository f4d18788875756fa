CONSTANTS
  UsizeMax = 10000
  Batch = 20
  CheckRows = 2
  ProbeCap = 40
  Inputs <- DecodeInputs
SPECIFICATION Spec
INVARIANTS
  WorkIsExact
  StopIsHeard
  StopIsPrompt
  NothingBeyondLimits
  AgreesWithProbe
  BufferMatchesDims
PROPERTIES
  Terminates
  ImplementsPlan
