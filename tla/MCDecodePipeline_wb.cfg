CONSTANTS
  UsizeMax = 10000
  Batch = 20
  CheckRows = 2
  ProbeCap = 40
  Inputs <- DocInputs
SPECIFICATION Spec
INVARIANTS
  WbOverrideIsUsed
