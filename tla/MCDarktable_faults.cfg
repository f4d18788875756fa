CONSTANTS
  t1 = t1
  t2 = t2
  Callers = {t1}
  Calls <- AllCalls
  Images <- AllImages
  MaxBytes = 2
  FixedCap = 3
  Faults <- AllFaults
  PidReuse = FALSE
  MaxJobs = 2
  MaxFile = 4
  MaxCrashes = 1
SPECIFICATION Spec
INVARIANTS
  DeliversItsOwn
  ChildIsAttended
PROPERTIES
  EveryCallReturns
