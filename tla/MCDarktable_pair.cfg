CONSTANTS
  t1 = t1
  t2 = t2
  Callers = {t1, t2}
  Calls <- PlainCalls
  Images <- PlainImages
  MaxBytes = 1
  FixedCap = 3
  Faults <- WaitFault
  PidReuse = FALSE
  MaxJobs = 3
  MaxFile = 1
  MaxCrashes = 1
SPECIFICATION Spec
SYMMETRY Threads
INVARIANTS
  DirsAreDisjoint
  NothingLeftBehind
