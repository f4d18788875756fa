CONSTANTS
  UsizeMax = 10000
  ProbeCap = 11
  Jobs <- AdapterJobs
SPECIFICATION Spec
INVARIANTS
  AnnouncementsHold
  ShownAsAsked
  NothingBeyondLimits
PROPERTIES
  StopIsHeard
  ImplementsPlan
