CONSTANTS
  UsizeMax = 10000
  ProbeCap = 100
  Jobs <- DocJobs
SPECIFICATION Spec
INVARIANTS
  AnnouncesWhatItDecodes
