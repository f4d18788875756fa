CONSTANTS
  UsizeMax = 1000
  Files <- MCFiles
  MaxDirs = 2
  MaxImageBytes = 12
  MaxEntries = 8
SPECIFICATION Spec
INVARIANTS
  EveryDirectoryRead
  GainMapIsItsOwn
  FirstWordStands
PROPERTY
  Answers
