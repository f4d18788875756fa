CONSTANTS
  Builds = {"rawler", "rawloader"}
  Size = 6
  MaxBoxes = 4
  MaxDepth = 2
  Reasons = {"Cancelled"}
  KindsIn <- MCKindsIn
  Tables <- MCTables
  Samples <- MCSamples
  Files <- MCFiles
  MaxHeader = 4
SPECIFICATION Spec
CHECK_DEADLOCK FALSE
INVARIANTS
  PartsNest
  StopIsFinal
  UnlistedIsUnknown
  PacketOnce
  NothingBeyondTheEnd
PROPERTIES
  Answers
