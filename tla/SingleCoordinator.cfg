SPECIFICATION Spec
CONSTANTS
  NBlocks = 2
  GracePolls = 3
  Answers4314 = TRUE
  MaxPolls = 7
  NoData = NoData
INVARIANTS IInv AvailableWithinGrace OnePollPerSnapshot
PROPERTIES NeverOlder KeepsContract NotAskedAgain
CHECK_DEADLOCK FALSE
