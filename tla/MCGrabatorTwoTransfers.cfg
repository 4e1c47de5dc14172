SPECIFICATION Spec
CONSTANTS
  PackSize = 3
  Enough = 3
  TransfersPerUser = 2
  SecondChannel = FALSE
INVARIANTS
  FileIsBeginning
