SPECIFICATION Spec
CONSTANTS
  PackSize = 3
  Enough = 3
  TransfersPerUser = 1
  SecondChannel = FALSE
INVARIANTS
  ReportedIsOnDisk
