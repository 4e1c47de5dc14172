SPECIFICATION Spec
CONSTANTS
  PackSize = 3
  Enough = 2
  TransfersPerUser = 1
  SecondChannel = FALSE
INVARIANTS
  TypeOK
  FileIsBeginning
PROPERTIES
  ImplementsDownload
  ShortTransferIsRetried
