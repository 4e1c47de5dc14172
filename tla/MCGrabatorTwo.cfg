SPECIFICATION HelpfulSpec
CONSTANTS
  PackSize = 3
  Enough = 3
  TransfersPerUser = 2
  SecondChannel = FALSE
PROPERTIES
  ShortTransferIsRetried
  DownloadFinishes
