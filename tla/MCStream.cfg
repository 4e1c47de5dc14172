SPECIFICATION Spec
CONSTANTS
  c1 = c1
  c2 = c2
  Calls <- TwoCalls
  PackSize = 2
  Enough = 2
  ListedSize = 2
  BufferPercent = 50
  Scaled = {1000, 1500}
INVARIANTS TypeOK CancelledNeverPlays
PROPERTY FinishedDownloadPlays
CHECK_DEADLOCK FALSE
