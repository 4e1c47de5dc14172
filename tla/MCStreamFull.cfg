SPECIFICATION Spec
CONSTANTS
  c1 = c1
  c2 = c2
  Calls <- OneCall
  PackSize = 2
  Enough = 2
  ListedSize = 2
  BufferPercent = 100
  Scaled = {300, 1500}
PROPERTY LoadedPlays
CHECK_DEADLOCK FALSE
