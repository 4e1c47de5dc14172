SPECIFICATION KeptSpec
CONSTANTS
  c1 = c1
  c2 = c2
  Calls <- OneCall
  PackSize = 6
  Enough = 5
  ListedSize = 6
  BufferPercent = 50
  Scaled = {300, 1500}
PROPERTY BotKeepsPromise
CHECK_DEADLOCK FALSE
