SPECIFICATION LiveSpec
CONSTANTS
  c1 = c1
  c2 = c2
  c3 = c3
  ch1 = ch1
  ch2 = ch2
  Clients = {c1, c2, c3}
  Channels = {}
  Longest = 2
  MaxUnread = 1
  NoNick = NoNick
  NoClient = NoClient
PROPERTY Registers
