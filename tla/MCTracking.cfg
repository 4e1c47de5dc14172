SPECIFICATION Spec
CONSTANTS
  c1 = c1
  c2 = c2
  c3 = c3
  ch1 = ch1
  ch2 = ch2
  Clients = {c1, c2}
  Channels = {ch1, ch2}
  Longest = 2
  MaxUnread = 1
  NoNick = NoNick
  NoClient = NoClient
INVARIANTS TypeOK ServerAgrees TrackersExact NoTrackerFails WaitingBotAsks
CONSTRAINT InOrder
SYMMETRY Symmetry
