SPECIFICATION FCSpec
CONSTANTS
  Invocations = {p1, p2}
  Ttl = 1
INVARIANT EntryAlwaysHasPacklist
