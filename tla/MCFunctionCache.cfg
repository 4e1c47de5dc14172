SPECIFICATION FCLiveSpec
CONSTANTS
  Invocations = {p1, p2}
  Ttl = 1
INVARIANTS FCTypeOK EntryHasPacklist
PROPERTIES PacklistComes
