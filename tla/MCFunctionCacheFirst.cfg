SPECIFICATION FCLiveSpec
CONSTANTS
  Invocations = {p1}
  Ttl = 1
PROPERTY PacklistComesUnsearched
