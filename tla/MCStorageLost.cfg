SPECIFICATION Spec
CONSTANTS
  p1 = p1
  p2 = p2
  k1 = k1
  k2 = k2
  Invocations = {p1, p2}
  Keys = {k1, k2}
PROPERTY SyncKeepsKeys
