SPECIFICATION Spec
CONSTANTS
  Threads = {t1, t2, t3}
  Keys = {k1, k2, k3}
  MaxSize = 2
  Timeout = 1
  Forever = Forever
  MaxNow = 2
SYMMETRY Symmetry
INVARIANTS TypeOK SizeBounded LeastRecentlyUsedFirst FlagExact
