SPECIFICATION Spec
CONSTANTS
  p = p
  a = a
  b = b
  Commands <- TestCommands
  Period <- TestPeriod
  MaxTime = 3
INVARIANT RunsOnce
CHECK_DEADLOCK FALSE
