SPECIFICATION FairSteadySpec
CONSTANTS
  p = p
  a = a
  b = b
  Commands <- TestCommands
  Period <- TestPeriod
  MaxTime = 3
INVARIANTS TypeOK Sorted
PROPERTIES ImplementsAgenda DueRuns
CHECK_DEADLOCK FALSE
