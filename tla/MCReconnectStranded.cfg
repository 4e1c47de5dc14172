SPECIFICATION Spec
CONSTANTS
  SecondChannel = FALSE
INVARIANTS
  NeverStranded
