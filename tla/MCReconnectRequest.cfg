SPECIFICATION Spec
CONSTANTS
  SecondChannel = FALSE
PROPERTIES
  RequestKeepsThread
