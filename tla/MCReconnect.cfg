SPECIFICATION FairSpec
CONSTANTS
  SecondChannel = TRUE
INVARIANTS
  TypeOK
  ArmedWhenDown
  CheckFlagExact
  WelcomedBotRequests
  AtMostTwoRequests
PROPERTIES
  RetriesForever
  RequestIsSent
