CONSTANTS
  m1 = m1
  m2 = m2
  Messages = {m1, m2}
  Tasks = {"worker"}
  MaxCalls = 2
  MaxFailures = 2
  RateLimit = 2
  Window = 1
  MaxLag = 1
  MaxTime = 2
SPECIFICATION FairSpec
CHECK_DEADLOCK FALSE
INVARIANTS
  StrictWindow
  NobodyIsForgotten
PROPERTIES
  AnsweredIsShown
  CloseIsFinal
  CallsSettle
