CONSTANTS
  v1 = v1
  v2 = v2
  c1 = c1
  NoFlow = NoFlow
  Voices = {v1, v2}
  Copies = 2
  Commands = {c1}
  MaxDeliveries = 2
SPECIFICATION FairSpec
CHECK_DEADLOCK FALSE
INVARIANTS
  CancelledStaysSilent
  StatusHasOneOwner
PROPERTIES
  EntriesAreTheirOwn
  VoicesSettle
