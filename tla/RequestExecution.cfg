CONSTANTS
  Candidates = 2
  MaxAttempts = 3
  MaxChunks = 3
  MaxLaterChunks = 1
  MaxNativeChunks = 2
  Quirks = {}
  Transports = {"chat", "messages", "responses"}
  TaskTools = {1}
SPECIFICATION FairSpec
INVARIANT FallbackIsInvisible
INVARIANT DeliveredIsRecorded
INVARIANT CutOffsAreContained
INVARIANT LeaseCoversUpstream
PROPERTY FollowsContract
PROPERTY DeadlineIsFinal
PROPERTY RequestEnds
CHECK_DEADLOCK FALSE
