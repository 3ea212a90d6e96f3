CONSTANTS
  e1 = e1
  e2 = e2
  e3 = e3
  Execs = {e1, e2}
  None = None
  MaxAttempts = 2
  MaxConcurrency = 2
SPECIFICATION FairSpec
PROPERTY FollowersAreReleased
