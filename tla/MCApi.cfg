SPECIFICATION FairSpec
CHECK_DEADLOCK FALSE
CONSTANTS
  Requests = {1, 2, 3, 4}
  Asks <- MCAsks
  Rate = 2
  Anonymous = FALSE
  Second = 2
  Timeout = 1
  Copies = {2}
  None = None
  MaxTime = 2
INVARIANT TypeOK
INVARIANT RateBounded
INVARIANT Accounted
PROPERTY EventuallyAnswered
