SPECIFICATION EitherSpec
CONSTANTS
  k1 = k1  k2 = k2  r1 = r1  r2 = r2  None = None
  Keys = {k1, k2}
  Limit = 2
  Window = 2
  MaxClock = 6
  NoAnswer <- MCNoAnswer
  Requests = {r1, r2}
  RedisLimit = 2
  RedisWindow = 2
  Errors = TRUE
  MaxRetries = 1
  RedisMaxClock = 4
  MaxArrivals = 4
SYMMETRY Symmetry
CHECK_DEADLOCK FALSE
INVARIANT WindowRespected
INVARIANT BucketLimit
INVARIANT NoOrphanCounter
PROPERTY KeepsSlidingWindow
