SPECIFICATION RedisSpec
CONSTANTS
  r1 = r1  r2 = r2  r3 = r3  None = None
  Requests = {r1, r2}
  RedisLimit = 1
  RedisWindow = 2
  MaxRetries = 1
  Errors = FALSE
  RedisMaxClock = 3
  MaxArrivals = 4
SYMMETRY Symmetry
CHECK_DEADLOCK FALSE
INVARIANT SlidingWindowHolds
