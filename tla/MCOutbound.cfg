SPECIFICATION EitherSpec
CONSTANTS
  c1 = c1  c2 = c2  None = None
  s1 = s1  s2 = s2  s3 = s3  e1 = e1  e2 = e2
  Callers = {c1, c2}
  Lifetimes = {1, 3}
  Margin = 2
  HttpTimeout = 2
  MaxClock = 4
  Subs = {s1, s2, s3}
  Events = {e1, e2}
  ValidURL = {s1, s2}
  Encodable = {e1, e2}
  SubTenant <- MCSubTenant
  EventTenant <- MCEventTenant
  Wanted <- MCWanted
  EventType <- MCEventType
  MaxAttempts = 3
  Crashes = TRUE
CHECK_DEADLOCK FALSE
INVARIANT CachedTokenValid
INVARIANT OneRefreshAtATime
INVARIANT OnlyForTheTenant
INVARIANT GivenUpAfterATry
PROPERTY EveryCallerReturns
PROPERTY NotSentAgain
PROPERTY EveryDeliveryEnds
