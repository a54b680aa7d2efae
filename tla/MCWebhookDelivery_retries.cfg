SPECIFICATION WebhookSpec
CONSTANTS
  s1 = s1  s2 = s2  e1 = e1  e2 = e2
  Subs = {s1, s2}
  Events = {e1}
  ValidURL = {s1, s2}
  Encodable = {e1}
  SubTenant <- MCSameTenant
  EventTenant <- MCEventTenant
  Wanted <- MCWanted
  EventType <- MCEventType
  MaxAttempts = 3
  Crashes = FALSE
CHECK_DEADLOCK FALSE
INVARIANT RetriedInFull
