SPECIFICATION Spec
CONSTANTS
  None = None
  s1 = s1  s2 = s2
  Sources = {s1}
  Pages <- MCLarge
  MaxPages = 4
  Budget = 1
  RetryAfter = 2
  CompleteTtl = 5
  PartialTtl = 30
  MaxFailures = 32
  Slowest = 60
  MaxDeliveries = 1
  MaxEvents = 0
PROPERTY RefreshCompletes
CHECK_DEADLOCK FALSE
