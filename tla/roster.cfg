SPECIFICATION Spec
CONSTANTS
  None = None
  s1 = s1  s2 = s2
  Sources = {s1, s2}
  Pages <- MCPages
  MaxPages = 2
  Budget = 3
  RetryAfter = 2
  CompleteTtl = 5
  PartialTtl = 30
  MaxFailures = 4
  Slowest = 60
  MaxDeliveries = 1
  MaxEvents = 3
INVARIANT BudgetKept
PROPERTIES CacheKept RefreshCompletes
CHECK_DEADLOCK FALSE
