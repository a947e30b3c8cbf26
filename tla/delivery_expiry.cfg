SPECIFICATION DiskSpec
CONSTANTS
  r1 = r1  r2 = r2  a1 = a1  c1 = c1  v1 = v1  v2 = v2  A = A  B = B
  Unbound = Unbound
  None = None
  Records = {r1}
  Targets = {a1, c1}
  Values = {v1}
  Connectors = {A}
  Intents <- NoticeIntents
  SafeMethods = {"create"}
  Offers <- AllOffers
  LazyRename = FALSE
  MaxItems = 2
  MaxOutbox = 2
  MaxReviews = 1
  MaxStops = 1
  MaxSwitches = 0
INVARIANTS NothingLost
PROPERTIES ExpiryIsProcessed SlotFreed
CHECK_DEADLOCK FALSE
