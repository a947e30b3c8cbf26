SPECIFICATION Spec
CONSTANTS
  r1 = r1  r2 = r2  a1 = a1  c1 = c1  v1 = v1  v2 = v2  A = A  B = B
  Unbound = Unbound
  None = None
  Records = {r1}
  Targets = {a1, c1}
  Values = {v1}
  Connectors = {A, B}
  Intents <- RecordIntents
  SafeMethods = {"create"}
  Offers <- AllOffers
  LazyRename = FALSE
  MaxItems = 3
  MaxOutbox = 2
  MaxReviews = 1
  MaxStops = 1
  MaxSwitches = 1
INVARIANTS AtMostOnce BoundRouting NothingLost
PROPERTIES LaneOrder KeepsContract
SYMMETRY SameSystems
CHECK_DEADLOCK FALSE
