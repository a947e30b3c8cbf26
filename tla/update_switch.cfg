SPECIFICATION SupervisedSpec
CONSTANTS
  Versions = {1, 2, 3}
  Factory = 1
  Dead = {3}
  Limit = 2
  RetainedSlots = 2
  Faulty = TRUE
  MaxChanges = 3
INVARIANTS Launchable Supervised AcceptedFallback
PROPERTIES ConfirmsItself WatchdogSpares DeadVersionUndone
CHECK_DEADLOCK FALSE
