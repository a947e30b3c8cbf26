SPECIFICATION Spec
CONSTANTS
  Stations = {a, b}
  Line = Line
  None = None
  Initial = initial
  Verifiers = {initial, k1, k2}
  MaxOps = 3
  MaxGuesses = 4
  MaxFaults = 2
INVARIANTS WholeOperations TopologyHeld DelayServed
SYMMETRY Symmetric
CHECK_DEADLOCK FALSE
