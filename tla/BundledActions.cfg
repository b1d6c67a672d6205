CONSTANTS
  Spec = {suite}
  Suite = suite
  None = None
  MaxID = 4
  MaxCalls = 4
  MaxDepth = 0
  NoCacheImages = FALSE
SPECIFICATION Calls
INVARIANTS
  BundledWaits
CHECK_DEADLOCK FALSE
