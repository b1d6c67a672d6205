CONSTANTS
  Spec = {suite, s1, s2}
  Suite = suite
  None = None
  MaxID = 4
  MaxCalls = 6
  MaxDepth = 2
  NoCacheImages = FALSE
SPECIFICATION Calls
INVARIANTS
  Buildable
CHECK_DEADLOCK FALSE
