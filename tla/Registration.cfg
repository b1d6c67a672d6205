CONSTANTS
  Spec = {suite, s1, s2}
  Suite = suite
  None = None
  MaxID = 5
  MaxCalls = 6
  MaxDepth = 1
  NoCacheImages = TRUE
SPECIFICATION Calls
INVARIANTS
  TypeOK
  Buildable
  DeclaredWaits
  OneOwner
CHECK_DEADLOCK FALSE
