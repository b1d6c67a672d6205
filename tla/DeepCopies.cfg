CONSTANTS
  base = base
  v1 = v1
  v2 = v2
  app = app
  other = other
  Handle <- MCHandle
  Base = base
  Key = {1, 2}
  Scalar = {0, 1, 2, 3, 4}
  Shapes <- MCShapes
  Puts <- MCPuts
  Fresh = 3
  Changed = 4
  MaxEdits = 1
  Release <- MCRelease
  Plans <- MCPlans
SPECIFICATION Helm
INVARIANTS
  PointersKeepTheirValue
CHECK_DEADLOCK FALSE
