CONSTANTS
  n1 = n1
  n2 = n2
  n3 = n3
  n4 = n4
  Free = Free
  Node <- MCNode
  Plans <- MCPlans
  OptSets <- MCOptSets
SPECIFICATION Spec
INVARIANTS
  TypeOK
  NoLostCleanup
  TeardownOrder
  OnlyProvisionedUndone
  NoLeak
  NoSilentLoss
PROPERTIES
  Provisions
  EveryDoneNodeUndone
  Terminates
