CONSTANT Plans <- MCPlans
SPECIFICATION Manifests
INVARIANTS
  TypeOK
  OneSourceInOrder
  SlotsAreTrue
  AppliedBeforeWaits
  DeleteLeavesNothing
PROPERTIES
  ApplyEnds
CHECK_DEADLOCK FALSE
