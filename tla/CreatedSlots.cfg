CONSTANT Plans <- MCPlans
SPECIFICATION Manifests
INVARIANT CreatedListsAll
CHECK_DEADLOCK FALSE
