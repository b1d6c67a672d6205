CONSTANTS
  n1 = n1
  n2 = n2
  n3 = n3
  n4 = n4
  Free = Free
  Node <- MCNode
  Plans <- MCPlans
  OptSets <- MCOptSets
SPECIFICATION Safety
INVARIANT StartsAfterSuccess
