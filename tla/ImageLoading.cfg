CONSTANTS
  c1 = c1
  c2 = c2
  pulled = pulled
  retagged = retagged
  built = built
  packed = packed
  Image <- MCImage
  Cluster <- MCCluster
  Mention <- MCMention
  Plans <- MCPlans
  OptSets <- MCOptSets
  MaxRuns = 2
SPECIFICATION Loading
INVARIANTS
  TypeOK
  Loaded
  NoCopiesLeft
  
CHECK_DEADLOCK FALSE
