CONSTANT Rounds = 3
SPECIFICATION Background
INVARIANTS
  TypeOK
  NoCrash
  QuietAfterCleanup
  KeepsTrying
PROPERTIES
  RefusedOnlyInUse
  EndsWhenCleanedUp
CHECK_DEADLOCK FALSE
