CONSTANTS
  Suite = {s1, s2, s3}
SPECIFICATION Sharing
INVARIANTS
  TypeOK
  OneInside
  OnceOnly
  StandsOnReady
  NeverRefused
PROPERTIES
  EveryoneReturns
CHECK_DEADLOCK FALSE
