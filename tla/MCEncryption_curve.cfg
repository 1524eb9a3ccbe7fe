SPECIFICATION Spec
CONSTANTS
  EcKey <- EcKeys
  Curve <- Curves
  ShortSecret = {"s0"}
  ITERATIONS = 2
  MAX_ITERATIONS = 3
  MAX_HEADER_LEN = 5
  Now = 2
  File = {"a"}
  RatioFloor = 5
  U64Max = 1000
  Commands <- OneLookup
  Worlds <- BigCurve
  DefaultLimits <- Default
INVARIANTS
  MatchesEncryptable
