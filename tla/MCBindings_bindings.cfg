SPECIFICATION Spec
CONSTANTS
  EcKey <- EcKeys
  Curve <- Curves
  ShortSecret = {"s0"}
  ITERATIONS = 2
  MAX_ITERATIONS = 3
  MAX_HEADER_LEN = 3
  Now = 2
  File = {"a", "b"}
  RatioFloor = 5
  U64Max = 1000
  t1 = t1
  t2 = t2
  Thread = {t1, t2}
  Dicts <- ManyDicts
  LimitValues <- LooseAndTight
  EncryptArgs <- ManyEncrypts
  DecryptArgs <- ManyDecrypts
  Elsewhere <- Foreigners
  DefaultLimits <- Default
  MaxCalls = 2
  MaxChanges = 1
SYMMETRY Interchangeable
INVARIANTS
  IndInv
  RoundTrip
  LimitsAsCalled
  BlameFits
  NamesReadBack
