SPECIFICATION Spec
CONSTANTS
  EcKey <- EcKeys
  Curve <- Curves
  ShortSecret = {"s0"}
  ITERATIONS = 2
  MAX_ITERATIONS = 3
  MAX_HEADER_LEN = 3
  Slot = {1}
  Jobs <- KdfJobs
  Opened = 1
  Commands <- KdfCommands
  LimitsSet <- DefaultOnly
  Labels = {"L1", "L2"}
  MaxTries = 2
  MaxDamage = 0
INVARIANT
  KdfWorkPerContainer
