SPECIFICATION Spec
CONSTANTS
  EcKey <- EcKeys
  Curve <- Curves
  ShortSecret = {"s0"}
  ITERATIONS = 2
  MAX_ITERATIONS = 3
  MAX_HEADER_LEN = 3
  Slot = {1, 2}
  Jobs <- DamageJobs
  Opened = 1
  Commands <- DamageCommands
  LimitsSet <- DefaultOnly
  Labels = {"L1", "L2"}
  MaxTries = 1
  MaxDamage = 2
INVARIANTS
  ReleasedAuthentic
  VerifiedFirst
