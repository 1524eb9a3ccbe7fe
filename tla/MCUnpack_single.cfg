SPECIFICATION FairSpec
CONSTANTS
  a = a
  b = b
  A = A
  p1 = p1
  p2 = p2
  File = {a, b, A}
  Proc = {p1}
  Requests <- SingleRequests
  RatioFloor = 5
  U64Max = 1000
  MaxLen = 2
  Absent = Absent
  Dir = Dir
  Link = Link
  Outside = Outside
  Hole = Hole
  Fold <- NoCase
  UserSwaps = FALSE
INVARIANTS
  ReportedIntact
  BoundedInflation
  VerdictInv
  SameVerdict
  ListAgrees
PROPERTIES
  EveryCallEnds
