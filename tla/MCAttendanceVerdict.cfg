SPECIFICATION VerdictSpec
CONSTANTS
  SessionLength = 4
  Time <- Minutes
  MinPercentage = 75
  OtherFactor = {"TAG_CHECKIN"}
  MaxRows = 4
  Null = Null
INVARIANTS
  VerdictTypeOK
  PairsAreNeighbours
  TotalIsTimeInside
  MissingExitMeansStillInside
CHECK_DEADLOCK FALSE
