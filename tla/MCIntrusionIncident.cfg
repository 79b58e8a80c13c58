SPECIFICATION Spec
CONSTANTS
  Signal = {s1, s2}
  Area = {a1, a2}
  Incident = {i1, i2}
  Detector = {d1, d2}
  Closer = {q1}
  Staff = {p1, p2}
  RetryLimit = 1
  None = None
SYMMETRY Symmetry
INVARIANTS
  TypeOK
  OneOpenIncident
  CurrentAreaWasVisited
  CompletedCrossingsAreCorrelated
PROPERTIES
  ClosureIsFinal
CHECK_DEADLOCK FALSE
