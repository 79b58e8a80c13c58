SPECIFICATION MobileSpec
CONSTANTS
  None = None
  Phone = {p1, p2}
  Request = {q1, q2}
  Token = {t1, t2, t3}
  Expiring = {t1, t2, t3}
SYMMETRY Symmetry
INVARIANTS
  MobileTypeOK
  OneSuccessor
  ReuseRevokesWhatItSaw
  SingleFlightKeepsSession
CHECK_DEADLOCK FALSE
