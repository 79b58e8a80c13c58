SPECIFICATION Spec
CONSTANTS
  c1 = c1
  c2 = c2
  c3 = c3
  k1 = k1
  None = None
  Checkin = {c1, c2, c3}
  Key = {k1}
  Time = {0, 8, 16}
  Stamp = {1, 2, 3}
  Window <- OneWindow
  Worker = {w1, w2}
  RetryLimit = 1
SYMMETRY Symmetry
CONSTRAINT TimesUpToShiftAndMirror
INVARIANTS
  TypeOK
  NoPointerCycle
  EveryKeyKeepsACanonical
  CompletedBurstsCollapse
PROPERTIES
  DuplicatesStayDuplicates
CHECK_DEADLOCK FALSE
