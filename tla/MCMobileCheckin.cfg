SPECIFICATION CheckinFairSpec
CONSTANTS
  s1 = s1
  Null = Null
  Attempt = {a1, a2}
  Key = {k1, k2}
  Session = {s1}
  Timetable <- ClassThenBreak
  MaxTime = 1
  MaxFaults = 2
INVARIANTS
  CheckinTypeOK
  UnansweredIsKept
  OneSubmissionAtATime
PROPERTIES
  PendingIsSettled
CHECK_DEADLOCK FALSE
