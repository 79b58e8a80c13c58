SPECIFICATION Spec
CONSTANTS
  s1 = s1
  s2 = s2
  None = None
  Event = {e1}
  Session = {s1, s2}
  Scheduled <- TwoSessions
  CustomFactor = {"app"}
  Envelope <- FourEnvelopes
  MaxTime = 1
  Request = {r1, r2}
  Identifier = {i1, i2}
  Worker = {w1}
  IdentifyRetryLimit = 1
  RetryLimit = 0
  Window <- SameInstant
SYMMETRY Symmetry
INVARIANT DeviceEventsResolveByRoom
CHECK_DEADLOCK FALSE
