SPECIFICATION FairSpec
CONSTANTS
  c1 = c1
  c2 = c2
  c3 = c3
  k1 = k1
  None = None
  Checkin = {c1, c2}
  Key = {k1}
  Time = {0, 8}
  Stamp = {1, 2}
  Window <- OneWindow
  Worker = {w1, w2}
  RetryLimit = 1
PROPERTIES
  EveryCheckinIsProcessed
CHECK_DEADLOCK FALSE
