SPECIFICATION Spec
CONSTANTS
  Messages = {m1, m2, m3}
  Policies = {"always"}
  FlushAt = 2
  MaxSegSize = 2
  MaxFailures = 0
  MaxSegments = 3
  MaxRestarts = 2
PROPERTIES
  ZeroDataLoss
CHECK_DEADLOCK FALSE
