SPECIFICATION Spec
CONSTANTS
  Messages = {m1, m2, m3}
  Policies = {"always", "everysec", "none"}
  FlushAt = 2
  MaxSegSize = 2
  MaxFailures = 2
  MaxSegments = 3
  MaxRestarts = 2
INVARIANTS
  TypeOK
  StableIsRecovered
  AcceptedIsStable
  FirstRecoveryIsPrefix
SYMMETRY Symmetry
CHECK_DEADLOCK FALSE
