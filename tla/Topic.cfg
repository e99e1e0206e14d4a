SPECIFICATION FairSpec
CONSTANTS
  Messages = {m1, m2}
  Groups = {g1, g2}
  DLQMaxSize = 1
  MaxRetries = 2
  RingMax = 1
  MaxReplays = 1
INVARIANTS
  TypeOK
  ExactlyOneHome
  RetryBudget
  DeliveriesAccounted
PROPERTY EveryMessageSettles
