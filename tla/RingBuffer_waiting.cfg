SPECIFICATION FairSpec
CONSTANTS
  Messages = {m1}
  Consumers = {c1, c2}
  Nil = Nil
  Requested = 1
  MinCapacity = 1
  MaxCapacity = 2
  Modulus = 4
INVARIANT NoLostWakeup
PROPERTIES
  BoundedWaitReturns
  WaitersAreServed
  CloseReleases
