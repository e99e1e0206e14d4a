SPECIFICATION FairSpec
CONSTANTS
  Conns = {c1, c2}
  Messages = {m1}
  Commands = {"query", "usage", "auth", "push", "settle", "quit", "malformed", "pop", "read", "popWait"}
  Settings <- SomeSettings
  MaxCommands = 3
  IntHalf = 128
  MaxBulk = 20
  MaxArgs = 4
  Payloads <- SomePayloads
INVARIANTS
  TypeOK
  PoppedIsInHand
  StoppedServesNobody
  CommandsAreUnits
PROPERTIES
  RepliesAreWritten
  StopReturnsUnlessHeld
CHECK_DEADLOCK FALSE
