SPECIFICATION FairSpec
CONSTANTS
  Conns = {c1, c2}
  Messages = {m1}
  Commands = {"push", "pop", "read"}
  Settings <- SomeSettings
  MaxCommands = 2
  IntHalf = 128
  MaxBulk = 20
  MaxArgs = 4
  Payloads <- SomePayloads
PROPERTY StopEnds
CHECK_DEADLOCK FALSE
