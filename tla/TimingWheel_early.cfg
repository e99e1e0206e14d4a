SPECIFICATION Spec
CONSTANTS
  Messages = {m1}
  Interval = 2
  Slots = 2
  MaxDelay = 7
INVARIANTS
  NeverEarly
CHECK_DEADLOCK FALSE
