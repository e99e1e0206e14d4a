SPECIFICATION FairSpec
CONSTANTS
  Messages = {m1, m2}
  Interval = 2
  Slots = 2
  MaxDelay = 5
INVARIANTS
  NoDoubleEntry
  TypeOK
  ExactCountdown
  ExpiresOnItsTick
  EarlyByLessThanTwoIntervals
PROPERTIES
  RefinesDelayQueue
  EveryEntryExpires
CHECK_DEADLOCK FALSE
