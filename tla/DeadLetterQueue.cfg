\* More messages than the store has room for.
SPECIFICATION DLQSpec
CONSTANTS
  Messages = {m1, m2, m3, m4}
  DLQMaxSize = 3
  MaxRetries = 2
INVARIANTS
  DLQTypeOK
  OrderMatchesEntries
  PagesCoverQueue
PROPERTY EvictsOnlyOldest
