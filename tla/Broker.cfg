SPECIFICATION Spec
CONSTANTS
  Messages = {m1, m2}
  Topics = {t1, t2}
  MaxBatch = 2
INVARIANTS
  TypeOK
  LoggedBeforeQueued
  PublisherOrderKept
  TotalsAgree
PROPERTY ConfirmedSurvives
SYMMETRY Symmetry
