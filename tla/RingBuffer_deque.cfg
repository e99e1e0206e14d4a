\* Two slots that may grow once to four and then drop; indices wrap at eight.
SPECIFICATION Spec
CONSTANTS
  Messages = {m1, m2}
  Consumers = {c1}
  Nil = Nil
  Requested = 2
  MinCapacity = 1
  MaxCapacity = 4
  Modulus = 8
INVARIANTS
  TypeOK
  SlotsExact
PROPERTY RefinesDeque
