SPECIFICATION MCSpec
CONSTANTS
  Indices = {i1, i2, i3}
  NIndices = 3
  Earlier = {t1, t2}
INVARIANTS
  ReadyCountExact
  CompletedWithAll
  ResultComplete
PROPERTIES
  EverybodyReleased
  BothReleased
CHECK_DEADLOCK FALSE
