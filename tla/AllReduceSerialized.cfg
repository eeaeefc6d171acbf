SPECIFICATION Spec
CONSTANTS
  Indices = {i1, i2, i3}
INVARIANTS
  ContributionsSerialized
CHECK_DEADLOCK FALSE
