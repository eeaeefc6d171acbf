SPECIFICATION Spec
CONSTANTS
  Width = 3
  Subwidth = 1
  Indices = 0
  Workers = 1
INVARIANTS
  AssertsHold
  CountsAreOwed
PROPERTIES
  EveryFlowReady
  ImplementsDataOrder
CHECK_DEADLOCK FALSE
