SPECIFICATION Spec
CONSTANTS
  Width = 2
  Subwidth = 0
  Indices = 2
  Workers = 1
PROPERTIES
  ImplementsDataOrder
  EveryFlowReady
CHECK_DEADLOCK FALSE
