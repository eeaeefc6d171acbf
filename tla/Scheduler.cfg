SPECIFICATION Spec
CONSTANTS
  NWorkers = 3
  root = root
  a = a
  a1 = a1
  b = b
  x1 = x1
  x2 = x2
  Tasks <- MCTasks
  Root = root
  NoTask = NoTask
  ParentOf <- MCParentOf
  Collections <- MCCollections
  DependsOn <- MCDependsOn
  Alias <- MCAlias
INVARIANTS
  CounterCountsWork
  OneHome
  NoEarlyShutdown
  ReturnsQuiescent
PROPERTIES
  EverybodyStops
  ImplementsTaskPool
