CONSTANTS
  Uses = {u1, u2}
  Tasks = {k1}
  u1 = u1
  u2 = u2
  k1 = k1
  UsesOf <- MCUsesOf
  NSignals = 2
  t1 = t1
  t2 = t2
  t3 = t3
  l1 = l1
  l2 = l2
  l3 = l3
  Lockables = {l1, l2, l3}
  Threads = {t1, t2, t3}
  Nobody = Nobody
  Ranges <- MCRanges
  NEvents = 2
  NQueues = 5
  NNodes = 6
  Scenarios <- MCScenarios
SPECIFICATION SupportSpec
INVARIANTS
  TailIsLast
  AllOrNothing
  OptionsAsSpecified
  PrintsLive
PROPERTIES
  ImplementsFifos
  CallsReturn
  RequestsServed
  ProgramEnds
CHECK_DEADLOCK FALSE
