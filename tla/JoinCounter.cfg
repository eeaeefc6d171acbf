SPECIFICATION Spec
CONSTANTS
  Threads = {t1, t2, t3}
  Actions = {a1, a2}
  Tokens = {k1, k2, k3}
  InitialTokens = {k1}
  Modulus = 4
  Free = Free
  Held = Held
INVARIANTS
  AssertsHold
  RunsOnlyAfterRelease
  AtMostOnce
  NoStranded
  CountZeroTriggers
PROPERTIES
  ImplementsLatch
CHECK_DEADLOCK FALSE
