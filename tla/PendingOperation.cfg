SPECIFICATION Spec
CONSTANTS
  Threads = {c, t1, t2}
  Creator = c
  Deps = {d1, d2, d3}
  Self = Self
  NoDep = NoDep
INVARIANTS
  EnqueuedAfterDeps
  EnqueuedOnce
  PendingTasksCounts
PROPERTIES
  EventuallyEnqueued
CHECK_DEADLOCK FALSE
