SPECIFICATION Spec
CONSTANTS
  Client = {a, w}
  CtxClient = {w}
  Setter = {s}
  Conn = {c1, c2}
  PoolSizes = {0, 1, 2}
  IdleSizes = {0, 2}
  Lifetimes = {0, 1}
  IdleTimes = {0, 1}
  QueueSize = 3
SYMMETRY Symmetry
CONSTRAINT UnlimitedStays
INVARIANTS
  OpenCount
  IdleLimitSynced
  WakeupOwed
PROPERTIES
  NeverOpensPastLimit
  UsesIdleSet
