SPECIFICATION Spec
CONSTANTS
  Client = {a, b, w}
  CtxClient = {w}
  Setter = {s}
  Conn = {c1, c2, c3}
  PoolSizes = {1, 2}
  IdleSizes = {1}
  Lifetimes = {0}
  IdleTimes = {0}
  QueueSize = 3
  MaxPool = 2
SYMMETRY Symmetry
INVARIANTS
  OneOwner
  PairedUse
  NoIdleWhileWaiting
  OpenWithinLimit
PROPERTIES
  ImplementsLease
