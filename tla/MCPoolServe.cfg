SPECIFICATION LiveSpec
CONSTANTS
  Client = {a, b, w}
  CtxClient = {w}
  Setter = {}
  Conn = {c1}
  PoolSizes = {1}
  IdleSizes = {1}
  Lifetimes = {0}
  IdleTimes = {0}
  QueueSize = 3
  MaxCalls = 4
PROPERTIES
  WaiterServed
  AllClosed
CHECK_DEADLOCK FALSE
