\* Two threads and one connection.
SPECIFICATION Spec
CONSTANTS
  Client = {t1, t2}
  Nobody = Nobody
  Pool = 1
INVARIANTS ConnsKept MutexKeeps
PROPERTY CallsReturn
\* The threads stop when they have their handles.
CHECK_DEADLOCK FALSE
