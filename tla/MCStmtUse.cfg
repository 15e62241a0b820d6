\* Goroutines execute, query, bind and close one statement; connections are
\* discarded, and transactions end with ErrBadConn.
SPECIFICATION Spec
CONSTANTS
  Client = {p1, p2}
  Conn = {c1, c2}
  Self = Self
  None = None
SYMMETRY Symmetric
INVARIANTS NoStaleUse PairedDep ClosedBeforeConn NoStmtLeak
\* A closed statement does nothing more.
CHECK_DEADLOCK FALSE
