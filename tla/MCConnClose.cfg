\* Four goroutines operate on a Conn and close it.
SPECIFICATION Spec
CONSTANT Client = {g1, g2, g3, g4}
INVARIANT QuietRelease
PROPERTIES GivesBack CloseReturns
\* A Conn that is closed does nothing more.
CHECK_DEADLOCK FALSE
