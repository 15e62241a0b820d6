\* Two goroutines, the context and awaitDone race to use and end one transaction.
SPECIFICATION FairSpec
CONSTANTS
  Client = {g1, g2}
  AwaitDone = AwaitDone
  Nobody = Nobody
INVARIANTS QuietEnd Truthful TxStmtsClosed
PROPERTIES CancelEnds EndReturns KeepsPromise
\* After a Begin that fails there is no transaction and nothing happens.
CHECK_DEADLOCK FALSE
