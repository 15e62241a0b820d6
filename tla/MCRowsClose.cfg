\* Every application, results of one or two sets, both contexts end, the driver fails.
SPECIFICATION Spec
CONSTANTS
  Programs <- All
  Results <- AnySets
  Cancellable = TRUE
  InTx = TRUE
  DriverFails = TRUE
INVARIANTS DriverQuiet ClosedAtEnd TruncationReported OnlyContextsInterfere
PROPERTIES GivesBack ErrKept ContextCloses
\* An application that is done does nothing more.
CHECK_DEADLOCK FALSE
