\* convertTocRows returns the rows before an error of the driver as the result.
SPECIFICATION Spec
CONSTANTS
  Programs <- CRows
  Results <- OneSet
  Cancellable = FALSE
  InTx = FALSE
  DriverFails = TRUE
INVARIANT CRowsComplete
\* An application that is done does nothing more.
CHECK_DEADLOCK FALSE
