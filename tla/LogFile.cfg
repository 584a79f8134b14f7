SPECIFICATION FairLogSpec
CONSTANTS
  MaxPending = 3
  MaxText = 4
  MaxBytes = 8
INVARIANTS Accounted FlushedAtClose
PROPERTIES LogCloseReturns
