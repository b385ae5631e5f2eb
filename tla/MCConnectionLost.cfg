CONSTANTS
  MaxEndpoints = 1
  MaxReads = 1
  MaxWrites = 0
SPECIFICATION Spec
INVARIANT CancelHandlerPosted
CHECK_DEADLOCK FALSE
