CONSTANTS
  MaxEndpoints = 2
  MaxReads = 2
  MaxWrites = 1
SPECIFICATION Spec
INVARIANTS SingleFlight QuietWhenDelivered TimeoutAsserts ConnectOnce
PROPERTIES OperationEnds ConnectEnds
CHECK_DEADLOCK FALSE
