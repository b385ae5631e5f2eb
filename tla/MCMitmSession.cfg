CONSTANTS
  MaxRequests = 3
  MaxRepeats = 2
SPECIFICATION Spec
INVARIANTS DoneOnce Matched SecureReplies
PROPERTY SessionEnds
CHECK_DEADLOCK FALSE
