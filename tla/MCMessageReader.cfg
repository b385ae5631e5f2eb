CONSTANTS
  MaxMessages = 3
  MaxCalls = 4
  MaxRepeats = 2
  Uses <- AllUses
  Lengths = {0, 2, 10, 15}
  HeaderBuffer = 2
  BodyBufferMin = 3
  Slack = 1
  IntSpan = 16
  SizeSpan = 32
  SystemRmem = 5
  BodyBufferMax = 7
SPECIFICATION Spec
INVARIANTS OneOutcome Framing NothingLost BufferBounded
PROPERTY CallAnswered
CHECK_DEADLOCK FALSE
