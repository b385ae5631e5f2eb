CONSTANTS
  MaxMessages = 2
  MaxCalls = 2
  MaxRepeats = 2
  Uses <- PipelinedOnly
  Lengths = {0, 2, 15}
  HeaderBuffer = 2
  BodyBufferMin = 3
  Slack = 1
  IntSpan = 16
  SizeSpan = 32
  SystemRmem = 5
  BodyBufferMax = 7
SPECIFICATION Spec
INVARIANT RemainderWaits
CHECK_DEADLOCK FALSE
