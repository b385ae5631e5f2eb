CONSTANTS
  Names = {"HOST", "CONNECTION", "TRANSFER-ENCODING", "CONTENT-LENGTH", "X"}
  Options = {"HOST", "X"}
  Sizes = {0, 1}
  MaxLines = 3
SPECIFICATION Spec
INVARIANTS Accumulated NoHopByHop EndToEndKept FramedByLength
CHECK_DEADLOCK FALSE
