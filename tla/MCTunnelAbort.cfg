CONSTANT MaxBlocks = 1
SPECIFICATION Spec
INVARIANT StreamsUntilEof
CHECK_DEADLOCK FALSE
