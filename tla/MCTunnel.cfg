CONSTANT MaxBlocks = 2
SPECIFICATION Spec
INVARIANTS CallbackWhenQuiet FirstErrorReported InOrder
PROPERTY TunnelEnds
CHECK_DEADLOCK FALSE
