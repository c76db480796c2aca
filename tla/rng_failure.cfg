CONSTANTS
  Thread = {"t", "u"}
  Size = 2
  Chunk = 1
  MaxCalls = 2
SPECIFICATION RngSpec
INVARIANT CsmReportsFailure
CHECK_DEADLOCK FALSE
