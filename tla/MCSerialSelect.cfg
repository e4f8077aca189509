SPECIFICATION Spec
CHECK_DEADLOCK FALSE
CONSTANTS
  FIFO_SIZE = 3
  Last = 6
  ReadLen <- MCReadLen
  PollArg <- MCPollArg
  SelectArg <- SelectsOfTwo
INVARIANT StdoutAlwaysWritable
