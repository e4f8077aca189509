SPECIFICATION MCSpec
CHECK_DEADLOCK FALSE
CONSTANTS
  FIFO_SIZE = 3
  Last = 6
  ReadLen <- MCReadLen
  PollArg <- MCPollArg
  SelectArg <- SelectsOfThree
  QUEUE_SIZE = 3
  LastKey = 5
  KeysReadLen = {0, 1, 3}
  MaxErrors = 2
  MAX_PARAMS = 2
  Token <- AllToken
  Stray <- MCStray
  MaxTokens = 3
INVARIANTS ReadsFit ReadableIsTrue ReadyIsTrue ErrorsOnlyRepeat
INVARIANTS TokensInterpreted OverflowHarmsColoursOnly
PROPERTIES BothStreams BothDeliver
