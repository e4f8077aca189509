SPECIFICATION Spec
INVARIANT NeverAstray
CONSTANTS
  CAL_MS = 2
  MS_PER_SEC = 2
  NS_PER_MS = 2
  Window = {1, 8}
  Delay = 1
  Pause = {1, 3}
  MaxWaits = 2
  MaxTicks = 60
  TOP = 16
  BIG = 4
  PD_ENTRIES = 4
  LOAD = 4
  IMAGE = 3
  PAGE = 2
  BSS = 3
  STACK = 8
  ARENA <- MCArena
  Owned <- MCOwned
  EmbeddedFiles <- MCFiles
  FRAMES = 1
  MARGIN = 3
  CallFrame = {1, 2}
CHECK_DEADLOCK FALSE
