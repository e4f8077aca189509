SPECIFICATION MCSpec
CHECK_DEADLOCK FALSE
CONSTANTS
  Text <- MCText
  Code <- MCCode
  Embedded <- MCEmbedded
  VfsAtBoot <- MCVfsAtBoot
  Written <- MCWritten
  STUB_MODULES <- MCStubs
  Typed <- MCTyped
  Pressed <- AllKeys
  MaxKeys = 4
INVARIANTS NestingBounded KeysInOrder EscapeCostsItsSequence
PROPERTIES EvaluatedOnce RelativeFindsNeighbour
