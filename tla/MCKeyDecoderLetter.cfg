SPECIFICATION Spec
CHECK_DEADLOCK FALSE
CONSTANTS
  Pressed <- SingleByte
  MaxKeys = 2
INVARIANTS LetterAfterEscape
