SPECIFICATION Spec
CHECK_DEADLOCK FALSE
CONSTANTS
  Text <- MCText
  OtherKey <- SpecialKey
  Prompt <- MCPrompt
  WriteLine <- MCWriteLine
  DotLine <- MCDotLine
  ExitLine <- MCExitLine
  MaxLine = 2
  MaxHistory = 2
  MaxStray = 1
INVARIANTS TypeOK ScreenShowsLine
PROPERTIES EditorSpec OnlyTextIsTyped KeysEndInStep
