SPECIFICATION MCSpec
INVARIANTS BuiltIsComplete FailsForAReason ImageCurrent
PROPERTIES SetupAndBuildRecover
CONSTANTS
  Removed <- MCRemoved
  MaxFaults = 2
  MaxEdits = 2
  MaxErrors = 1
