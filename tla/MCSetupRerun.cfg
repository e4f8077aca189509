SPECIFICATION MCSpec
INVARIANT SkippedIsComplete
CONSTANTS
  Removed <- MCRemoved
  MaxFaults = 2
  MaxEdits = 1
  MaxErrors = 1
