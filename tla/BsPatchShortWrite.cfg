CONSTANTS
  Old <- MCOld
  Base = 2
  Fields <- MCFields
  LongMax = 3
  MaxNew = 2
  MaxTriples = 2
  MaxStarts = 2
SPECIFICATION PatchSpec
PROPERTY InstallsComplete
CHECK_DEADLOCK FALSE
