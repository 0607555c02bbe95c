\* One cell, three executions, one restart.
SPECIFICATION FairSpec
CONSTANTS
  cell1 = cell1
  cell2 = cell2
  InputCell = {cell1}
  NoCell = NoCell
  MaxRuns <- OneCellThreeRuns
  MaxStops = 0
  MaxRestarts = 1
  MaxDeletes = 0
  MaxFaults = 0
  UserWaits = TRUE
\* Nothing happens any more when the user stops acting or the program ends.
CHECK_DEADLOCK FALSE
INVARIANTS
  NoDoubleRemove
