\* One cell, two runs; one stop, one restart or crash, one deletion.
SPECIFICATION FairSpec
CONSTANTS
  cell1 = cell1
  cell2 = cell2
  InputCell = {cell1}
  NoCell = NoCell
  MaxRuns <- OneCellTwoRuns
  MaxStops = 1
  MaxRestarts = 1
  MaxDeletes = 1
  MaxFaults = 1
  UserWaits = TRUE
\* Nothing happens any more when the user stops acting or the program ends.
CHECK_DEADLOCK FALSE
PROPERTIES
  EveryRunEnds
  KernelDeathIsRepaired
