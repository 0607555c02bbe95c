\* Two cells, of which one is run twice; one stop, restart or crash, deletion.
SPECIFICATION FairSpec
CONSTANTS
  cell1 = cell1
  cell2 = cell2
  InputCell = {cell1, cell2}
  NoCell = NoCell
  MaxRuns <- MCMaxRuns
  MaxStops = 1
  MaxRestarts = 1
  MaxDeletes = 1
  MaxFaults = 1
  UserWaits = TRUE
\* Nothing happens any more when the user stops acting or the program ends.
CHECK_DEADLOCK FALSE
INVARIANTS
  EveryReplyFindsItsCell
  
  OutputIsOfTheLastRun
  NoCellIsStuck
