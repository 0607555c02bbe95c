\* Two threads, one entry each; two lives of the program, of which the second
\* gets the process id of the first.
SPECIFICATION FairSpec
CONSTANTS
  t1 = t1
  t2 = t2
  Thread = {t1, t2}
  Pid = {1}
  MaxLogs = 1
  MaxLives = 2
  MaxSpurious = 1
  None = None
\* Nothing happens any more after the last life of the program.
CHECK_DEADLOCK FALSE
INVARIANTS
  UploadedOnce
  ConfirmedIsStored
  
  TextStoredOnce
PROPERTIES
  OpeningCatchesUp
  ExitEnds
