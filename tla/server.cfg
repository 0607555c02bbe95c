\* Two clients, one with two requests, one with one; one stop or exit.
SPECIFICATION Spec
CONSTANTS
  c1 = c1
  c2 = c2
  Client <- MCClient
  NoBlock = NoBlock
  MaxRequests <- MCMaxRequests
  MaxControls = 1
\* The server stops when no client has anything to say any more.
CHECK_DEADLOCK FALSE
INVARIANTS
  LocksInOrder
  NoLostWakeup
  
  EveryRequestInOnePlace
  RepliesInOrder
  
PROPERTIES
  ImplementsJobService
