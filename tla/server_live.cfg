\* One client, two requests, one stop or exit; liveness under FairSpec.
SPECIFICATION FairSpec
CONSTANTS
  c1 = c1
  c2 = c2
  Client = {c1}
  NoBlock = NoBlock
  MaxRequests <- MCOneClientRequests
  MaxControls = 1
\* The server stops when no client has anything to say any more.
CHECK_DEADLOCK FALSE
PROPERTIES
  StopTakesEffect
  AcceptedIsServed
