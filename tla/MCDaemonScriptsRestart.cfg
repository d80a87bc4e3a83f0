CONSTANTS
  Tries = 2
  MaxPids = 4
  MaxDeaths = 0
SPECIFICATION Spec
PROPERTY SocketIsUp
CHECK_DEADLOCK FALSE
