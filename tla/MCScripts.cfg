CONSTANTS
  Tries = 2
  MaxPids = 5
  MaxDeaths = 1
  MaxCalls = 3
  MaxFaults = 2
SPECIFICATION ScriptsSpec
INVARIANTS
  ScriptsInv
  NoOrphan
PROPERTIES
  SocketFirst
  LateIsStuck
  CommandEnds
  SetBeforeLoop
  LoopEnds
CHECK_DEADLOCK FALSE
