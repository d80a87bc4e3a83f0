CONSTANTS
  Proc = {p1, p2, p3}
  Command <- MCCommand
  NoProc = none
SPECIFICATION Spec
INVARIANTS
  IInv
  OneAtATime
PROPERTIES
  Ends
CHECK_DEADLOCK FALSE
