CONSTANTS
  Tones = 4
  Frames = 5
  Ring = 2
  MaxFaults = 2
SPECIFICATION Spec
INVARIANTS
  IInv
  HeardInFull
PROPERTIES
  Ends
CHECK_DEADLOCK FALSE
