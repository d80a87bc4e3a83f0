CONSTANTS
  Period = 2
  Buffer = 8
  Total = 11
  Schedule <- MCSchedule
  MaxFaults = 0
SPECIFICATION Spec
PROPERTIES
  PhaseContinuous
CHECK_DEADLOCK FALSE
