CONSTANTS
  Period = 2
  Buffer = 8
  Total = 11
  Schedule <- MCSchedule
  MaxFaults = 3
SPECIFICATION Spec
INVARIANTS
  IInv
  CountedIsPlayedOrQueued
  LastSegmentHeard
PROPERTIES
  SegmentContinuous
  Finishes
CHECK_DEADLOCK FALSE
