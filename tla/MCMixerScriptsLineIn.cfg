CONSTANTS
  MaxCalls = 1
  MaxFaults = 0
SPECIFICATION Spec
INVARIANT LineInIsSelected
CHECK_DEADLOCK FALSE
