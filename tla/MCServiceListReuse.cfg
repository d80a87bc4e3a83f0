CONSTANTS
  ServiceSize = 6
  MaxServices = 2
  MaxComponents = 2
  ByteMax = 4
  NumCompMax = 2
  GarbageSizes = {0, 6, 13, 28}
  BufferSize = 27
  MaxCalls = 3
SPECIFICATION Spec
INVARIANTS
  StructureIsCleared
CHECK_DEADLOCK FALSE
