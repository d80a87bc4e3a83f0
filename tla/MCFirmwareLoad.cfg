CONSTANTS
  Btldr = "btldr"
  App = "app"
  Size <- MCSize
  MaxPayload = 2
  MaxRuns = 2
  Faults = {"file", "gpio", "spi", "reject", "timeout", "garbage", "crash"}
SPECIFICATION Spec
INVARIANTS
  IInv
  AppImage
  RetryRecovers
PROPERTIES
  StartReturns
CHECK_DEADLOCK FALSE
