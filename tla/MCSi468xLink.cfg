CONSTANTS
  Fn <- MCFn
  API <- MCApi
  Timeout = 1
  MaxCalls = 3
SPECIFICATION Spec
INVARIANTS
  IInv
  ReplyOwn
  TuneComplete
  ChipIdleAfterOk
PROPERTIES
  ImplementsExchange
  CallReturns
CHECK_DEADLOCK FALSE
