CONSTANTS
  StdinCap = 1
  StderrCap = 1
  MaxLog = 3
  FrameUnits = 2
  TailUnits = 2
  MaxCalls = 2
SPECIFICATION Spec
INVARIANTS
  ErrorCarriesLog
  SuccessIsWhole
PROPERTIES
  WriteReturns
  FinishReturns
  NothingOutlivesSession
