CONSTANTS
  StdinCap = 1
  StderrCap = 1
  StdoutCap = 1
  MaxLog = 2
  MaxOut = 3
  TailUnits = 1
  MaxInput = 3
SPECIFICATION Spec
INVARIANTS
  CaptureIsWhole
PROPERTIES
  CaptureReturns
