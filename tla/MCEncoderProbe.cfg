CONSTANTS
  StdinCap = 1
  StderrCap = 1
  MaxLog = 2
  FrameUnits = 1
  TailUnits = 1
  MaxCalls = 2
  SmokeFrames = 2
SPECIFICATION ProbeSpec
INVARIANTS
  HardwareIsProven
PROPERTIES
  ProbeReturns
  NothingOutlivesProbe
