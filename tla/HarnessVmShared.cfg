SPECIFICATION Spec
CONSTANTS
  f1 = f1
  f2 = f2
  None = None
  Run <- MCPair
  OutOf <- MCPairOut
  PortOf <- MCPairPort
  MaxProg = 1
  Exclusive = FALSE
INVARIANT
  CaptureIsOwn
CHECK_DEADLOCK FALSE
