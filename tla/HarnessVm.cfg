SPECIFICATION FairSpec
CONSTANTS
  f1 = f1
  f2 = f2
  None = None
  Run <- MCRetry
  OutOf <- MCRetryOut
  PortOf <- MCRetryPort
  MaxProg = 2
  Exclusive = TRUE
INVARIANTS
  CaptureIsOwn
  
PROPERTIES
  FailureKeepsOut
  ScriptsEnd
CHECK_DEADLOCK FALSE
