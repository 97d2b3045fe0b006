SPECIFICATION Spec
CONSTANTS
  None = None
  Half = 2
  Histories <- MCHistories
INVARIANTS
  ReportAddsUp
  ReportIsOfItsRun
  DivergencesAreOwn
  NoFalseFinding
  CountsCouldFail
CHECK_DEADLOCK FALSE
