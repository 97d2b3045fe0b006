SPECIFICATION Spec
CONSTANTS
  Unit = 2
  StackBase = 2000
  MapBase = 1000
  PktBase = 3000
  StackSize = 16
  MapSize = 64
  PktSize = 64
  Budget = 60
  MaxRounds = 4
  MaxFailed = 2
  Arms <- MCArms
  Inputs <- MCInputs
  Edges <- MCEdges
INVARIANTS
  ReportIsTheStore
  LabelsAreTrue
  ControlsHaveTeeth
CHECK_DEADLOCK FALSE
