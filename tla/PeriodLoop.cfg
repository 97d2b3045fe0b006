SPECIFICATION FairSpec
CONSTANTS
  MockTool = {syzkaller, differential}
  VmTool = diffharness
  Thresholds = {0, 3}
  PerPump = 2
  MaxBatch = 2
  Count = 2
  MaxRun = 2
  None = None
INVARIANTS
  HarvestMatchesDisk
  HarvestIsFresh
  BoundaryBounds
  IndexAgreesOrOverwritten
PROPERTIES
  PeriodsEnd
CHECK_DEADLOCK FALSE
