SPECIFICATION Spec
CONSTANTS
  None = None
  Program <- MCLong
  Input = {1, 2}
  Byte = {0, 1}
  Address = {1, 2, 3, 4}
  Slots = 3
  Window = 2
  Home <- MCHome
  Area = 2
  CorpusMax = 2
  MaxStores = 2
  GateEvery = 3
  SampleEvery = 2
  MaxIters = 2
INVARIANT
  DesyncIsPruning
CHECK_DEADLOCK FALSE
