SPECIFICATION Spec
CONSTANTS
  MaxSteps = 3
  MaxProg = 1
  Pool <- MCPool
  Bounds = {4, 15}
  Seeds <- MCSeeds
  Values = {11, 254}
  Top = 256
INVARIANTS
  ArraysFit
  BoundIsProven
  StoreIsInside
CHECK_DEADLOCK FALSE
