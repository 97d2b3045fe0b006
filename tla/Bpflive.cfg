SPECIFICATION FairSpec
CONSTANTS
  Programs <- MCPrograms
  MaxInsn = 4
  MaxKfunc = 1
  Kfuncs <- Registrations
  Masks <- MCMasks
  MaxRows <- MCMaxRows
INVARIANTS
  LiveIsExact
  ClaimIsRight
PROPERTIES
  Returns
CHECK_DEADLOCK FALSE
