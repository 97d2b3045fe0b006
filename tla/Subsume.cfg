SPECIFICATION Spec
CONSTANTS
  Captures <- MCCaptures
  Cuts = {0, 1, 2, 3, 4, 5, 7}
  M64 = 4
  M32 = 4
  Bit = {0, 1}
  MaxReg = 2
  IdSlots = 4
  FirstTmp = 100
  None = None
INVARIANTS
  PairsAreKernels
  ReadersAgree
  CandidatesAreReal
  AgreementsAreCovered
CHECK_DEADLOCK FALSE
