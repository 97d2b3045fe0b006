SPECIFICATION RunSpec
CONSTANTS
  Unit = 1
  StackBase = 96
  MapBase = 40
  PktBase = 160
  StackSize = 16
  MapSize = 16
  PktSize = 20
  Budget = 12
  Programs <- MCPrograms
  MaxInsn = 64
  MaxKfunc = 0
  Kfuncs = {}
  Masks = {}
  MaxRows <- MCMaxRows
  Texts <- MCTexts
  Words <- MCWords
  Varied <- MCVaried
  Others <- MCOthers
INVARIANTS
  DeadIsUnread
PROPERTIES
  AluIsExact
  AccessIsChecked
CHECK_DEADLOCK FALSE
