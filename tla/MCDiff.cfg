SPECIFICATION Spec
CONSTANTS
  x = x
  y = y
  Texts <- MCTexts
  MaxLines = 6
  MaxCells = 12
  Context = 1
  None = None
INVARIANTS
  TypeOK
  PatchRebuildsNew
  EmptyMeansSame
  HunksAreTight
  DiffIsShortest
CHECK_DEADLOCK FALSE
