SPECIFICATION WorkingSpec
CONSTANTS
  A = A
  B = B
  C = C
  plain = plain
  other = other
  Kyamls <- MCKyamls
  Styles <- MCStyles
  Kustomizes = {0, 1, 2}
  FirstKustomize = 0
  FirstKyaml = A
  Torn = Torn
  None = None
  HandCut <- MCHandCut
INVARIANTS
  MainIsReady
  StyleIsApi
  ForecastComesTrue
PROPERTIES
  ImplementsPins
  MainIsReleased
CHECK_DEADLOCK FALSE
