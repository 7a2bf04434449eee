CONSTANTS
  UNITS = 10
  Sizes = {0, 16, 17}
SPECIFICATION Spec
INVARIANTS TypeOK OverlapHasTwoCauses FreeListAscends
PROPERTIES LossesAreFinal
CHECK_DEADLOCK FALSE
