SPECIFICATION Spec
CONSTANTS
  Keys = {k1, k2}
  Procs = {p1, p2}
  NONE = NONE
  Careless = FALSE
  MaxDepth = 2
  MaxSteps = 5
SYMMETRY Symmetry
CHECK_DEADLOCK FALSE
INVARIANTS TypeOK AllOrNothing NothingLeftOpen NoLostUpdate
PROPERTY DeletedStaysDeleted
