SPECIFICATION Spec
CONSTANTS
  Procs = {p1, p2}
  Values = {v1, v2}
  NONE = NONE
  Backends = {"memory", "redis"}
  Timeouts <- MCTimeouts
  Second = 2
  MaxTime = 4
SYMMETRY StoreSymmetry
INVARIANTS TypeOK ReadsAnswerWhatWasThere ContentsAsWritten
PROPERTY MissingStaysMissing
