SPECIFICATION OverlapSpec
CONSTANTS
  Users = {u1, u2}
  Tokens = {t1, t2}
  Procs = {p1, p2}
  NONE = NONE
  IsConcurrent = FALSE
  IsShare = TRUE
  ActiveCheck = FALSE
  Faulty = TRUE
  Expiring = TRUE
  MaxSaves = 1
SYMMETRY FullSymmetry
INVARIANTS AccountIsolation TerminalListWellFormed
PROPERTY RollbackOnlyByOverlap
