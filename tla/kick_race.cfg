SPECIFICATION Spec
CONSTANTS
  Users = {u1}
  Tokens = {t1, t2}
  Procs = {p1, p2}
  NONE = NONE
  IsConcurrent = FALSE
  IsShare = FALSE
  ActiveCheck = FALSE
  Faulty = FALSE
  Expiring = FALSE
  MaxSaves = 0
INVARIANT AtMostOneLive
