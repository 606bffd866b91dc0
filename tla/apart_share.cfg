SPECIFICATION ApartSpec
CONSTANTS
  Users = {u1, u2}
  Tokens = {t1, t2, t3}
  Procs = {p1, p2}
  NONE = NONE
  IsConcurrent = TRUE
  IsShare = TRUE
  ActiveCheck = TRUE
  Faulty = FALSE
  Expiring = FALSE
  MaxSaves = 1
SYMMETRY FullSymmetry
INVARIANTS RevokedStaysDead IdleTokenRejected IssuedTokenIsTimed
