SPECIFICATION Spec
CONSTANTS
  Users = {u1}
  Tokens = {t1, t2}
  Procs = {p1, p2}
  NONE = NONE
  IsConcurrent = TRUE
  IsShare = FALSE
  ActiveCheck = TRUE
  Faulty = TRUE
  Expiring = FALSE
  MaxSaves = 0
SYMMETRY TokenSymmetry
INVARIANTS TypeOK RevokedStaysDead IssuedTokenIsTimed
PROPERTY TokensNeverRevive
