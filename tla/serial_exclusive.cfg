SPECIFICATION FairSpec
CONSTANTS
  Users = {u1}
  Tokens = {t1, t2, t3}
  Procs = {p1}
  NONE = NONE
  IsConcurrent = FALSE
  IsShare = FALSE
  ActiveCheck = TRUE
  Faulty = TRUE
  Expiring = FALSE
  MaxSaves = 1
INVARIANTS LiveTokenListed AtMostOneLive NoSpuriousRefusal
PROPERTY EveryRequestEnds
