SPECIFICATION FairSpec
CONSTANTS
  Docs = {d1}
  Replayers = {r1, r2}
  Batch = 1
  MaxAttempts = 2
  ApplyFails = TRUE
  NONE = NONE
  MaxEvents = 3
  MaxFaults = 1
INVARIANTS AttemptsBounded AttemptsCounted StaleOnlyByRetry
PROPERTY EveryEventSettles
