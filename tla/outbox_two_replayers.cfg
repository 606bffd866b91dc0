SPECIFICATION Spec
CONSTANTS
  Docs = {d1}
  Replayers = {r1, r2}
  Batch = 2
  MaxAttempts = 2
  ApplyFails = FALSE
  NONE = NONE
  MaxEvents = 2
  MaxFaults = 0
INVARIANT StoresAgree
