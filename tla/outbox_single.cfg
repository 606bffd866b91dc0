SPECIFICATION Spec
CONSTANTS
  Docs = {d1, d2}
  Replayers = {r1}
  Batch = 2
  MaxAttempts = 2
  ApplyFails = FALSE
  NONE = NONE
  MaxEvents = 4
  MaxFaults = 2
INVARIANTS TypeOK StoresAgree SyncedWasApplied
