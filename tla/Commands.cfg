SPECIFICATION FairSpec
CONSTANTS
  Killers = {k1, k2}
  Subs = {v1}
  HasTimeout = TRUE
  Limit = 1
  History = 2
  ChunkSizes = {2}
  MaxBytes = 2
  MaxFaults = 1
CHECK_DEADLOCK FALSE
INVARIANT ResultComplete
PROPERTIES KeepsPromise KillEnds TimeoutEnds
