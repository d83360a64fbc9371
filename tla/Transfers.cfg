SPECIFICATION FairSpec
CONSTANTS
  Loads <- MixedLoads
  QueueSize = 1
CHECK_DEADLOCK FALSE
INVARIANT SuccessIsWhole
PROPERTY Concluded
