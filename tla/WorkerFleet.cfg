SPECIFICATION FairSpec
CONSTANTS
  Workers = {w1, w2, w3}
  MinWorkers = 1
  MaxWorkers = 2
  FailLimit = 2
  Loads <- TroubleLoads
INVARIANT VmTracked
PROPERTIES OrphansOnly OrphanEnds DeadIsNoticed MinRestored OperationEnds
