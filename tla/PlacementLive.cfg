SPECIFICATION FairSpec
CONSTANTS
  Sandboxes = {s1}
  Workers = {w1}
  Stoppers = {k1}
  NoWorker = NoWorker
  NoTask = NoTask
  Slots = 1
  MaxWorkers = 1
  Provisioned = {}
  Ends = {}
  Loads <- EndlessLoads
CHECK_DEADLOCK FALSE
PROPERTIES CreateSettles OrphansRemoved
